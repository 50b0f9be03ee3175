--------------------------- MODULE LearningService ---------------------------
(***************************************************************************)
(* How the application service answers a submission from the recogniser,   *)
(* the recognition memory and its cache of answers                         *)
(* (crates/semantic-engine-service, over RecognitionMemory and the audit). *)
(*                                                                         *)
(* SessionService models what is recorded of an answer and abstracts the   *)
(* memory and the cache; this module models these and abstracts the rest:  *)
(* one session at a time plays the round in each context, of which only    *)
(* the deliveries are kept, and the audit is a set of rows.                *)
(* Two clocks run: the wall clock, which the memory uses and which may be  *)
(* set, and a steady one, on which cached answers age.                     *)
(***************************************************************************)
EXTENDS Recognition, RecognitionMemory, SequencesExt

CONSTANTS
  Round,        \* the round that is played
  Contexts,     \* versions of contexts
  NoContext,    \* a session without context
  Requests,     \* the requests clients make: [submission, context],
                \* a submission being [message, participant, text]
  CacheCapacity, CacheTtl, MaxRecorded,  \* ServiceConfig
  MaxTime,      \* bound of the model on the wall clock
  MaxRows,      \* bound of the model on the rows ever inserted
  NoReply

ASSUME LearningServiceAssumption ==
  /\ CacheCapacity \in Nat /\ CacheTtl \in Nat /\ MaxRecorded \in Nat \ {0}
  /\ MaxTime \in Nat /\ MaxRows \in Nat
  /\ NoContext \notin Contexts
  /\ \A q \in Requests : q.context \in Contexts \cup {NoContext}

\* What the preflight of a session has checked, and fuzzy_score's range.
ASSUME RoundAssumption ==
  /\ Round \in [id : {Round.id}, accept : Nat, review : Nat, margin : Nat,
                targets : Seq({Round.targets[i] : i \in DOMAIN Round.targets})]
  /\ Round.targets # << >> /\ Round.review <= Round.accept
  /\ \A i \in DOMAIN Round.targets :
       /\ IsFiniteSet(Round.targets[i].expressions) /\ Round.targets[i].expressions # {}
       /\ \A q \in Requests, e \in Round.targets[i].expressions :
            Likeness[<<Form(q.submission.text), Form(e)>>] \in Nat

VARIABLES
  clock,     \* the wall clock
  rows,      \* the table recognition_memory
  nextRow,   \* its AUTOINCREMENT
  cache,     \* the answers in the cache, least recently used first
  recorded,  \* the validations of this process, oldest first
  delivered, \* for each context, the deliveries of its session, oldest first
  audit,     \* the rows of the audit
  reply,     \* the last answer given
  aux_taught  \* what operators have taught and not revoked since

vars == <<clock, rows, nextRow, cache, recorded, delivered, audit, reply,
          aux_taught>>

TargetIds == {Round.targets[i].id : i \in DOMAIN Round.targets}
Texts     == {q.submission.text : q \in Requests}

SessionContexts == Contexts \cup {NoContext}

Init ==
  /\ clock = 0 /\ rows = {} /\ nextRow = 1
  /\ cache = << >> /\ recorded = << >> /\ audit = {}
  /\ delivered = [c \in SessionContexts |-> << >>]
  /\ reply = NoReply /\ aux_taught = {}

-----------------------------------------------------------------------------
\* memory_matches, once lookup has expired what is due: nothing is looked up
\* without a context or for a text that cannot be an expression.
MemoryMatches(table, context, text) ==
  IF context = NoContext \/ text \in LongExpressions \/ Normalized[text] = Empty
  THEN {}
  ELSE Matches(table, context, Normalized[text], TargetIds)

LooksUp(context, text) ==
  context # NoContext /\ text \notin LongExpressions /\ Normalized[text] # Empty

\* The answer without memory: one for each submission, since a round is fixed.
Configured == [s \in {q.submission : q \in Requests} |-> Validate(Round, s)]

\* validation_with_memory.
MemoryApplies(configured, matches) ==
  /\ matches # {}
  /\ ~configured.issue
  /\ ~(configured.evidence \in {"configured", "ambiguous"} /\ configured.score = 100)

ValidationWithMemory(configured, matches) ==
  LET targets == {r.target : r \in matches}
      matched == CHOOSE e \in {r.expression : r \in matches} : TRUE
  IN  IF ~MemoryApplies(configured, matches) THEN configured
      ELSE IF Cardinality(targets) = 1
           THEN Answer("accepted", CHOOSE t \in targets : TRUE, 100, "memory", matched)
           ELSE Answer("abstained", NoTarget, 100, "ambiguous", matched)

\* Mutant: the key says nothing of the memory.
CacheKeyWithoutMemory(submission, context, matches) ==
  <<submission.text, context, {}>>

\* cache_fingerprint: the text as it was written, not its normal form.
CacheKey(submission, context, matches) ==
  <<submission.text, context, {<<r.row, r.target>> : r \in matches}>>

InOrder(positions) ==
  CHOOSE f \in [1 .. Cardinality(positions) -> positions] :
    \A i, j \in DOMAIN f : i < j => f[i] < f[j]

\* The entries at some positions, in their order.
Kept(entries, positions) ==
  [i \in 1 .. Cardinality(positions) |-> entries[InOrder(positions)[i]]]

\* prune_expired_cache.
Pruned(entries) == Kept(entries, {i \in DOMAIN entries : entries[i].age < CacheTtl})

Cached(entries, key) == {i \in DOMAIN entries : entries[i].key = key}

Others(entries, key) == Kept(entries, DOMAIN entries \ Cached(entries, key))

\* take_cached: a hit becomes the most recent entry, and keeps its age.
Touched(entries, key) ==
  Others(entries, key) \o Kept(entries, Cached(entries, key))

\* Mutant: the oldest entry is never dropped.
InsertedOver(entries, key, answer) ==
  Append(Others(entries, key), [key |-> key, age |-> 0, answer |-> answer])

\* insert_cache.
Inserted(entries, key, answer) ==
  LET longer == Append(Others(entries, key), [key |-> key, age |-> 0, answer |-> answer])
  IN  IF CacheCapacity = 0 THEN entries
      ELSE SubSeq(longer, Max({1, Len(longer) - CacheCapacity + 1}), Len(longer))

\* The part of `validate' between the recorded validations and the audit: the
\* table with what is due expired, the matches, the answer and the cache.
Computation(submission, context) ==
  LET table   == IF LooksUp(context, submission.text) THEN Expired(rows, clock) ELSE rows
      matches == MemoryMatches(table, context, submission.text)
      fresh   == ValidationWithMemory(Configured[submission], matches)
      key     == CacheKey(submission, context, matches)
      live    == Pruned(cache)
      hit     == Cached(live, key)
  IN  [table   |-> table,
       matches |-> matches,
       applied |-> MemoryApplies(Configured[submission], matches),
       fresh   |-> fresh,
       answer  |-> IF hit = {} THEN fresh ELSE live[Max(hit)].answer,
       cache   |-> IF hit = {} THEN Inserted(live, key, fresh) ELSE Touched(live, key)]

UsedTable(c) == IF c.applied THEN MarkedUsed(c.table, c.matches, clock) ELSE c.table

RecordedFor(message) == {i \in DOMAIN recorded : recorded[i].submission.message = message}

DeliveredFor(context, message) ==
  {i \in DOMAIN delivered[context] : delivered[context][i].submission.message = message}

AuditedFor(message) == {a \in audit : a.message = message}

\* What the audit keeps of an answer (StoredValidation); that it also tells
\* exact matches of the text as written from normalised ones is left out.
Projection(answer) ==
  <<answer.decision, answer.target, answer.score, answer.evidence, answer.issue>>

AuditRow(submission, context, answer) ==
  [message |-> submission.message, participant |-> submission.participant,
   context |-> context, answer |-> Projection(answer)]

\* Mutant: the audit keeps whatever answer it has and says nothing.
AuditableAlways(submission, context, answer) ==
  submission.participant \notin BadParticipants

\* record_validation accepts an answer: its identifiers are those of a valid
\* submission, and a row of its message says the same.
Auditable(submission, context, answer) ==
  /\ submission.participant \notin BadParticipants
  /\ AuditedFor(submission.message) \subseteq {AuditRow(submission, context, answer)}

\* record_validation writes it.  apply_retention runs when a row is new: the
\* clock that stamps rows may be set, so any of the others may be too old.
Audit(submission, context, answer) ==
  IF AuditedFor(submission.message) # {} THEN audit' = audit
  ELSE \E kept \in SUBSET audit :
         audit' = kept \cup {AuditRow(submission, context, answer)}

\* The newest of a bounded queue.
Newest(queue) == IF Len(queue) > MaxRecorded THEN Tail(queue) ELSE queue

Given(submission, context, answer, fresh, kind) ==
  [submission |-> submission, context |-> context, answer |-> answer,
   fresh |-> fresh, kind |-> kind]

\* How validate's answer is given: to a caller of its own, to submit, which
\* records the delivery, or to nobody, when the session store fails submit.
Deliver(given) ==
  LET c == given.context
  IN  \/ reply' = given /\ UNCHANGED delivered
      \/ /\ DeliveredFor(c, given.submission.message) = {}
         /\ \/ /\ reply' = given
               /\ delivered' = [delivered EXCEPT ![c] =
                    Newest(Append(@, [submission |-> given.submission, held |-> TRUE]))]
            \/ reply' = NoReply /\ UNCHANGED delivered

-----------------------------------------------------------------------------
(* submit to a session that has the message already.                       *)

\* With the same request it is answered without memory, and nothing is
\* written; with another one it is refused.
SubmitAgain(submission, context) ==
  /\ \E i \in DeliveredFor(context, submission.message) :
       reply' = IF delivered[context][i].submission # submission THEN NoReply
                ELSE Given(submission, context, Configured[submission],
                           Configured[submission], "replayed")
  /\ UNCHANGED <<clock, rows, nextRow, cache, recorded, delivered, audit, aux_taught>>

(* validate, by its outcomes, called by submit or on its own.              *)

\* The message is recorded with the same request: the recorded answer.
ValidateAgain(submission, context) ==
  /\ \E i \in RecordedFor(submission.message) :
       /\ recorded[i].submission = submission /\ recorded[i].context = context
       /\ Deliver(Given(submission, context, recorded[i].answer, recorded[i].answer,
                        "repeated"))
  /\ cache' = Pruned(cache)
  /\ UNCHANGED <<clock, rows, nextRow, recorded, audit, aux_taught>>

\* It is recorded with another one, or the memory cannot be read.
ValidateRefused(submission, context) ==
  /\ \/ \E i \in RecordedFor(submission.message) :
          recorded[i].submission # submission \/ recorded[i].context # context
     \/ RecordedFor(submission.message) = {} /\ LooksUp(context, submission.text)
  /\ cache' = Pruned(cache)
  /\ reply' = NoReply
  /\ UNCHANGED <<clock, rows, nextRow, recorded, delivered, audit, aux_taught>>

\* A new request, answered and recorded.
ValidateNew(submission, context) ==
  /\ RecordedFor(submission.message) = {}
  /\ LET c == Computation(submission, context)
     IN  /\ Auditable(submission, context, c.answer)
         /\ cache' = c.cache
         /\ rows' = UsedTable(c)
         /\ Audit(submission, context, c.answer)
         /\ recorded' = Newest(Append(recorded,
              [submission |-> submission, context |-> context, answer |-> c.answer]))
         /\ Deliver(Given(submission, context, c.answer, c.fresh, "new"))
  /\ UNCHANGED <<clock, nextRow, aux_taught>>

\* The answer is in the cache when the memory cannot be marked, or when the
\* audit refuses the answer or fails.
ValidateFails(submission, context) ==
  /\ RecordedFor(submission.message) = {}
  /\ LET c == Computation(submission, context)
     IN  /\ cache' = c.cache
         /\ \/ rows' = UsedTable(c)
            \/ c.applied /\ rows' = c.table
  /\ reply' = NoReply
  /\ UNCHANGED <<clock, nextRow, recorded, delivered, audit, aux_taught>>

-----------------------------------------------------------------------------
\* start_session, of a session that plays the round anew in a context.
StartSession(context) ==
  /\ delivered' = [delivered EXCEPT ![context] = << >>]
  /\ reply' = NoReply
  /\ UNCHANGED <<clock, rows, nextRow, cache, recorded, audit, aux_taught>>

\* remember_session_resolution, in a session with a context: an operator has
\* accepted a target for a message that is delivered and whose text is held.
Learn(context, text, target) ==
  /\ \E i \in DOMAIN delivered[context] :
       delivered[context][i].held /\ delivered[context][i].submission.text = text
  /\ Acceptable(Round, target)
  /\ Normalized[text] # Empty /\ text \notin LongExpressions
  /\ nextRow <= MaxRows
  /\ rows' = Remembered(rows, nextRow, context, target, Normalized[text], clock)
  /\ nextRow' = IF \E r \in rows' : r.row = nextRow THEN nextRow + 1 ELSE nextRow
  /\ aux_taught' = aux_taught \cup {<<context, Normalized[text], target>>}
  /\ reply' = NoReply
  /\ UNCHANGED <<clock, cache, recorded, delivered, audit>>

\* revoke_memory.
RevokeMemory(row) ==
  /\ \E r \in ActiveRows(rows) :
       /\ r.row = row
       /\ aux_taught' = aux_taught \ {<<r.context, r.expression, r.target>>}
  /\ rows' = Revoked(rows, row)
  /\ reply' = NoReply
  /\ UNCHANGED <<clock, nextRow, cache, recorded, delivered, audit>>

\* recognition_memory: listing the entries expires what is due.
ListMemory ==
  /\ rows' = Expired(rows, clock)
  /\ reply' = NoReply
  /\ UNCHANGED <<clock, nextRow, cache, recorded, delivered, audit, aux_taught>>

\* purge_local_data; AUTOINCREMENT goes on counting.
PurgeLocalData ==
  /\ rows' = {} /\ audit' = {} /\ recorded' = << >> /\ cache' = << >>
  /\ delivered' = [c \in SessionContexts |-> << >>]
  /\ reply' = NoReply /\ aux_taught' = {}
  /\ UNCHANGED <<clock, nextRow>>

\* The process stops and SemanticEngineService::open runs again: deliveries
\* are restored without their texts, of which their fingerprints remain.
Restart ==
  /\ recorded' = << >> /\ cache' = << >> /\ reply' = NoReply
  /\ delivered' = [c \in SessionContexts |->
       [i \in DOMAIN delivered[c] |-> [delivered[c][i] EXCEPT !.held = FALSE]]]
  /\ UNCHANGED <<clock, rows, nextRow, audit, aux_taught>>

\* Time passes on both clocks.
Tick ==
  /\ clock < MaxTime
  /\ clock' = clock + 1
  /\ cache' = [i \in DOMAIN cache |->
                 [cache[i] EXCEPT !.age = IF @ < CacheTtl THEN @ + 1 ELSE @]]
  /\ reply' = NoReply
  /\ UNCHANGED <<rows, nextRow, recorded, delivered, audit, aux_taught>>

\* The wall clock is set back.
ClockBack ==
  /\ \E t \in 0 .. clock - 1 : clock' = t
  /\ reply' = NoReply
  /\ UNCHANGED <<rows, nextRow, cache, recorded, delivered, audit, aux_taught>>

Next ==
  \/ \E q \in Requests :
       \/ SubmitAgain(q.submission, q.context)
       \/ ValidateAgain(q.submission, q.context)
       \/ ValidateRefused(q.submission, q.context)
       \/ ValidateNew(q.submission, q.context)
       \/ ValidateFails(q.submission, q.context)
  \/ \E c \in SessionContexts : StartSession(c)
  \/ \E c \in Contexts, t \in Texts, target \in TargetIds :
       Learn(c, t, target)
  \/ \E r \in 1 .. MaxRows : RevokeMemory(r)
  \/ ListMemory
  \/ PurgeLocalData
  \/ Restart
  \/ Tick
  \/ ClockBack

Spec == Init /\ [][Next]_vars

-----------------------------------------------------------------------------
TypeOK ==
  /\ clock \in 0 .. MaxTime
  /\ nextRow \in 1 .. MaxRows + 1
  /\ \A r \in rows : r.row \in 1 .. nextRow - 1 /\ r.state \in {"active", "closed"}
  /\ \A r \in ActiveRows(rows) :
       /\ r.context \in Contexts /\ r.target \in TargetIds
       /\ r.lastUsed \in 0 .. MaxTime /\ r.expires \in Ttl .. MaxTime + Ttl
  /\ Len(cache) <= CacheCapacity /\ Len(recorded) <= MaxRecorded
  /\ \A c \in SessionContexts : Len(delivered[c]) <= MaxRecorded
  /\ \A i, j \in DOMAIN cache : cache[i].key = cache[j].key => i = j

\* An answer that is computed for a message is the one the recogniser and the
\* memory give at that moment, whether it was worked out or taken from the
\* cache: nothing learned, revoked, expired, evicted or purged since it was
\* cached shows through (take_cached, insert_cache, cache_fingerprint).  One
\* answer does: the verdict InvalidSubmission is about the participant and the
\* message too, which are not in the key.
AnswersAreFresh ==
  reply # NoReply => reply.answer = reply.fresh \/ reply.answer.issue

\* The same without that exception, which the code does not keep.
AnswersAreAlwaysFresh == reply # NoReply => reply.answer = reply.fresh

\* While the audit has a row for a message, validate gives no other answer to
\* it, whatever the process forgot in a restart and the memory learned since:
\* where a new answer would differ the audit refuses it, and a recorded one
\* never drifts from its row (validate, record_validation).  Retention may
\* delete the row, after which the message may be answered otherwise; and
\* submit does not ask validate about a message its session has: it answers
\* that without memory, see SubmitAgain.
AuditedAnswerStands ==
  reply # NoReply /\ reply.kind # "replayed" =>
    \A a \in AuditedFor(reply.submission.message) :
      a = AuditRow(reply.submission, reply.context, reply.answer)

\* The memory applies only what an operator taught for that context and has
\* not revoked or purged since: revoking one entry leaves no second one of the
\* same expression behind (remember, revoke, purge_local_data).
OnlyTaughtApplies ==
  \A r \in ActiveRows(rows) : <<r.context, r.expression, r.target>> \in aux_taught

\* A new answer from the memory is for a valid submission that the round does not
\* itself answer exactly, and rests on an entry of that context and target
\* that is active and not due (validation_with_memory, lookup).
MemoryAnswersJustified ==
  reply # NoReply /\ reply.kind = "new" /\ reply.answer.evidence = "memory" =>
    /\ ExactMatches(Round, reply.submission.text) = {}
    /\ ~Issue(reply.submission)
    /\ \E r \in ActiveRows(rows) :
         /\ r.context = reply.context /\ r.target = reply.answer.target
         /\ r.expression = Normalized[reply.submission.text]
         /\ clock < r.expires

\* The memory holds no more active entries than its capacity, and no more
\* rows than a history besides them, although it is trimmed only when an entry
\* is learned, and entries are closed at any time (evict_if_full, trim_history).
MemoryBounded ==
  /\ Cardinality(ActiveRows(rows)) <= Capacity
  /\ Cardinality(rows) <= Capacity + History

ConfiguredReversed ==
  [s \in DOMAIN Configured |-> Validate([Round EXCEPT !.targets = Reverse(@)], s)]

\* With a margin, the order in which a round lists its targets decides no
\* verdict: not whether a submission is accepted, nor for which target, and
\* not the score.  It does decide which expression the evidence of an
\* ambiguous answer names (validate_fuzzy, which sorts the candidates by score
\* alone and names the first).
TargetOrderIrrelevant ==
  Round.margin > 0 /\ reply # NoReply =>
    LET answer   == Configured[reply.submission]
        reversed == ConfiguredReversed[reply.submission]
    IN  /\ Projection(answer) = Projection(reversed)
        /\ answer.matched = reversed.matched \/ answer.evidence = "ambiguous"
=============
