--------------------------- MODULE SessionService ---------------------------
(***************************************************************************)
(* The application service (crates/semantic-engine-service): sessions,     *)
(* their event journals, idempotent deliveries and operator resolutions.   *)
(*                                                                         *)
(* The service is one value behind one mutex, so operations do not         *)
(* interleave; what makes it hard is that one operation is several commits *)
(* (audit, then session store) followed by an update of the copy it keeps  *)
(* in memory, and that a commit may fail or the process may stop between   *)
(* any two of them.  An action is a whole operation; where a later commit  *)
(* fails it leaves the earlier ones behind.  A process that stops between  *)
(* two commits is the failing outcome followed by Restart, one that stops  *)
(* after the last commit is the successful outcome followed by Restart.    *)
(***************************************************************************)
EXTENDS AuditStore, SessionStore

CONSTANTS
  Sessions,      \* identifiers of sessions
  Definitions,   \* what a session is started with: a round and a context
  Texts,         \* texts of submissions
  Submissions,   \* the submissions clients may send
  Configured,    \* what the recogniser answers to a text without memory
  MaxSessions,   \* ServiceConfig.max_sessions
  MaxSequence,   \* bound of the model on the events of one session
  NoText,        \* a delivery whose text is gone
  NoReply,       \* the last operation was not an accepted submission
  None           \* an event without message or verdict

ASSUME SessionServiceAssumption ==
  /\ Definitions \subseteq [round : Rounds, context : Contexts]
  /\ Submissions \subseteq [message : Messages, origin : Origins, text : Texts]
  /\ Configured \in [Texts -> [verdict : Verdicts, exact : BOOLEAN]]
  /\ MaxSessions \in Nat \ {0}
  /\ MaxSequence \in Nat \ {0}
  /\ None \notin Verdicts \cup {NoResolution}

VARIABLES
  memory,    \* the sessions in memory, by identifier
  order,     \* their order in the deque, oldest first; the rows of
             \* session_records have the same order by created_at_ms
  disk,      \* the sessions in the session store
  audit,     \* the table of the audit
  recorded,  \* the validations this process has recorded, oldest first
  learned,   \* active entries of the recognition memory
  reply,     \* the last answer to a submission
  aux_dropped \* identities whose audit row retention has deleted

vars == <<memory, order, disk, audit, recorded, learned, reply, aux_dropped>>

-----------------------------------------------------------------------------
Event == [sequence : 1 .. MaxSequence,
          kind     : {"started", "validation", "resolution", "ended"},
          message  : Messages \cup {None},
          verdict  : Verdicts \cup {None}]

\* The request fingerprint of a delivery hashes its submission and the
\* definition of its session, which never changes: the submission stands for it.
Delivery == [sequence : 1 .. MaxSequence, submission : Submissions,
             verdict : Verdicts, emitted : BOOLEAN, text : Texts \cup {NoText}]

SessionRecord == [definition : Definitions, state : {"active", "ended"},
                  latest : 1 .. MaxSequence, events : SUBSET Event,
                  deliveries : SUBSET Delivery]

\* The absence of a session is no session.
ASSUME NoSessionAssumption == NoSession \notin SessionRecord

Recorded == [definition : Definitions, submission : Submissions,
             verdict : Verdicts]

Reply == [session : Sessions, submission : Submissions, verdict : Verdicts]

TypeOK ==
  /\ memory \in [Sessions -> SessionRecord \cup {NoSession}]
  /\ order \in Seq(Sessions)
  /\ disk \in [Sessions -> SessionRecord \cup {NoSession}]
  /\ audit \in Seq(AuditRow)
  /\ recorded \in Seq(Recorded)
  /\ learned \subseteq Contexts \X Texts \X Targets
  /\ reply \in Reply \cup {NoReply}
  /\ aux_dropped \subseteq Rounds \X Messages

-----------------------------------------------------------------------------
(* Helpers.                                                                *)

Active(s) == memory[s] # NoSession /\ memory[s].state = "active"

\* `while len > cap { pop_front }' on a deque ordered by sequence.
Newest(rows, cap) ==
  {row \in rows : Cardinality({r \in rows : r.sequence > row.sequence}) < cap}

\* The same on a deque to which one element has just been pushed.
PushBounded(queue, item, cap) ==
  IF Len(queue) < cap THEN Append(queue, item) ELSE Append(Tail(queue), item)

\* new_session_event.
NewEvent(record, kind, message, verdict) ==
  [sequence |-> record.latest + 1, kind |-> kind,
   message |-> message, verdict |-> verdict]

\* Mutant: one event too many is kept.
PushedOneTooMany(record, event) ==
  [record EXCEPT !.latest = event.sequence,
                 !.events = Newest(@, MaxEvents) \cup {event}]

\* push_session_event.
Pushed(record, event) ==
  [record EXCEPT !.latest = event.sequence,
                 !.events = Newest(@ \cup {event}, MaxEvents)]

StartedEvent ==
  [sequence |-> 1, kind |-> "started", message |-> None, verdict |-> None]

Started(d) == [definition |-> d, state |-> "active", latest |-> 1,
               events |-> {StartedEvent}, deliveries |-> {}]

DeliveriesOf(record, message) ==
  {delivery \in record.deliveries : delivery.submission.message = message}

ResolutionsOf(record, message) ==
  {e \in record.events : e.kind = "resolution" /\ e.message = message}

RecordedFor(round, message) ==
  {i \in DOMAIN recorded : /\ recorded[i].definition.round = round
                           /\ recorded[i].submission.message = message}

\* validation_with_memory: learned expressions come after an exact configured
\* one; two learned targets for one text make the engine abstain.
ValidationWithMemory(context, text) ==
  LET matches == {t \in Targets : <<context, text, t>> \in learned}
  IN  IF Configured[text].exact \/ matches = {}
      THEN Configured[text].verdict
      ELSE IF \E t \in matches : matches = {t}
           THEN CHOOSE t \in matches : TRUE
           ELSE "abstained"

-----------------------------------------------------------------------------
Init ==
  /\ memory = [s \in Sessions |-> NoSession]
  /\ order = << >>
  /\ disk = [s \in Sessions |-> NoSession]
  /\ audit = << >>
  /\ recorded = << >>
  /\ learned = {}
  /\ reply = NoReply
  /\ aux_dropped = {}

\* Commits one of `tables' as the audit; what retention deletes is remembered.
CommitAudit(tables) ==
  /\ audit' \in tables
  /\ aux_dropped' = aux_dropped \cup (Identities(audit) \ Identities(audit'))

(***************************************************************************)
(* The part of validate that changes state: either this process already    *)
(* recorded the same request, or the audit records it.  Not enabled when   *)
(* the answer is IdentityConflict or an audit conflict, which change       *)
(* nothing.                                                                *)
(***************************************************************************)
Validated(d, submission, verdict) ==
  LET known == RecordedFor(d.round, submission.message)
      row == [round |-> d.round, message |-> submission.message,
              origin |-> submission.origin, context |-> d.context,
              verdict |-> verdict, resolution |-> NoResolution]
  IN  \/ /\ \E i \in known : recorded[i] = [definition |-> d,
                                            submission |-> submission,
                                            verdict |-> verdict]
         /\ UNCHANGED <<audit, recorded, aux_dropped>>
      \/ /\ known = {}
         /\ verdict = ValidationWithMemory(d.context, submission.text)
         /\ CommitAudit(RecordValidation(audit, row))
         /\ recorded' = PushBounded(recorded,
                          [definition |-> d, submission |-> submission,
                           verdict |-> verdict], MaxRecorded)

\* validate and resolve as operations of their own, outside a session.
Validate(d, submission) ==
  /\ \E verdict \in Verdicts : Validated(d, submission, verdict)
  /\ reply' = NoReply
  /\ UNCHANGED <<memory, order, disk, learned>>

Resolve(i, resolution) ==
  /\ CommitAudit(RecordResolution(audit, recorded[i].definition.round,
                   recorded[i].submission.message,
                   recorded[i].submission.origin,
                   recorded[i].verdict, resolution))
  /\ reply' = NoReply
  /\ UNCHANGED <<memory, order, disk, recorded, learned>>

-----------------------------------------------------------------------------
(***************************************************************************)
(* start_session on a free identifier: at capacity the first ended session *)
(* is evicted, in the store and then in memory, before the new one is      *)
(* created; if only the creation fails the evicted session stays gone.     *)
(* An identifier in use answers a snapshot or SessionConflict.             *)
(***************************************************************************)
Ended(s) == memory[s] # NoSession /\ memory[s].state = "ended"

FirstEnded(i) ==
  /\ Ended(order[i])
  /\ \A j \in 1 .. i - 1 : ~ Ended(order[j])

Without(i) == [j \in 1 .. Len(order) - 1 |->
                 IF j < i THEN order[j] ELSE order[j + 1]]

Admit(s, d, remaining, stored, queue) ==
  \E created \in StoreCreate(stored[s], Started(d)) :
    /\ disk' = [stored EXCEPT ![s] = created]
    /\ memory' = [remaining EXCEPT ![s] = Started(d)]
    /\ order' = Append(queue, s)

StartSession(s, d) ==
  /\ memory[s] = NoSession
  /\ Len(order) < MaxSessions
  /\ Admit(s, d, memory, disk, order)
  /\ reply' = NoReply
  /\ UNCHANGED <<audit, recorded, learned, aux_dropped>>

StartSessionEvicting(s, d, i) ==
  /\ memory[s] = NoSession
  /\ Len(order) >= MaxSessions
  /\ FirstEnded(i)
  /\ \E gone \in StoreDeleteEnded(disk[order[i]]) :
       LET remaining == [memory EXCEPT ![order[i]] = NoSession]
           stored == [disk EXCEPT ![order[i]] = gone]
       IN  \/ Admit(s, d, remaining, stored, Without(i))
           \/ /\ memory' = remaining
              /\ disk' = stored
              /\ order' = Without(i)
  /\ reply' = NoReply
  /\ UNCHANGED <<audit, recorded, learned, aux_dropped>>

(***************************************************************************)
(* submit.  A message already delivered in this session is answered from   *)
(* the recogniser alone when the request is the same (Replay) and with     *)
(* IdentityConflict otherwise.  A new one is validated (which commits to   *)
(* the audit), then committed to the session store, then to memory.        *)
(***************************************************************************)
Replay(s, submission) ==
  /\ Active(s)
  /\ \E delivery \in DeliveriesOf(memory[s], submission.message) :
       delivery.submission = submission
  /\ reply' = [session |-> s, submission |-> submission,
               verdict |-> Configured[submission.text].verdict]
  /\ UNCHANGED <<memory, order, disk, audit, recorded, learned, aux_dropped>>

Delivered(record, event, delivery) ==
  [Pushed(record, event) EXCEPT
     !.deliveries = Newest(@ \cup {delivery}, MaxRecorded)]

DeliverValidation(s, submission, verdict) ==
  LET event == NewEvent(memory[s], "validation", submission.message, verdict)
      delivery == [sequence |-> event.sequence, submission |-> submission,
                   verdict |-> verdict, emitted |-> FALSE, text |-> NoText]
  IN  /\ \E stored \in StoreValidation(disk[s], event, delivery) :
           disk' = [disk EXCEPT ![s] = stored]
      /\ memory' = [memory EXCEPT ![s] =
           Delivered(@, event, [delivery EXCEPT !.text = submission.text])]
      /\ reply' = [session |-> s, submission |-> submission,
                   verdict |-> verdict]

Submit(s, submission) ==
  /\ Active(s)
  /\ memory[s].latest < MaxSequence
  /\ DeliveriesOf(memory[s], submission.message) = {}
  /\ \E verdict \in Verdicts :
       /\ Validated(memory[s].definition, submission, verdict)
       /\ \/ DeliverValidation(s, submission, verdict)
          \/ /\ reply' = NoReply      \* the session store failed or refused
             /\ UNCHANGED <<memory, disk>>
  /\ UNCHANGED <<order, learned>>

(***************************************************************************)
(* resolve_session: the audit first; then, unless the delivery already     *)
(* emitted its resolution, the session store and memory.                   *)
(***************************************************************************)
\* Mutant: the delivery in memory is not marked.
EmittedUnmarked(record, event, delivery) == Pushed(record, event)

Emitted(record, event, delivery) ==
  [Pushed(record, event) EXCEPT
     !.deliveries = (@ \ {delivery}) \cup {[delivery EXCEPT !.emitted = TRUE]}]

EmitResolution(s, delivery, resolution) ==
  LET event == NewEvent(memory[s], "resolution", delivery.submission.message,
                        resolution)
  IN  /\ \E stored \in StoreResolution(disk[s], event) :
           disk' = [disk EXCEPT ![s] = stored]
      /\ memory' = [memory EXCEPT ![s] = Emitted(@, event, delivery)]

ResolveSession(s, message, resolution) ==
  /\ Active(s)
  /\ memory[s].latest < MaxSequence
  /\ \E delivery \in DeliveriesOf(memory[s], message) :
       /\ CommitAudit(RecordResolution(audit, memory[s].definition.round,
                        message, delivery.submission.origin,
                        delivery.verdict, resolution))
       /\ \/ ~delivery.emitted /\ EmitResolution(s, delivery, resolution)
          \/ UNCHANGED <<memory, disk>>  \* already emitted, or the store failed
  /\ reply' = NoReply
  /\ UNCHANGED <<order, recorded, learned>>

EndSession(s) ==
  LET event == NewEvent(memory[s], "ended", None, None)
  IN  /\ Active(s)
      /\ memory[s].latest < MaxSequence
      /\ \E stored \in StoreEnd(disk[s], event) :
           disk' = [disk EXCEPT ![s] = stored]
      /\ memory' = [memory EXCEPT
                      ![s] = [Pushed(@, event) EXCEPT !.state = "ended"]]
      /\ reply' = NoReply
      /\ UNCHANGED <<order, audit, recorded, learned, aux_dropped>>

-----------------------------------------------------------------------------
\* remember_session_resolution: learns the text of a delivery that is still
\* in memory, for the target of the newest resolution of its message.
Remember(s, message) ==
  /\ memory[s] # NoSession
  /\ \E e \in ResolutionsOf(memory[s], message),
        delivery \in DeliveriesOf(memory[s], message) :
       /\ \A f \in ResolutionsOf(memory[s], message) : f.sequence <= e.sequence
       /\ delivery.text # NoText
       /\ e.verdict \in Targets
       /\ learned' = learned \cup
            {<<memory[s].definition.context, delivery.text, e.verdict>>}
  /\ reply' = NoReply
  /\ UNCHANGED <<memory, order, disk, audit, recorded, aux_dropped>>

\* revoke_memory; an entry that expires or is evicted goes the same way.
Forget(entry) ==
  /\ learned' = learned \ {entry}
  /\ reply' = NoReply
  /\ UNCHANGED <<memory, order, disk, audit, recorded, aux_dropped>>

\* purge_local_data: one SQL transaction, then the copies in memory.
Purge ==
  /\ memory' = [s \in Sessions |-> NoSession]
  /\ order' = << >>
  /\ disk' = [s \in Sessions |-> NoSession]
  /\ audit' = << >>
  /\ recorded' = << >>
  /\ learned' = {}
  /\ reply' = NoReply
  /\ aux_dropped' = {}

\* Mutant: the next sequence is restored as the last one.
RestoredNext(stored) ==
  IF stored = NoSession THEN NoSession ELSE [stored EXCEPT !.latest = @ + 1]

\* restore_sessions: the process stopped, at any point, and opens the stores.
Restored(stored) ==
  IF stored = NoSession THEN NoSession
  ELSE [stored EXCEPT !.events = Newest(@, MaxEvents),
                      !.deliveries = Newest(@, MaxRecorded)]

Restart ==
  /\ Cardinality({s \in Sessions : disk[s] # NoSession}) <= MaxSessions
  /\ memory' = [s \in Sessions |-> Restored(disk[s])]
  /\ recorded' = << >>
  /\ reply' = NoReply
  /\ UNCHANGED <<order, disk, audit, learned, aux_dropped>>

Next ==
  \/ \E d \in Definitions, submission \in Submissions : Validate(d, submission)
  \/ \E i \in DOMAIN recorded, resolution \in Resolutions :
       Resolve(i, resolution)
  \/ \E s \in Sessions, d \in Definitions : StartSession(s, d)
  \/ \E s \in Sessions, d \in Definitions, i \in DOMAIN order :
       StartSessionEvicting(s, d, i)
  \/ \E s \in Sessions, submission \in Submissions : Replay(s, submission)
  \/ \E s \in Sessions, submission \in Submissions : Submit(s, submission)
  \/ \E s \in Sessions, message \in Messages, resolution \in Resolutions :
       ResolveSession(s, message, resolution)
  \/ \E s \in Sessions : EndSession(s)
  \/ \E s \in Sessions, message \in Messages : Remember(s, message)
  \/ \E entry \in learned : Forget(entry)
  \/ Purge
  \/ Restart

Spec == Init /\ [][Next]_vars

-----------------------------------------------------------------------------
(* Safety.                                                                 *)

\* The number of rows a restart would load never exceeds what restore_sessions
\* accepts: whatever failed before, the service can always be opened again.
RestartAlwaysPossible ==
  Cardinality({s \in Sessions : disk[s] # NoSession}) <= MaxSessions

\* The copy in memory is the one a restart would load: same sessions, state,
\* last sequence and events, whichever commits failed before; a delivery that
\* is stored is in memory too, with the same verdict and the same mark.
MemoryMirrorsStore ==
  \A s \in Sessions :
    IF disk[s] = NoSession
    THEN memory[s] = NoSession
    ELSE /\ memory[s] # NoSession
         /\ [memory[s] EXCEPT !.deliveries = {}]
              = [disk[s] EXCEPT !.deliveries = {}]
         /\ \A delivery \in disk[s].deliveries :
              \E d \in memory[s].deliveries : [d EXCEPT !.text = NoText] = delivery

\* The journal a client pages through has no hole and no repeated sequence:
\* it is exactly the newest events, up to the capacity (push_session_event).
JournalContiguous ==
  \A s \in Sessions : memory[s] # NoSession =>
    LET record == memory[s]
        oldest == IF record.latest > MaxEvents
                  THEN record.latest - MaxEvents + 1 ELSE 1
    IN  /\ {e.sequence : e \in record.events} = oldest .. record.latest
        /\ Cardinality(record.events) = record.latest - oldest + 1

\* A stored delivery is resolved in the journal at most once, and is marked as
\* emitted exactly when its resolution is there (as long as the journal still
\* reaches back to the delivery): what record_resolution is conditional for.
OneResolutionPerDelivery ==
  \A s \in Sessions : disk[s] # NoSession =>
    \A delivery \in disk[s].deliveries :
      LET later == {e \in ResolutionsOf(disk[s], delivery.submission.message) :
                      e.sequence > delivery.sequence}
          reachable == \E e \in disk[s].events : e.sequence = delivery.sequence
      IN  /\ Cardinality(later) <= 1
          /\ later # {} => delivery.emitted
          /\ delivery.emitted /\ reachable => later # {}

\* In a table `rows', with `gone' the identities that retention has deleted,
\* the row of an identity has this verdict and this resolution (None for any).
Backed(rows, gone, round, message, verdict, resolution) ==
  \/ <<round, message>> \in gone
  \/ \E i \in RowsOf(rows, round, message) :
       /\ verdict # None => rows[i].verdict = verdict
       /\ resolution # None => rows[i].resolution = resolution

DeliveriesBacked(rows, gone, record) ==
  \A delivery \in record.deliveries :
    Backed(rows, gone, record.definition.round, delivery.submission.message,
           delivery.verdict, None)

EventBacked(rows, gone, round, e) ==
  /\ e.kind = "validation" =>
       Backed(rows, gone, round, e.message, e.verdict, None)
  /\ e.kind = "resolution" =>
       e.verdict # None /\ Backed(rows, gone, round, e.message, None, e.verdict)

RecordBacked(rows, gone, record) ==
  /\ DeliveriesBacked(rows, gone, record)
  /\ \A e \in record.events :
       EventBacked(rows, gone, record.definition.round, e)

AllBacked(rows, gone, records) ==
  \A s \in Sessions :
    records[s] # NoSession => RecordBacked(rows, gone, records[s])

\* What a session tells about an identity, in memory or stored, agrees with the
\* audit, which is written first: every delivery and every event has its row,
\* with the same verdict or resolution, whichever commits failed in between.
JournalBackedByAudit ==
  /\ AllBacked(audit, aux_dropped, memory)
  /\ AllBacked(audit, aux_dropped, disk)

\* The validations this process remembers (validate's `recorded') agree with
\* the audit too.
RecordedBacked ==
  \A i \in DOMAIN recorded :
    Backed(audit, aux_dropped, recorded[i].definition.round,
           recorded[i].submission.message, recorded[i].verdict, None)

\* UNIQUE(round_id, message_id) of audit_validations.
Unique(rows) ==
  \A i, j \in DOMAIN rows :
    rows[i].round = rows[j].round /\ rows[i].message = rows[j].message => i = j

\* Both copies of a session were started with the same definition.
SameDefinitions ==
  \A s \in Sessions : memory[s] # NoSession /\ disk[s] # NoSession
                     => memory[s].definition = disk[s].definition

\* These together with the types are inductive: this is the invariant the
\* proofs of JournalBackedByAudit and NoContradictoryResolutions rest on.
AuditInv ==
  /\ TypeOK
  /\ Unique(audit)
  /\ SameDefinitions
  /\ RecordedBacked
  /\ JournalBackedByAudit

\* Two journals, or two places of one, never hold different resolutions of one
\* (round, message): the first resolution is final across sessions, as long as
\* retention has not deleted its row (aux_dropped); after that the message may be
\* recorded and resolved anew.
NoContradictoryResolutions ==
  \A s, t \in Sessions :
    /\ disk[s] # NoSession /\ disk[t] # NoSession
    /\ disk[s].definition.round = disk[t].definition.round
    => \A e \in disk[s].events, f \in disk[t].events :
         /\ e.kind = "resolution" /\ f.kind = "resolution"
         /\ e.message = f.message
         /\ <<disk[s].definition.round, e.message>> \notin aux_dropped
         => e.verdict = f.verdict

\* The stored sessions as the journals a workflow is promised.
AsJournal(stored) ==
  IF stored = NoSession
  THEN [definition |-> None, state |-> "absent", latest |-> 0,
        entries |-> {}, awaiting |-> {}]
  ELSE [definition |-> stored.definition, state |-> stored.state,
        latest |-> stored.latest, entries |-> stored.events,
        awaiting |-> {d.submission.message :
                        d \in {d \in stored.deliveries : ~d.emitted}}]

StoredJournals == [s \in Sessions |-> AsJournal(disk[s])]

Journals == INSTANCE SessionJournal WITH journal <- StoredJournals

\* Every operation of the service, failed commits and restarts included, is one
\* step of those journals or leaves them alone: nothing is appended after the
\* end, no sequence is skipped or reused, no second resolution is emitted.
ImplementsJournals == Journals!Spec

(* What the documents say and the code does not do.                        *)

\* ADR 0009: a restart keeps the idempotence fingerprints.
FingerprintsSurviveRestart ==
  \A s \in Sessions : memory[s] # NoSession =>
    {[d EXCEPT !.text = NoText] : d \in memory[s].deliveries}
      = disk[s].deliveries

\* docs/product/performance.md: deduplication replays the same validation.
ReplayReturnsRecordedVerdict ==
  reply # NoReply =>
    \A delivery \in DeliveriesOf(memory[reply.session],
                                 reply.submission.message) :
      delivery.submission = reply.submission =>
        delivery.verdict = reply.verdict
=============================================================================
