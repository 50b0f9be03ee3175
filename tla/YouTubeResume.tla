---------------------------- MODULE YouTubeResume ----------------------------
(***************************************************************************)
(* How a YouTube source reads a live chat without losing its place         *)
(* (crates/semantic-engine-youtube: run, queue_checkpoint; pump_source_    *)
(* events of crates/semantic-engine-source-runtime).  The provider hands   *)
(* out batches and a page token; the connector queues the messages of a    *)
(* batch and then its checkpoint; the pump submits the messages to a       *)
(* session and saves the checkpoint, unless one of them was refused.       *)
(*                                                                         *)
(* The chat is the sequence of its messages 1, 2, ..; a page token is the  *)
(* number of the last message before it, Fresh the empty token with which  *)
(* a connector only looks for its place.  Connections that are lost and    *)
(* tried again at the same token, state events, and messages that are not  *)
(* submittable texts are left out, and so is the window of recent message  *)
(* identifiers: a batch holds only messages after its token.  One source   *)
(* feeds the session.                                                      *)
(***************************************************************************)
EXTENDS Integers, Sequences

CONSTANTS
  MaxPosted,    \* bound of the model on the messages of the chat
  QueueSize,    \* SOURCE_EVENT_BUFFER
  Fresh,        \* the empty page token, baseline not complete
  NoCursor,     \* no resume state
  NotDelivered, \* a message without a position
  MayRefuse,    \* whether the service may refuse a submission
  MayResume     \* whether a process may start the source more than once

ASSUME YouTubeResumeAssumption ==
  /\ MaxPosted \in Nat
  /\ QueueSize \in Nat \ {0}
  /\ Fresh # NoCursor
  /\ {Fresh, NoCursor, NotDelivered} \cap Nat = {}
  /\ MayRefuse \in BOOLEAN /\ MayResume \in BOOLEAN

VARIABLES
  posted,     \* how many messages the chat has
  saved,      \* the row of source_checkpoints
  known,      \* YouTubeLiveChatClient.resume of this source and chat
  connector,  \* its state, and its own copy of the resume state
  queue,      \* the channel between connector and pump
  pump,       \* "off", "safe" or "unsafe": running, and checkpoint_safe
  delivered,  \* the position of each message in the session
  aux_skipped, \* messages passed over by a connector that found its place
  aux_refused  \* messages the service has refused

aux_vars == <<aux_skipped, aux_refused>>
vars == <<posted, saved, known, connector, queue, pump, delivered, aux_vars>>

Chat == 1 .. MaxPosted
Cursors == 0 .. MaxPosted
Token == Cursors \cup {Fresh}

Message(n) == [kind |-> "message", message |-> n]

\* `baseline': the token was taken from a batch that was passed over.
Checkpoint(token, baseline) ==
  [kind |-> "checkpoint", token |-> token, baseline |-> baseline]

TypeOK ==
  /\ posted \in 0 .. MaxPosted
  /\ saved \in Token \cup {NoCursor}
  /\ known \in Token \cup {NoCursor}
  /\ connector \in Token \cup {NoCursor}
  /\ queue \in Seq({Message(n) : n \in Chat}
                     \cup {Checkpoint(t, b) : t \in Token, b \in BOOLEAN})
  /\ Len(queue) <= QueueSize
  /\ pump \in {"off", "safe", "unsafe"}
  /\ delivered \in [Chat -> Nat \cup {NotDelivered}]
  /\ aux_skipped \subseteq Chat
  /\ aux_refused \subseteq Chat

Delivered(n) == delivered[n] # NotDelivered

Init ==
  /\ posted = 0
  /\ saved = NoCursor
  /\ known = NoCursor
  /\ connector = NoCursor
  /\ queue = << >>
  /\ pump = "off"
  /\ delivered = [n \in Chat |-> NotDelivered]
  /\ aux_skipped = {}
  /\ aux_refused = {}

\* The provider: viewers write, up to the bound of the model.
Post ==
  /\ posted < MaxPosted
  /\ posted' = posted + 1
  /\ UNCHANGED <<saved, known, connector, queue, pump, delivered, aux_vars>>

-----------------------------------------------------------------------------
\* The entry of the client's map if there is one, else the stored checkpoint,
\* else a connector that has to find its place.
Resumed == IF known # NoCursor THEN known
           ELSE IF saved # NoCursor THEN saved ELSE Fresh

\* start_youtube_source and the beginning of run.
Start ==
  /\ connector = NoCursor /\ pump = "off"
  /\ MayResume \/ known = NoCursor
  /\ connector' = Resumed
  /\ known' = Resumed
  /\ queue' = << >>
  /\ pump' = "safe"
  /\ UNCHANGED <<posted, saved, delivered, aux_vars>>

\* The connector returns: an error, the end of the live, a pause.  The pump
\* goes on until the queue is empty.
ConnectorReturns ==
  /\ connector # NoCursor
  /\ connector' = NoCursor
  /\ UNCHANGED <<posted, saved, known, queue, pump, delivered, aux_vars>>

\* Mutant: the capacity of the channel without what is in it.
FreeAlways == QueueSize

\* How many events try_send still takes.
Free == IF pump = "off" THEN 0 ELSE QueueSize - Len(queue)

Batch(items, checkpoint) == Append(items, checkpoint)

\* try_send of each item, then queue_checkpoint, which remembers the state as
\* soon as it is queued.  A queue that is full, or that the pump has closed,
\* ends the connector with Backpressure; what is queued stays.
Queue(items, checkpoint) ==
  IF Len(items) < Free
  THEN /\ queue' = queue \o Batch(items, checkpoint)
       /\ connector' = checkpoint.token
       /\ known' = checkpoint.token
  ELSE /\ queue' = queue \o SubSeq(items, 1, Free)
       /\ connector' = NoCursor
       /\ UNCHANGED known

\* A batch of the messages after the token, up to message k.
ReadBatch(k) ==
  /\ connector \in Cursors
  /\ connector < k /\ k <= posted
  /\ Queue([j \in 1 .. k - connector |-> Message(connector + j)],
           Checkpoint(k, FALSE))
  /\ UNCHANGED <<posted, saved, pump, delivered, aux_vars>>

\* The first batch without a token is the recent history: it gives the present
\* place and is passed over.
ReadBaseline ==
  /\ connector = Fresh
  /\ Queue(<< >>, Checkpoint(posted, TRUE))
  /\ UNCHANGED <<posted, saved, pump, delivered, aux_vars>>

\* The provider rejects the token: the place is lost, which is reported.
TokenRejected ==
  /\ connector \in Cursors
  /\ Queue(<< >>, Checkpoint(Fresh, FALSE))
  /\ UNCHANGED <<posted, saved, pump, delivered, aux_vars>>

-----------------------------------------------------------------------------
\* Mutant: the position given last is given again.
NextPositionReused ==
  LET taken == {delivered[n] : n \in {n \in Chat : Delivered(n)}}
  IN  IF taken = {} THEN 0 ELSE CHOOSE p \in taken : \A q \in taken : q <= p

NextPosition ==
  LET taken == {delivered[n] : n \in {n \in Chat : Delivered(n)}}
  IN  IF taken = {} THEN 0 ELSE 1 + CHOOSE p \in taken : \A q \in taken : q <= p

\* Mutant: a refused message does not count.
RefusedIgnored == pump

Refused == "unsafe"

(***************************************************************************)
(* pump_source_events, a message.  The fingerprint of a request covers its *)
(* position, and the next position is one no message has: a message that   *)
(* is read again is no repetition for the session but an IdentityConflict. *)
(***************************************************************************)
PumpMessage(n) ==
  /\ pump # "off" /\ queue # << >> /\ Head(queue) = Message(n)
  /\ queue' = Tail(queue)
  /\ \/ /\ ~Delivered(n)
        /\ delivered' = [delivered EXCEPT ![n] = NextPosition]
        /\ UNCHANGED <<pump, aux_refused>>
     \/ /\ MayRefuse \/ Delivered(n)
        /\ pump' = Refused
        /\ aux_refused' = aux_refused \cup {n}
        /\ UNCHANGED delivered
  /\ UNCHANGED <<posted, saved, known, connector, aux_skipped>>

PassedOver(checkpoint) ==
  IF checkpoint.baseline THEN {n \in 1 .. checkpoint.token : ~Delivered(n)}
  ELSE {}

\* A checkpoint is saved; when a message before it was refused, or the store
\* fails, the pump ends and drops the queue instead.
PumpCheckpoint ==
  /\ pump # "off" /\ queue # << >> /\ Head(queue).kind = "checkpoint"
  /\ \/ /\ pump = "safe"
        /\ saved' = Head(queue).token
        /\ aux_skipped' = aux_skipped \cup PassedOver(Head(queue))
        /\ queue' = Tail(queue)
        /\ UNCHANGED pump
     \/ /\ pump' = "off"
        /\ queue' = << >>
        /\ UNCHANGED <<saved, aux_vars>>
  /\ UNCHANGED <<posted, known, connector, delivered, aux_refused>>

\* The connector has returned and the queue is empty.
PumpEnds ==
  /\ pump # "off" /\ connector = NoCursor /\ queue = << >>
  /\ pump' = "off"
  /\ UNCHANGED <<posted, saved, known, connector, queue, delivered, aux_vars>>

\* The process stops, at any point; the stores are what they were.
Restart ==
  /\ known' = NoCursor
  /\ connector' = NoCursor
  /\ queue' = << >>
  /\ pump' = "off"
  /\ UNCHANGED <<posted, saved, delivered, aux_vars>>

Next ==
  \/ Post
  \/ Start
  \/ ConnectorReturns
  \/ \E k \in Cursors : ReadBatch(k)
  \/ ReadBaseline
  \/ TokenRejected
  \/ \E n \in Chat : PumpMessage(n)
  \/ PumpCheckpoint
  \/ PumpEnds
  \/ Restart

Spec == Init /\ [][Next]_vars

-----------------------------------------------------------------------------
\* Messages up to a token are in the session, or were passed over on purpose.
Covered(token) ==
  token \in Cursors => \A n \in 1 .. token : Delivered(n) \/ n \in aux_skipped

\* The checkpoint in the store never covers a message that the session does not
\* have: a connector that resumes from it misses nothing.
CheckpointCovers == saved # NoCursor => Covered(saved)

\* A pump that has refused nothing will have delivered, when it reaches a
\* checkpoint of the queue, every message that checkpoint covers: they are in
\* the session, ahead of the checkpoint in the queue, or passed over by it or by
\* one ahead of it.
QueueCovers ==
  pump = "safe" =>
    \A i \in DOMAIN queue :
      queue[i].kind = "checkpoint" /\ queue[i].token # Fresh =>
      \A n \in 1 .. queue[i].token :
        \/ Delivered(n) \/ n \in aux_skipped
        \/ \E j \in 1 .. i - 1 : queue[j] = Message(n)
        \/ \E j \in 1 .. i : /\ queue[j].kind = "checkpoint" /\ queue[j].baseline
                             /\ n <= queue[j].token

\* The session has the messages in the order of the chat, through crashes and
\* messages read again; only one that the service refused once may come late.
ChatOrder ==
  \A m, n \in Chat :
    Delivered(m) /\ Delivered(n) /\ m < n /\ m \notin aux_refused =>
      delivered[m] < delivered[n]

\* A message that is read again, after a crash, an overflow or a restart of the
\* source, is recognised as already delivered and does not spoil the pump.
RedeliveryIsHarmless ==
  [][\A n \in Chat :
       PumpMessage(n) /\ Delivered(n) => pump' = pump]_vars
=============================================================================
