--------------------------- MODULE TwitchEventSub ---------------------------
(***************************************************************************)
(* The Twitch connector of a listening source: the supervisor that renews  *)
(* and validates its token, one cycle at a time (run_twitch_supervisor,    *)
(* crates/semantic-engine-source-runtime), and the EventSub client that a  *)
(* cycle runs (eventsub.rs, crates/semantic-engine-twitch): connections,   *)
(* handovers, backoff, the window of notification identifiers and a queue  *)
(* that is never waited for.                                               *)
(*                                                                         *)
(* While a subscription stands Twitch sends messages of the chat, in any   *)
(* order and any of them any number of times.                              *)
(***************************************************************************)
EXTENDS Integers, Sequences

CONSTANTS
  MaxMessages,  \* bound of the model: the messages of the chat
  WindowSize,   \* MAX_NOTIFICATION_IDS
  QueueSize,    \* SOURCE_EVENT_BUFFER
  StateChange   \* an event of the queue that is no message

ASSUME TwitchEventSubAssumption ==
  /\ MaxMessages \in Nat /\ WindowSize \in Nat \ {0} /\ QueueSize \in Nat \ {0}
  /\ StateChange \notin Nat

Messages == 1 .. MaxMessages

VARIABLES
  supervisor,  \* "validating", "running", "closing" a cycle, "stopped", "failed"
  conn,        \* where the client is, one of ConnStates
  subscribed,  \* Twitch has a subscription for this connector
  window,      \* recent_notification_ids
  queue,       \* the events the pump has not taken yet
  shutdown     \* the source was told to stop

\* "greeting" is the welcome and the subscription; "answering" and "closing"
\* are the writing of a Pong and of a Close.
ConnStates ==
  {"off", "connecting", "greeting", "connected", "answering", "closing", "backoff"}

\* The awaits that neither see the shutdown nor have a time limit.
Deaf == conn \in {"connecting", "answering", "closing"}

connector == <<supervisor, conn, subscribed, window, queue, shutdown>>

ConnectorInit ==
  /\ supervisor = "validating" /\ conn = "off"
  /\ subscribed = FALSE /\ shutdown = FALSE
  /\ window = << >> /\ queue = << >>

-----------------------------------------------------------------------------
(* The queue.  A sender never waits: a full queue is an error.             *)

HasRoom == Len(queue) < QueueSize

\* emit_state, and where the connection goes if there is room.
Emits(next) ==
  /\ HasRoom
  /\ queue' = Append(queue, StateChange)
  /\ conn' = next

-----------------------------------------------------------------------------
(* The end of a cycle.                                                     *)

\* The head of the supervisor's loop.
NextCycle == IF shutdown THEN "stopped" ELSE "validating"

\* Only a running cycle is asked for its error; a 401 renews the token.
AfterError(error) ==
  IF supervisor = "closing" \/ error = "unauthorized" THEN NextCycle ELSE "failed"

\* What the client knows goes with it.
CycleEnds(next) ==
  /\ supervisor' = next
  /\ conn' = "off" /\ subscribed' = FALSE /\ window' = << >>
  /\ UNCHANGED shutdown

\* There is no room for a state: run returns Backpressure, and says nothing.
Overflows ==
  /\ ~HasRoom
  /\ CycleEnds(AfterError("backpressure"))
  /\ UNCHANGED queue

-----------------------------------------------------------------------------
(* The supervisor.                                                         *)

\* The token is renewed and validated; a new cycle starts with an empty window.
CycleBegins ==
  /\ supervisor = "validating"
  /\ \/ /\ Emits("connecting") /\ supervisor' = "running"
        /\ UNCHANGED <<subscribed, window, shutdown>>
     \/ /\ ~HasRoom /\ supervisor' = "failed"
        /\ UNCHANGED <<conn, subscribed, window, queue, shutdown>>

ValidationFails ==
  /\ supervisor = "validating"
  /\ supervisor' = "failed"
  /\ UNCHANGED <<conn, subscribed, window, queue, shutdown>>

\* TOKEN_VALIDATION_INTERVAL has passed, the token is about to expire, or the
\* source was told to stop: the cycle is told to end.
CycleClosed ==
  /\ supervisor = "running"
  /\ supervisor' = "closing"
  /\ UNCHANGED <<conn, subscribed, window, queue, shutdown>>

-----------------------------------------------------------------------------
(* The client.                                                             *)

\* Mutant: a cycle that waits does not look at its shutdown.
ShutsDownConnected == supervisor = "closing" /\ conn \in {"connected", "closing"}

\* In backoff, after its Close, or handed over and at the head of its loop.
ShutsDown ==
  supervisor = "closing" /\ conn \in {"connected", "closing", "backoff"}

ClientShutdown ==
  /\ ShutsDown
  /\ queue' = IF HasRoom THEN Append(queue, StateChange) ELSE queue
  /\ CycleEnds(NextCycle)

\* Where the connection goes without a word.
Goes(from, to) ==
  /\ conn = from /\ conn' = to
  /\ UNCHANGED <<supervisor, subscribed, window, queue, shutdown>>

\* A connected client that sees its shutdown says so to Twitch.
Closes == supervisor = "closing" /\ Goes("connected", "closing")

\* A Ping is answered.
Answers == Goes("connected", "answering")

Answered == Goes("answering", "connected")

\* connect_async returns.
Opens == Goes("connecting", "greeting")

\* The welcome came, and the subscription unless it was handed over.
Connects ==
  /\ conn = "greeting"
  /\ \/ Emits("connected") /\ subscribed' = TRUE
        /\ UNCHANGED <<supervisor, window, shutdown>>
     \/ Overflows

\* Lost, closed, silent for longer than its keepalive, or never reached.
ConnectionLost ==
  /\ conn \in {"connecting", "greeting", "connected", "answering"}
  /\ \/ Emits("backoff") /\ subscribed' = FALSE
        /\ UNCHANGED <<supervisor, window, shutdown>>
     \/ Overflows

\* subscribe: asked for after the welcome, unless it was handed over.
Subscribes == conn = "greeting" /\ ~subscribed

\* An answer that is invalid, an error of the API, a revocation.  Only a request
\* can find the token expired.
ClientFails(error) ==
  /\ conn \in {"greeting", "connected"}
  /\ error = "unauthorized" => Subscribes
  /\ \/ /\ HasRoom /\ queue' = Append(queue, StateChange)
        /\ CycleEnds(AfterError(error))
     \/ Overflows

BackoffEnds ==
  /\ conn = "backoff" /\ supervisor = "running"
  /\ \/ Emits("connecting")
        /\ UNCHANGED <<supervisor, subscribed, window, shutdown>>
     \/ Overflows

\* session_reconnect: the old socket goes, the subscription moves to the new.
Reconnects ==
  /\ conn = "connected" /\ supervisor = "running"
  /\ \/ Emits("connecting")
        /\ UNCHANGED <<supervisor, subscribed, window, shutdown>>
     \/ Overflows

WindowWith(m) ==
  LET longer == Append(window, m)
  IN  IF Len(longer) > WindowSize THEN Tail(longer) ELSE longer

Repeats(m) == \E i \in DOMAIN window : window[i] = m

\* A notification that was received lately changes nothing.
Receives(m) ==
  /\ conn = "connected" /\ ~Repeats(m)
  /\ \/ /\ HasRoom /\ queue' = Append(queue, m)
        /\ window' = WindowWith(m)
        /\ UNCHANGED <<supervisor, conn, subscribed, shutdown>>
     \/ Overflows

-----------------------------------------------------------------------------
(* The operator.                                                          *)

StopSource ==
  /\ ~shutdown /\ shutdown' = TRUE
  /\ UNCHANGED <<supervisor, conn, subscribed, window, queue>>

ConnectorEnded == supervisor \in {"stopped", "failed"}

ConnectorNext ==
  \/ CycleBegins \/ ValidationFails \/ CycleClosed
  \/ ClientShutdown \/ Closes \/ Answers \/ Answered
  \/ Opens \/ Connects \/ ConnectionLost
  \/ \E error \in {"unauthorized", "refused"} : ClientFails(error)
  \/ BackoffEnds \/ Reconnects
  \/ \E m \in Messages : Receives(m)
  \/ StopSource

\* The requests to Twitch and the welcome have a time limit, and a client that
\* is connected, again and again, or in backoff sees its shutdown.  Nothing
\* brings a client out of an await that has no limit.
ConnectorFairness ==
  /\ WF_connector(CycleBegins \/ ValidationFails)
  /\ WF_connector(conn = "greeting" /\ (Connects \/ ConnectionLost))
  /\ WF_connector(shutdown /\ CycleClosed)
  /\ SF_connector(Closes)
  /\ WF_connector(conn = "backoff" /\ ClientShutdown)
=============================================================================
