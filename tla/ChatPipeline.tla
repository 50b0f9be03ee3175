---------------------------- MODULE ChatPipeline ----------------------------
(***************************************************************************)
(* From the chat to the client: the Twitch connector, the pump that takes  *)
(* its queue to the session (pump_source_events) and the event stream of   *)
(* the loopback server.  SessionService models what a submission does; of  *)
(* it the pipeline needs that a message the session has is refused when it *)
(* comes again, and that any submission may fail.                          *)
(***************************************************************************)
EXTENDS TwitchEventSub, EventStream

CONSTANTS
  MaxRecorded,  \* max_recorded_validations
  MaxJournal    \* bound of the model: messages the session takes

ASSUME ChatPipelineAssumption == MaxRecorded \in Nat \ {0} /\ MaxJournal \in Nat

vars == <<connector, stream>>

Init == ConnectorInit /\ StreamInit

\* Mutant: the session takes what it already has.
KnowsNothing(m) == FALSE

\* The deliveries the session remembers are the latest.
Knows(m) ==
  \E i \in DOMAIN journal : journal[i] = m /\ i > Len(journal) - MaxRecorded

\* All of the connector but its queue, and of the stream but the journal.
RestOfConnector == UNCHANGED <<supervisor, conn, subscribed, window, shutdown>>
RestOfStream == UNCHANGED <<exists, serving, streams, client, received, announced>>

\* A change of state, a message the session knows under another position, or
\* one that the service refuses.
PumpDrops ==
  /\ queue # << >>
  /\ queue' = Tail(queue)
  /\ RestOfConnector /\ UNCHANGED stream

PumpSubmits ==
  /\ queue # << >> /\ Head(queue) # StateChange /\ ~Knows(Head(queue)) /\ exists
  /\ Len(journal) < MaxJournal
  /\ queue' = Tail(queue)
  /\ journal' = Append(journal, Head(queue))
  /\ RestOfConnector /\ RestOfStream

Next ==
  \/ ConnectorNext /\ UNCHANGED stream
  \/ StreamNext /\ UNCHANGED connector
  \/ PumpDrops \/ PumpSubmits

\* The pump is a task of its own: it takes what is in the queue.
Fairness ==
  /\ ConnectorFairness /\ StreamFairness
  /\ WF_vars(PumpDrops \/ PumpSubmits)

Spec == Init /\ [][Next]_vars /\ Fairness

-----------------------------------------------------------------------------
TypeOK ==
  /\ supervisor \in {"validating", "running", "closing", "stopped", "failed"}
  /\ conn \in ConnStates
  /\ conn = "off" <=> supervisor \notin {"running", "closing"}
  /\ subscribed \in BOOLEAN /\ shutdown \in BOOLEAN
  /\ window \in Seq(Messages) /\ Len(window) <= WindowSize
  /\ queue \in Seq(Messages \cup {StateChange}) /\ Len(queue) <= QueueSize
  /\ journal \in Seq(Messages) /\ received \in Seq(Nat)
  /\ client \in Open \cup {NoStream}
  /\ Cardinality(Open) <= MaxStreams

\* The client sees each event of the session at most once and in order, and
\* the session takes a message again only when it had to forget its delivery,
\* although Twitch repeats notifications, cycles forget their window and
\* connections break while a page is on its way
\* (decode, submit, stream_events; docs/integration/loopback-api.md:125).
SeenOnceInOrder ==
  /\ \A i, j \in DOMAIN journal : i < j /\ journal[i] = journal[j] => j - i > MaxRecorded
  /\ \A i \in 1 .. Len(received) - 1 : received[i] < received[i + 1]

\* Whatever the client did not get it was told it cannot have, also when the
\* session moved on between two pages or while it was away (session_events).
GapsAreAnnounced ==
  \A k \in 1 .. LastReceived :
    k \in announced \/ \E i \in DOMAIN received : received[i] = k

\* Again and again a client that is connected has the session caught up, its
\* events received or announced as gone, unless it stops for good taking what
\* it is sent (stream_events).
ClientCatchesUp ==
  \/ []<>(client = NoStream \/ LastReceived = Latest)
  \/ <>[](client # NoStream /\ Stalls(client))

\* What is told to stop stops: a source, when what it had queued is submitted
\* or refused, and each stream of a server.  Only an await without a time limit
\* that never ends can keep them: Twitch not answering a connection attempt or
\* not reading a Pong or a Close, a client not reading what its stream sends
\* (run_twitch_supervisor, run, pump_source_events, stream_events).
StopsComplete ==
  /\ <>[](shutdown => (ConnectorEnded /\ queue = << >>) \/ Deaf)
  /\ <>[](~serving => \A s \in Open : Stalls(s))
=============================================================================
