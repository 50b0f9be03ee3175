---------------------------- MODULE EventStream ----------------------------
(***************************************************************************)
(* The events of one session on the WebSockets of the loopback server      *)
(* (crates/semantic-engine-loopback: events_websocket, stream_events) and  *)
(* the pages of the service they are made of (session_events).             *)
(*                                                                         *)
(* A stream polls the session under the lock of the service, then sends    *)
(* what it got, waits for the client to take it and moves its cursor.  In  *)
(* between the session goes on.  One client follows the session; when its  *)
(* connection breaks it comes back with the last sequence it has.  Nothing *)
(* limits how long a send waits for a client that does not read.           *)
(***************************************************************************)
EXTENDS Integers, Sequences, FiniteSets

CONSTANTS
  Streams,     \* the connections of the server, numbered
  MaxStreams,  \* max_websocket_connections
  MaxEvents,   \* max_events_per_session
  PageLimit,   \* the limit the client asks for
  NoStream     \* the client is not connected

ASSUME EventStreamAssumption ==
  /\ Streams \subseteq Nat /\ IsFiniteSet(Streams) /\ NoStream \notin Streams
  /\ MaxStreams \in Nat /\ MaxEvents \in Nat \ {0} /\ PageLimit \in Nat \ {0}

VARIABLES
  journal,   \* the messages of the session, one event each
  exists,    \* the session exists
  serving,   \* the server has not been told to stop
  streams,   \* where each stream is
  client,    \* the stream the client reads, or NoStream
  received,  \* the sequences of the events the client has, as they came
  announced  \* the sequences of those it was told it cannot have

stream == <<journal, exists, serving, streams, client, received, announced>>

Closed == [phase |-> "closed"]

Polling(after) == [phase |-> "polling", after |-> after]

StreamInit ==
  /\ journal = << >> /\ exists = TRUE /\ serving = TRUE
  /\ streams = [s \in Streams |-> Closed] /\ client = NoStream
  /\ received = << >> /\ announced = {}

-----------------------------------------------------------------------------
(* session_events.  Event 1 is the start of the session.                   *)

Latest == Len(journal) + 1

Earliest == IF Latest > MaxEvents THEN Latest - MaxEvents + 1 ELSE 1

\* Mutant: the page that follows a gap of one event says nothing.
TruncatedLate(after) == after + 2 < Earliest

Truncated(after) == after + 1 < Earliest

\* The first events after the cursor that are still there.
Page(after) ==
  LET first == IF after < Earliest THEN Earliest ELSE after + 1
      last == IF first + PageLimit - 1 < Latest THEN first + PageLimit - 1 ELSE Latest
  IN  [first |-> first, last |-> last,
       gap |-> IF Truncated(after) THEN after + 1 .. Earliest - 1 ELSE {}]

-----------------------------------------------------------------------------
Open == {s \in Streams : streams[s] # Closed}

LastReceived == IF received = << >> THEN 0 ELSE received[Len(received)]

\* Mutant: the permit is not asked for.
HasPermitAlways == TRUE

HasPermit == Cardinality(Open) < MaxStreams

\* events_websocket, with the cursor of the client.  The numbers of the streams
\* mean nothing: the new one gets the first that is free.
Connect(s) ==
  /\ client = NoStream /\ streams[s] = Closed
  /\ \A t \in Streams : t < s => streams[t] # Closed
  /\ serving /\ HasPermit
  /\ streams' = [streams EXCEPT ![s] = Polling(LastReceived)]
  /\ client' = s
  /\ UNCHANGED <<journal, exists, serving, received, announced>>

\* The stream ends, and so does the connection of the client.
Ends(s) ==
  /\ streams' = [streams EXCEPT ![s] = Closed]
  /\ client' = IF client = s THEN NoStream ELSE client
  /\ UNCHANGED <<journal, exists, serving, received, announced>>

\* The interval ticks; an empty page is not sent.
Tick(s) ==
  /\ streams[s].phase = "polling" /\ exists
  /\ LET page == Page(streams[s].after)
     IN  /\ page.first <= page.last
         /\ streams' = [streams EXCEPT ![s] = [phase |-> "sending", page |-> page]]
  /\ UNCHANGED <<journal, exists, serving, client, received, announced>>

\* The session is missing: the error is sent, and the stream ends.
TickFails(s) ==
  /\ streams[s].phase = "polling" /\ ~exists
  /\ streams' = [streams EXCEPT ![s] = [phase |-> "refusing"]]
  /\ UNCHANGED <<journal, exists, serving, client, received, announced>>

Refused(s) == streams[s].phase = "refusing" /\ Ends(s)

\* A Ping of the client is answered.
Answering(s) ==
  /\ streams[s].phase = "polling" /\ client = s
  /\ streams' = [streams EXCEPT ![s].phase = "answering"]
  /\ UNCHANGED <<journal, exists, serving, client, received, announced>>

Answer(s) ==
  /\ streams[s].phase = "answering"
  /\ streams' = [streams EXCEPT ![s].phase = "polling"]
  /\ UNCHANGED <<journal, exists, serving, client, received, announced>>

\* Mutant: the cursor goes to the newest event, whatever the page held.
CursorAtLatest(page) == Latest

\* last_event_sequence
CursorAfter(page) == page.last

\* The client takes the page, unless it has left and nobody does.
Sent(s) ==
  /\ streams[s].phase = "sending"
  /\ LET page == streams[s].page
     IN  /\ streams' = [streams EXCEPT ![s] = Polling(CursorAfter(page))]
         /\ IF client = s
            THEN /\ received' = received \o [i \in 1 .. page.last - page.first + 1 |->
                                               page.first + i - 1]
                 /\ announced' = announced \cup page.gap
            ELSE UNCHANGED <<received, announced>>
  /\ UNCHANGED <<journal, exists, serving, client>>

\* The stream waits for its client to take what it sends.
Stalls(s) == streams[s].phase \in {"sending", "answering", "refusing"}

SendFails(s) == Stalls(s) /\ client # s /\ Ends(s)

Disconnect ==
  /\ client # NoStream /\ client' = NoStream
  /\ UNCHANGED <<journal, exists, serving, streams, received, announced>>

\* Between two pages the stream sees that its client has left or that the
\* server stops.
Notices(s) ==
  /\ streams[s].phase = "polling"
  /\ client # s \/ ~serving
  /\ Ends(s)

StopServer ==
  /\ serving /\ serving' = FALSE
  /\ UNCHANGED <<journal, exists, streams, client, received, announced>>

\* The session was ended and evicted, or the data purged.
SessionGone ==
  /\ exists /\ exists' = FALSE
  /\ UNCHANGED <<journal, serving, streams, client, received, announced>>

StreamNext ==
  \/ \E s \in Streams :
       \/ Connect(s) \/ Tick(s) \/ TickFails(s) \/ Answering(s)
       \/ Sent(s) \/ Refused(s) \/ Answer(s) \/ SendFails(s) \/ Notices(s)
  \/ Disconnect \/ StopServer \/ SessionGone

\* A stream that polls, again and again, does not only answer Pings: it sees its
\* interval, its client or the stop of the server.  That a client takes what it
\* is sent is up to the client.
StreamFairness ==
  \A s \in Streams : SF_stream(Tick(s) \/ TickFails(s) \/ Notices(s))
=============================================================================
