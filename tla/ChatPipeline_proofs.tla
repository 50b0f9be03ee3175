------------------------ MODULE ChatPipeline_proofs ------------------------
(***************************************************************************)
(* What the pipeline promises its client, for a chat, a queue, a journal   *)
(* and a number of streams of any size.  The argument: the cursor of the   *)
(* stream the client reads is the last event the client has, and a page on *)
(* its way follows that event but for the gap it announces; so a page      *)
(* taken, in whatever state the session is by then, closes on what the     *)
(* client has.  Connections that broke do not matter, because the client   *)
(* opens the next one at the last event it has.                            *)
(***************************************************************************)
EXTENDS ChatPipeline, FiniteSetTheorems, TLAPS

Pages == [first : Nat \ {0}, last : Nat, gap : SUBSET Nat]

StreamStates ==
  {Closed} \cup [phase : {"polling", "answering"}, after : Nat]
           \cup [phase : {"sending"}, page : Pages]
           \cup [phase : {"refusing"}]

\* A page that continues what the client has.
Follows(page) ==
  /\ LastReceived < page.first /\ page.first <= page.last
  /\ \A k \in Nat : LastReceived < k /\ k < page.first => k \in page.gap

\* Where the stream of the client is.
ReaderInv ==
  client # NoStream =>
    /\ streams[client].phase \in {"polling", "answering"} =>
         streams[client].after = LastReceived
    /\ streams[client].phase = "sending" => Follows(streams[client].page)

\* The type invariant, by component.
ConnectorType ==
  /\ supervisor \in {"validating", "running", "closing", "stopped", "failed"}
  /\ conn \in ConnStates
  /\ conn = "off" <=> supervisor \notin {"running", "closing"}
  /\ subscribed \in BOOLEAN /\ shutdown \in BOOLEAN
  /\ window \in Seq(Messages) /\ Len(window) <= WindowSize
  /\ queue \in Seq(Messages \cup {StateChange}) /\ Len(queue) <= QueueSize

StreamType ==
  /\ journal \in Seq(Messages) /\ received \in Seq(Nat)
  /\ streams \in [Streams -> StreamStates]
  /\ client \in Open \cup {NoStream}
  /\ Cardinality(Open) <= MaxStreams

StreamInv == StreamType /\ ReaderInv /\ SeenOnceInOrder /\ GapsAreAnnounced

-----------------------------------------------------------------------------
(* The connector.                                                          *)

LEMMA QueueGrows ==
  ASSUME ConnectorType, HasRoom, NEW e \in Messages \cup {StateChange}
  PROVE  /\ Append(queue, e) \in Seq(Messages \cup {StateChange})
         /\ Len(Append(queue, e)) <= QueueSize
BY TwitchEventSubAssumption DEF ConnectorType, HasRoom

LEMMA WindowType ==
  ASSUME ConnectorType, NEW m \in Messages
  PROVE  WindowWith(m) \in Seq(Messages) /\ Len(WindowWith(m)) <= WindowSize
<1> DEFINE longer == Append(window, m)
<1>1. longer \in Seq(Messages) /\ Len(longer) <= WindowSize + 1
  BY TwitchEventSubAssumption DEF ConnectorType
<1>2. longer # << >> => Tail(longer) \in Seq(Messages) /\ Len(Tail(longer)) = Len(longer) - 1
  BY <1>1
<1>3. longer # << >>
  BY DEF ConnectorType
<1> QED BY <1>1, <1>2, <1>3, TwitchEventSubAssumption DEF WindowWith

LEMMA CycleEndsType ==
  ASSUME ConnectorType, NEW next \in {"validating", "stopped", "failed"}, CycleEnds(next),
         queue' \in Seq(Messages \cup {StateChange}), Len(queue') <= QueueSize
  PROVE  ConnectorType'
<1>1. << >> \in Seq(Messages) /\ Len(<< >>) <= WindowSize
  BY TwitchEventSubAssumption
<1> QED BY <1>1 DEF ConnectorType, CycleEnds, ConnStates

LEMMA AfterErrorType ==
  ASSUME NEW error
  PROVE  /\ AfterError(error) \in {"validating", "stopped", "failed"}
         /\ NextCycle \in {"validating", "stopped", "failed"}
BY DEF AfterError, NextCycle

LEMMA EmitsType ==
  ASSUME ConnectorType, NEW next, Emits(next)
  PROVE  /\ queue' \in Seq(Messages \cup {StateChange}) /\ Len(queue') <= QueueSize
         /\ conn' = next
BY QueueGrows DEF Emits

LEMMA OverflowsType ==
  ASSUME ConnectorType, Overflows
  PROVE  ConnectorType'
<1>1. queue' = queue /\ CycleEnds(AfterError("backpressure"))
  BY DEF Overflows
<1>2. queue' \in Seq(Messages \cup {StateChange}) /\ Len(queue') <= QueueSize
  BY <1>1 DEF ConnectorType
<1> QED BY <1>1, <1>2, CycleEndsType, AfterErrorType

LEMMA ConnectorStep ==
  ASSUME ConnectorType, ConnectorNext
  PROVE  ConnectorType'
<1>1. CASE CycleBegins
  <2>2. CASE /\ Emits("connecting") /\ supervisor' = "running"
             /\ UNCHANGED <<subscribed, window, shutdown>>
    BY <2>2, EmitsType DEF ConnectorType, ConnStates
  <2>3. CASE supervisor' = "failed" /\ UNCHANGED <<conn, subscribed, window, queue, shutdown>>
    BY <1>1, <2>3 DEF ConnectorType, CycleBegins
  <2> QED BY <1>1, <2>2, <2>3 DEF CycleBegins
<1>2. CASE ValidationFails
  BY <1>2 DEF ConnectorType, ValidationFails
<1>3. CASE CycleClosed
  BY <1>3 DEF ConnectorType, CycleClosed
<1>4. CASE ClientShutdown
  <2>1. queue' \in Seq(Messages \cup {StateChange}) /\ Len(queue') <= QueueSize
    BY <1>4, QueueGrows DEF ClientShutdown, ConnectorType
  <2> QED BY <1>4, <2>1, CycleEndsType, AfterErrorType DEF ClientShutdown
<1>5. CASE Connects
  <2>1. CASE Emits("connected") /\ subscribed' = TRUE /\ UNCHANGED <<supervisor, window, shutdown>>
    BY <1>5, <2>1, EmitsType DEF ConnectorType, Connects, ConnStates
  <2> QED BY <1>5, <2>1, OverflowsType DEF Connects
<1>6. CASE ConnectionLost
  <2>1. CASE Emits("backoff") /\ subscribed' = FALSE /\ UNCHANGED <<supervisor, window, shutdown>>
    <3>1. supervisor \in {"running", "closing"}
      BY <1>6 DEF ConnectorType, ConnectionLost
    <3>2. /\ queue' \in Seq(Messages \cup {StateChange}) /\ Len(queue') <= QueueSize
          /\ conn' = "backoff"
      BY <2>1, EmitsType
    <3> QED BY <2>1, <3>1, <3>2 DEF ConnectorType, ConnStates
  <2> QED BY <1>6, <2>1, OverflowsType DEF ConnectionLost
<1>7. CASE \E error \in {"unauthorized", "refused"} : ClientFails(error)
  <2>1. PICK error \in {"unauthorized", "refused"} : ClientFails(error)
    BY <1>7
  <2>2. CASE HasRoom /\ queue' = Append(queue, StateChange) /\ CycleEnds(AfterError(error))
    <3>1. queue' \in Seq(Messages \cup {StateChange}) /\ Len(queue') <= QueueSize
      BY <2>2, QueueGrows
    <3> QED BY <2>2, <3>1, CycleEndsType, AfterErrorType
  <2> QED BY <2>1, <2>2, OverflowsType DEF ClientFails
<1>8. CASE BackoffEnds
  <2>1. CASE Emits("connecting") /\ UNCHANGED <<supervisor, subscribed, window, shutdown>>
    BY <1>8, <2>1, EmitsType DEF ConnectorType, BackoffEnds, ConnStates
  <2> QED BY <1>8, <2>1, OverflowsType DEF BackoffEnds
<1>9. CASE Reconnects
  <2>1. CASE Emits("connecting") /\ UNCHANGED <<supervisor, subscribed, window, shutdown>>
    BY <1>9, <2>1, EmitsType DEF ConnectorType, Reconnects, ConnStates
  <2> QED BY <1>9, <2>1, OverflowsType DEF Reconnects
<1>10. CASE \E m \in Messages : Receives(m)
  <2>1. PICK m \in Messages : Receives(m)
    BY <1>10
  <2>2. CASE /\ HasRoom /\ queue' = Append(queue, m) /\ window' = WindowWith(m)
             /\ UNCHANGED <<supervisor, conn, subscribed, shutdown>>
    BY <2>2, WindowType, QueueGrows DEF ConnectorType
  <2> QED BY <2>1, <2>2, OverflowsType DEF Receives
<1>11. CASE StopSource
  BY <1>11 DEF ConnectorType, StopSource
<1>12. CASE Closes \/ Answers \/ Answered \/ Opens
  BY <1>12 DEF ConnectorType, ConnStates, Closes, Answers, Answered, Opens, Goes
<1> QED
  BY <1>1, <1>2, <1>3, <1>4, <1>5, <1>6, <1>7, <1>8, <1>9, <1>10, <1>11, <1>12
  DEF ConnectorNext

LEMMA PumpStep ==
  ASSUME ConnectorType, queue # << >>, queue' = Tail(queue), RestOfConnector
  PROVE  ConnectorType'
<1>1. queue' \in Seq(Messages \cup {StateChange}) /\ Len(queue') <= QueueSize
  BY TwitchEventSubAssumption DEF ConnectorType
<1> QED BY <1>1 DEF ConnectorType, RestOfConnector

-----------------------------------------------------------------------------
(* What a stream is, and what its page holds.                              *)

LEMMA StreamCases ==
  ASSUME StreamType, NEW s \in Streams
  PROVE  /\ streams[s].phase \in {"polling", "answering"} =>
              /\ streams[s] \in [phase : {"polling", "answering"}, after : Nat]
              /\ streams[s] # Closed
         /\ streams[s].phase = "sending" =>
              streams[s].page \in Pages /\ streams[s] # Closed
BY DEF StreamType, StreamStates, Closed

LEMMA ReaderOpen ==
  ASSUME StreamType, client # NoStream
  PROVE  client \in Streams /\ streams[client] # Closed
BY DEF StreamType, Open

LEMMA LastReceivedType ==
  ASSUME StreamType
  PROVE  LastReceived \in Nat
<1>1. CASE received = << >>
  BY <1>1 DEF LastReceived
<1>2. CASE received # << >>
  <2>1. received \in Seq(Nat) /\ Len(received) \in 1 .. Len(received)
    BY <1>2 DEF StreamType
  <2> QED BY <1>2, <2>1 DEF LastReceived
<1> QED BY <1>1, <1>2

LEMMA PageType ==
  ASSUME StreamType, NEW after \in Nat
  PROVE  /\ Page(after) \in [first : Nat \ {0}, last : Int, gap : SUBSET Nat]
         /\ after < Page(after).first
         /\ \A k \in Nat : after < k /\ k < Page(after).first => k \in Page(after).gap
<1>1. Latest \in Nat \ {0} /\ Earliest \in Nat \ {0}
  BY EventStreamAssumption DEF StreamType, Latest, Earliest
<1> DEFINE first == IF after < Earliest THEN Earliest ELSE after + 1
           last == IF first + PageLimit - 1 < Latest THEN first + PageLimit - 1 ELSE Latest
           gap == IF Truncated(after) THEN after + 1 .. Earliest - 1 ELSE {}
<1>2. Page(after) = [first |-> first, last |-> last, gap |-> gap]
  BY DEF Page
<1>3. first \in Nat \ {0} /\ after < first
  BY <1>1
<1>4. last \in Int
  BY <1>1, <1>3, EventStreamAssumption
<1>5. gap \in SUBSET Nat
  BY <1>1
<1>6. \A k \in Nat : after < k /\ k < first => k \in gap
  BY <1>1 DEF Truncated
<1> HIDE DEF first, last, gap
<1> QED BY <1>2, <1>3, <1>4, <1>5, <1>6

\* A stream that opens takes a permit, one that moves keeps it.
LEMMA OpenMoves ==
  ASSUME StreamType, NEW s \in Streams, NEW state \in StreamStates, state # Closed,
         streams' = [streams EXCEPT ![s] = state]
  PROVE  /\ streams' \in [Streams -> StreamStates]
         /\ Open' = Open \cup {s}
         /\ streams[s] # Closed => Open' = Open
BY DEF StreamType, Open

LEMMA OpenEnds ==
  ASSUME StreamType, NEW s \in Streams, Ends(s)
  PROVE  StreamType'
<1>1. streams' \in [Streams -> StreamStates] /\ Open' = Open \ {s}
  BY DEF StreamType, Ends, StreamStates, Open
<1>2. IsFiniteSet(Open)
  BY EventStreamAssumption, FS_Subset DEF Open
<1>3. Cardinality(Open') <= Cardinality(Open) /\ Cardinality(Open) \in Nat /\ Cardinality(Open') \in Nat
  BY <1>1, <1>2, FS_Subset, FS_CardinalityType
<1>4. Cardinality(Open') <= MaxStreams
  BY <1>3, EventStreamAssumption DEF StreamType
<1>5. client' \in Open' \cup {NoStream}
  BY <1>1 DEF StreamType, Ends
<1> QED BY <1>1, <1>4, <1>5 DEF StreamType, Ends

\* The stream of another ends, or that of the client, who is then away.
LEMMA ReaderEnds ==
  ASSUME StreamType, ReaderInv, NEW s \in Streams, Ends(s)
  PROVE  ReaderInv'
<1> SUFFICES ASSUME client' # NoStream
             PROVE  /\ streams'[client].phase \in {"polling", "answering"} =>
                         streams'[client].after = LastReceived
                    /\ streams'[client].phase = "sending" => Follows(streams'[client].page)
                    /\ client' = client
  BY DEF ReaderInv, Ends, LastReceived, Follows
<1>1. client' = client /\ client # s /\ client # NoStream
  BY DEF Ends
<1>2. streams'[client] = streams[client]
  BY <1>1, ReaderOpen DEF Ends, StreamType
<1> QED BY <1>1, <1>2 DEF ReaderInv

-----------------------------------------------------------------------------
(* The client takes a page that follows what it has.                       *)

\* The index of an element of a concatenation.
LEMMA ConcatElements ==
  ASSUME NEW old \in Seq(Nat), NEW run \in Seq(Nat)
  PROVE  /\ old \o run \in Seq(Nat) /\ Len(old \o run) = Len(old) + Len(run)
         /\ \A i \in 1 .. Len(old) : (old \o run)[i] = old[i]
         /\ \A i \in 1 .. Len(run) : (old \o run)[Len(old) + i] = run[i]
<1> DEFINE new == old \o run
<1>1. new \in Seq(Nat) /\ Len(new) = Len(old) + Len(run)
  OBVIOUS
<1>2. \A i \in 1 .. Len(old) : new[i] = old[i]
  OBVIOUS
<1>3. ASSUME NEW i \in 1 .. Len(run)
      PROVE  new[Len(old) + i] = run[i]
  <2>1. PICK k \in Nat : k = Len(old) + i
    OBVIOUS
  <2>2. k \in 1 .. Len(old) + Len(run) /\ ~(k <= Len(old)) /\ k - Len(old) = i
    BY <2>1
  <2>3. new[k] = run[k - Len(old)]
    BY <2>2
  <2> QED BY <2>1, <2>2, <2>3
<1> QED BY <1>1, <1>2, <1>3

Increasing(s) == \A i \in 1 .. Len(s) - 1 : s[i] < s[i + 1]

\* The numbers from first to last.
IsRun(s, first, last) ==
  /\ s \in Seq(Nat) /\ Len(s) = last - first + 1
  /\ \A i \in 1 .. Len(s) : s[i] = first + i - 1

\* A sequence that continues the old one with the numbers from first to last.
Continues(new, old, first, last) ==
  /\ new \in Seq(Nat) /\ new # << >> /\ new[Len(new)] = last
  /\ Increasing(new)
  /\ \A i \in DOMAIN old : i \in DOMAIN new /\ new[i] = old[i]
  /\ \A k \in first .. last : \E i \in DOMAIN new : new[i] = k

LEMMA RunAppended ==
  ASSUME NEW old \in Seq(Nat), NEW run, NEW first \in Nat \ {0}, NEW last \in Nat,
         first <= last, IsRun(run, first, last), Increasing(old),
         old # << >> => old[Len(old)] < first
  PROVE  Continues(old \o run, old, first, last)
<1> USE DEF IsRun, Increasing
<1> DEFINE new == old \o run
<1>1. PICK n \in Nat : n = last - first + 1
  <2>1. last - first + 1 \in Nat
    OBVIOUS
  <2> QED BY <2>1
<1>2. run \in Seq(Nat) /\ Len(run) = n /\ \A i \in 1 .. n : run[i] = first + i - 1
  BY <1>1
<1>3. PICK l \in Nat : l = Len(old)
  OBVIOUS
<1>4. /\ new \in Seq(Nat) /\ Len(new) = l + n
      /\ \A i \in 1 .. l : new[i] = old[i]
      /\ \A i \in 1 .. n : new[l + i] = run[i]
  <2>1. /\ new \in Seq(Nat) /\ Len(new) = Len(old) + Len(run)
        /\ \A i \in 1 .. Len(old) : new[i] = old[i]
        /\ \A i \in 1 .. Len(run) : new[Len(old) + i] = run[i]
    BY <1>2, ConcatElements
  <2> QED BY <1>2, <1>3, <2>1
<1> HIDE DEF new
<1>5. \A i \in 1 .. n : new[l + i] = first + i - 1
  BY <1>2, <1>4
<1>6. n > 0 /\ new # << >>
  <2>1. n > 0
    BY <1>1
  <2>2. Len(new) # 0
    BY <1>3, <1>4, <2>1
  <2> QED BY <2>1, <2>2
<1>7. new[Len(new)] = last
  <2>1. n \in 1 .. n /\ first + n - 1 = last
    BY <1>1
  <2> QED BY <1>4, <1>5, <2>1
<1>8. ASSUME NEW i \in 1 .. Len(new) - 1
       PROVE  new[i] < new[i + 1]
  <2>0. i \in Nat /\ 1 <= i /\ i < l + n
    BY <1>4
  <2>1. CASE i < l
    <3>1. i \in 1 .. l /\ i + 1 \in 1 .. l /\ i \in 1 .. Len(old) - 1
      BY <1>3, <2>0, <2>1
    <3>2. old[i] < old[i + 1]
      BY <3>1
    <3> QED BY <1>4, <3>1, <3>2
  <2>2. CASE i = l
    <3>1. old # << >> /\ i \in 1 .. l /\ 1 \in 1 .. n
      BY <1>3, <1>6, <2>0, <2>2
    <3>2. new[i] < first
      BY <1>3, <1>4, <2>2, <3>1
    <3>3. new[l + 1] = first + 1 - 1
      BY <1>5, <3>1
    <3>4. first + 1 - 1 = first /\ i + 1 = l + 1
      BY <1>3, <2>2
    <3> QED BY <3>2, <3>3, <3>4
  <2>3. CASE i > l
    <3>1. PICK d \in 1 .. n : i = l + d /\ d + 1 \in 1 .. n
      <4>1. /\ i - l \in 1 .. n /\ i = l + (i - l)
            /\ (i - l) + 1 \in 1 .. n
        BY <2>0, <2>3
      <4> QED BY <4>1
    <3>2. i + 1 = l + (d + 1)
      BY <3>1
    <3>3. new[i] = first + d - 1 /\ new[i + 1] = first + (d + 1) - 1
      BY <1>5, <3>1, <3>2
    <3>4. first + d - 1 < first + (d + 1) - 1
      BY <3>1
    <3> QED BY <3>3, <3>4
  <2> QED BY <1>3, <2>0, <2>1, <2>2, <2>3
<1>9. ASSUME NEW i \in DOMAIN old
       PROVE  i \in DOMAIN new /\ new[i] = old[i]
  <2>1. i \in 1 .. l /\ i \in 1 .. l + n
    BY <1>3
  <2> QED BY <1>4, <2>1
<1>10. ASSUME NEW k \in first .. last
       PROVE  \E i \in DOMAIN new : new[i] = k
  <2>1. PICK d \in 1 .. n : k = first + d - 1
    <3>1. k - first + 1 \in 1 .. n /\ k = first + (k - first + 1) - 1
      BY <1>1
    <3> QED BY <3>1
  <2>2. new[l + d] = k
    BY <1>5, <2>1
  <2>3. l + d \in DOMAIN new
    BY <1>4
  <2> QED BY <2>2, <2>3
<1> QED BY <1>4, <1>6, <1>7, <1>8, <1>9, <1>10 DEF new, Continues

LEMMA PageTaken ==
  ASSUME StreamType, SeenOnceInOrder, GapsAreAnnounced,
         NEW page \in Pages, Follows(page), journal' = journal,
         received' = received \o [i \in 1 .. page.last - page.first + 1 |->
                                    page.first + i - 1],
         announced' = announced \cup page.gap
  PROVE  /\ received' \in Seq(Nat) /\ LastReceived' = page.last
         /\ SeenOnceInOrder' /\ GapsAreAnnounced'
<1>1. /\ page.first \in Nat \ {0} /\ page.last \in Nat /\ page.first <= page.last
      /\ LastReceived < page.first /\ LastReceived \in Nat /\ received \in Seq(Nat)
  BY LastReceivedType DEF Pages, Follows, StreamType
<1>2. /\ Increasing(received)
      /\ received # << >> => received[Len(received)] < page.first
  BY <1>1 DEF SeenOnceInOrder, LastReceived, Increasing
<1>3. Continues(received', received, page.first, page.last)
  <2>1. PICK n \in Nat : n = page.last - page.first + 1
    <3>1. page.last - page.first + 1 \in Nat
      BY <1>1
    <3> QED BY <3>1
  <2> DEFINE run == [i \in 1 .. n |-> page.first + i - 1]
  <2>2. received' = received \o run
    BY <2>1
  <2>3. run \in Seq(Nat) /\ Len(run) = n /\ \A i \in 1 .. n : run[i] = page.first + i - 1
    <3>1. \A i \in 1 .. n : page.first + i - 1 \in Nat
      BY <1>1
    <3> QED BY <2>1, <3>1
  <2> HIDE DEF run
  <2>4. IsRun(run, page.first, page.last)
    BY <2>1, <2>3 DEF IsRun
  <2> QED BY <1>1, <1>2, <2>2, <2>4, RunAppended
<1>4. LastReceived' = page.last
  BY <1>3 DEF LastReceived, Continues
<1>5. SeenOnceInOrder'
  BY <1>3 DEF SeenOnceInOrder, Continues, Increasing
<1>6. ASSUME NEW k \in 1 .. page.last
      PROVE  k \in announced' \/ \E i \in DOMAIN received' : received'[i] = k
  <2>1. k \in Nat /\ 1 <= k /\ k <= page.last
    BY <1>1
  <2>2. CASE k <= LastReceived
    <3>1. k \in announced \/ \E i \in DOMAIN received : received[i] = k
      BY <1>1, <2>1, <2>2 DEF GapsAreAnnounced
    <3> QED BY <1>3, <3>1 DEF Continues
  <2>3. CASE LastReceived < k /\ k < page.first
    BY <2>1, <2>3 DEF Follows
  <2>4. CASE page.first <= k
    <3>1. k \in page.first .. page.last
      BY <1>1, <2>1, <2>4
    <3> QED BY <1>3, <3>1 DEF Continues
  <2>5. k <= LastReceived \/ (LastReceived < k /\ k < page.first) \/ page.first <= k
    BY <1>1, <2>1
  <2> QED BY <2>2, <2>3, <2>4, <2>5
<1>7. GapsAreAnnounced'
  BY <1>4, <1>6 DEF GapsAreAnnounced
<1> QED BY <1>3, <1>4, <1>5, <1>7 DEF Continues

-----------------------------------------------------------------------------
(* The stream.                                                             *)

LEMMA ConnectStep ==
  ASSUME StreamInv, NEW s \in Streams, Connect(s)
  PROVE  StreamInv'
<1> USE DEF StreamInv
<1>1. LastReceived \in Nat /\ LastReceived' = LastReceived
  BY LastReceivedType DEF Connect, LastReceived
<1>2. Polling(LastReceived) \in StreamStates /\ Polling(LastReceived) # Closed
  BY <1>1 DEF Polling, StreamStates, Closed
<1>3. streams' \in [Streams -> StreamStates] /\ Open' = Open \cup {s} /\ s \notin Open
  BY <1>2, OpenMoves DEF Connect, Open
<1>4. IsFiniteSet(Open)
  BY EventStreamAssumption, FS_Subset DEF Open
<1>5. Cardinality(Open') = Cardinality(Open) + 1 /\ Cardinality(Open) \in Nat
  BY <1>3, <1>4, FS_AddElement, FS_CardinalityType
<1>6. Cardinality(Open') <= MaxStreams
  BY <1>5, EventStreamAssumption DEF Connect, HasPermit
<1>7. StreamType'
  BY <1>3, <1>6 DEF StreamType, Connect
<1>8. client' = s /\ streams'[s] = Polling(LastReceived)
  BY DEF Connect, StreamType
<1>9. ReaderInv'
  BY <1>1, <1>8 DEF ReaderInv, Polling
<1> QED BY <1>1, <1>7, <1>9 DEF Connect, SeenOnceInOrder, GapsAreAnnounced

LEMMA TickStep ==
  ASSUME StreamInv, NEW s \in Streams, Tick(s)
  PROVE  StreamInv'
<1> USE DEF StreamInv
<1> DEFINE page == Page(streams[s].after)
           sending == [phase |-> "sending", page |-> page]
<1>1. /\ streams[s].phase = "polling" /\ page.first <= page.last
      /\ streams' = [streams EXCEPT ![s] = sending]
      /\ UNCHANGED <<journal, exists, serving, client, received, announced>>
  BY DEF Tick
<1>2. streams[s].after \in Nat /\ streams[s] # Closed
  BY <1>1, StreamCases
<1>3. /\ page \in Pages /\ streams[s].after < page.first
      /\ \A k \in Nat : streams[s].after < k /\ k < page.first => k \in page.gap
  <2>1. /\ page \in [first : Nat \ {0}, last : Int, gap : SUBSET Nat]
        /\ streams[s].after < page.first
        /\ \A k \in Nat : streams[s].after < k /\ k < page.first => k \in page.gap
    BY <1>2, PageType
  <2> HIDE DEF page
  <2> QED BY <1>1, <2>1 DEF Pages
<1> HIDE DEF page
<1>4. sending \in StreamStates /\ sending # Closed
  BY <1>3 DEF StreamStates, Closed
<1> HIDE DEF sending
<1>5. streams' \in [Streams -> StreamStates] /\ Open' = Open
  BY <1>1, <1>2, <1>4, OpenMoves
<1>6. StreamType'
  BY <1>1, <1>5 DEF StreamType
<1>7. LastReceived' = LastReceived
  BY <1>1 DEF LastReceived
<1>8. ReaderInv'
  <2>1. CASE client = s /\ s # NoStream
    <3>1. streams[s].after = LastReceived
      BY <1>1, <2>1 DEF ReaderInv
    <3>2. streams'[s] = [phase |-> "sending", page |-> page]
      BY <1>1 DEF StreamType, sending
    <3>3. Follows(page)
      BY <1>1, <1>3, <3>1 DEF Follows
    <3> QED BY <1>1, <1>7, <2>1, <3>2, <3>3 DEF ReaderInv, Follows
  <2>2. CASE client # s /\ client # NoStream
    <3>1. streams'[client] = streams[client]
      BY <1>1, <2>2, ReaderOpen DEF StreamType
    <3> QED BY <1>1, <1>7, <2>2, <3>1 DEF ReaderInv, Follows
  <2>3. CASE client = NoStream
    BY <1>1, <2>3 DEF ReaderInv
  <2> QED BY <2>1, <2>2, <2>3
<1> QED BY <1>1, <1>6, <1>7, <1>8 DEF SeenOnceInOrder, GapsAreAnnounced

LEMMA SentStep ==
  ASSUME StreamInv, NEW s \in Streams, Sent(s)
  PROVE  StreamInv'
<1> USE DEF StreamInv
<1> DEFINE page == streams[s].page
<1>1. /\ streams[s].phase = "sending"
      /\ streams' = [streams EXCEPT ![s] = Polling(page.last)]
      /\ UNCHANGED <<journal, exists, serving, client>>
  BY DEF Sent, CursorAfter
<1>2. page \in Pages /\ streams[s] # Closed
  BY <1>1, StreamCases
<1>3. Polling(page.last) \in StreamStates /\ Polling(page.last) # Closed
  BY <1>2 DEF Polling, StreamStates, Closed, Pages
<1>4. streams' \in [Streams -> StreamStates] /\ Open' = Open
  BY <1>1, <1>2, <1>3, OpenMoves
<1>5. CASE client = s
  <2>1. s # NoStream /\ Follows(page)
    BY <1>1, <1>5, EventStreamAssumption DEF ReaderInv
  <2>2. /\ received' = received \o [i \in 1 .. page.last - page.first + 1 |->
                                      page.first + i - 1]
        /\ announced' = announced \cup page.gap
    BY <1>5 DEF Sent
  <2> HIDE DEF page
  <2>3. /\ received' \in Seq(Nat) /\ LastReceived' = page.last
        /\ SeenOnceInOrder' /\ GapsAreAnnounced'
    BY <1>1, <1>2, <2>1, <2>2, PageTaken
  <2>4. StreamType'
    BY <1>1, <1>4, <2>3 DEF StreamType
  <2>5. client' = s /\ streams'[s] = Polling(page.last)
    BY <1>1, <1>5 DEF StreamType
  <2>6. ReaderInv'
    BY <2>3, <2>5 DEF ReaderInv, Polling
  <2> QED BY <2>3, <2>4, <2>6
<1>6. CASE client # s
  <2>1. UNCHANGED <<received, announced>>
    BY <1>6 DEF Sent
  <2>2. LastReceived' = LastReceived
    BY <2>1 DEF LastReceived
  <2>3. StreamType'
    BY <1>1, <1>4, <2>1 DEF StreamType
  <2>4. ReaderInv'
    <3>1. CASE client # NoStream
      <4>1. streams'[client] = streams[client]
        BY <1>1, <1>6, <3>1, ReaderOpen DEF StreamType
      <4> QED BY <1>1, <2>2, <3>1, <4>1 DEF ReaderInv, Follows
    <3>2. CASE client = NoStream
      BY <1>1, <3>2 DEF ReaderInv
    <3> QED BY <3>1, <3>2
  <2> QED BY <1>1, <2>1, <2>2, <2>3, <2>4 DEF SeenOnceInOrder, GapsAreAnnounced
<1> QED BY <1>5, <1>6

LEMMA EndsStep ==
  ASSUME StreamInv, NEW s \in Streams, Ends(s)
  PROVE  StreamInv'
<1>1. journal' = journal /\ received' = received /\ announced' = announced
  BY DEF Ends
<1> QED
  BY <1>1, OpenEnds, ReaderEnds DEF StreamInv, SeenOnceInOrder, GapsAreAnnounced, LastReceived

\* Nothing of a stream, of the journal or of what the client has changes.
LEMMA StreamsKept ==
  ASSUME StreamInv, UNCHANGED <<journal, streams, received, announced>>,
         client' = client \/ client' = NoStream
  PROVE  StreamInv'
<1>1. LastReceived' = LastReceived /\ Open' = Open
  BY DEF LastReceived, Open
<1>2. StreamType'
  BY <1>1 DEF StreamInv, StreamType
<1>3. ReaderInv'
  BY <1>1 DEF StreamInv, ReaderInv, Follows
<1> QED BY <1>1, <1>2, <1>3 DEF StreamInv, SeenOnceInOrder, GapsAreAnnounced

\* A Ping is answered, or the error begins to be sent: the cursor of the stream,
\* if it keeps one, is what it was.
LEMMA QuietStep ==
  ASSUME StreamInv, NEW s \in Streams, TickFails(s) \/ Answering(s) \/ Answer(s)
  PROVE  StreamInv'
<1> USE DEF StreamInv
<1>1. PICK state \in StreamStates \ {Closed} :
             /\ streams' = [streams EXCEPT ![s] = state]
             /\ state.phase \in {"polling", "answering"} => state.after = streams[s].after
             /\ state.phase # "sending"
  <2>1. CASE TickFails(s)
    <3>1. [phase |-> "refusing"] \in StreamStates \ {Closed}
      BY DEF StreamStates, Closed
    <3> QED BY <2>1, <3>1 DEF TickFails
  <2>2. CASE Answering(s) \/ Answer(s)
    <3>1. streams[s] \in [phase : {"polling", "answering"}, after : Nat]
      BY <2>2, StreamCases DEF Answering, Answer
    <3>2. \A p \in {"polling", "answering"} :
            /\ [streams[s] EXCEPT !.phase = p] \in StreamStates \ {Closed}
            /\ [streams[s] EXCEPT !.phase = p].after = streams[s].after
            /\ [streams[s] EXCEPT !.phase = p].phase = p
      BY <3>1 DEF StreamStates, Closed
    <3>3. \E p \in {"polling", "answering"} : streams' = [streams EXCEPT ![s].phase = p]
      BY <2>2 DEF Answering, Answer
    <3>4. PICK p \in {"polling", "answering"} : streams' = [streams EXCEPT ![s].phase = p]
      BY <3>3
    <3>5. streams' = [streams EXCEPT ![s] = [streams[s] EXCEPT !.phase = p]]
      BY <3>4
    <3> QED BY <3>2, <3>4, <3>5
  <2> QED BY <2>1, <2>2
<1>2. /\ streams[s].phase \in {"polling", "answering"} /\ streams[s] # Closed
      /\ UNCHANGED <<journal, client, received, announced>>
  BY StreamCases DEF TickFails, Answering, Answer
<1>3. streams' \in [Streams -> StreamStates] /\ Open' = Open
  BY <1>1, <1>2, OpenMoves
<1>4. LastReceived' = LastReceived
  BY <1>2 DEF LastReceived
<1>5. StreamType'
  BY <1>2, <1>3 DEF StreamType
<1>6. ReaderInv'
  <2>1. CASE client = s /\ client # NoStream
    BY <1>1, <1>2, <1>4, <2>1 DEF ReaderInv, StreamType
  <2>2. CASE client # s /\ client # NoStream
    <3>1. streams'[client] = streams[client]
      BY <1>1, <2>2, ReaderOpen DEF StreamType
    <3> QED BY <1>2, <1>4, <2>2, <3>1 DEF ReaderInv, Follows
  <2>3. CASE client = NoStream
    BY <1>2, <2>3 DEF ReaderInv
  <2> QED BY <2>1, <2>2, <2>3
<1> QED BY <1>2, <1>4, <1>5, <1>6 DEF SeenOnceInOrder, GapsAreAnnounced

LEMMA StreamStep ==
  ASSUME StreamInv, StreamNext
  PROVE  StreamInv'
<1>1. ASSUME NEW s \in Streams,
             \/ Connect(s) \/ Tick(s) \/ TickFails(s) \/ Answering(s)
             \/ Sent(s) \/ Refused(s) \/ Answer(s) \/ SendFails(s) \/ Notices(s)
      PROVE  StreamInv'
  <2>1. Refused(s) \/ SendFails(s) \/ Notices(s) => Ends(s)
    BY DEF Refused, SendFails, Notices
  <2> QED BY <1>1, <2>1, ConnectStep, TickStep, QuietStep, SentStep, EndsStep
<1>2. CASE Disconnect \/ StopServer \/ SessionGone
  BY <1>2, StreamsKept DEF Disconnect, StopServer, SessionGone
<1> QED BY <1>1, <1>2 DEF StreamNext

-----------------------------------------------------------------------------
(* The pump gives the session a message.                                   *)

LEMMA SubmitStep ==
  ASSUME ConnectorType, StreamInv, PumpSubmits
  PROVE  StreamInv'
<1> USE DEF StreamInv
<1> DEFINE m == Head(queue)
           n == Len(journal)
<1>1. m \in Messages /\ ~Knows(m) /\ journal' = Append(journal, m)
      /\ UNCHANGED <<streams, client, received, announced>>
  BY DEF PumpSubmits, RestOfStream, ConnectorType
<1> HIDE DEF m
<1>2. journal \in Seq(Messages) /\ n \in Nat
  BY DEF StreamType
<1>3. /\ journal' \in Seq(Messages) /\ DOMAIN journal' = 1 .. n + 1
      /\ journal'[n + 1] = m /\ \A i \in 1 .. n : journal'[i] = journal[i]
  BY <1>1, <1>2
<1>4. LastReceived' = LastReceived /\ Open' = Open
  BY <1>1 DEF LastReceived, Open
<1>5. StreamType'
  BY <1>1, <1>3, <1>4 DEF StreamType
<1>6. ReaderInv'
  BY <1>1, <1>4 DEF ReaderInv, Follows
<1>7. ASSUME NEW i \in DOMAIN journal', NEW j \in DOMAIN journal',
             i < j, journal'[i] = journal'[j]
      PROVE  j - i > MaxRecorded
  <2>1. CASE j = n + 1
    <3>1. i \in 1 .. n /\ journal[i] = m
      BY <1>2, <1>3, <1>7, <2>1
    <3>2. ~(i > n - MaxRecorded)
      BY <1>1, <1>2, <3>1 DEF Knows
    <3> QED BY <1>2, <2>1, <3>1, <3>2, ChatPipelineAssumption
  <2>2. CASE j # n + 1
    <3>1. i \in 1 .. n /\ j \in 1 .. n
      BY <1>2, <1>3, <1>7, <2>2
    <3> QED BY <1>2, <1>3, <1>7, <3>1 DEF SeenOnceInOrder
  <2> QED BY <2>1, <2>2
<1>8. SeenOnceInOrder'
  BY <1>1, <1>7 DEF SeenOnceInOrder
<1> QED BY <1>1, <1>4, <1>5, <1>6, <1>8 DEF GapsAreAnnounced

-----------------------------------------------------------------------------
(* The pipeline.                                                           *)

LEMMA PipelineInit == Init => ConnectorType /\ StreamInv
<1> SUFFICES ASSUME Init PROVE ConnectorType /\ StreamInv
  OBVIOUS
<1>1. ConnectorType
  <2>1. << >> \in Seq(Messages) /\ << >> \in Seq(Messages \cup {StateChange}) /\ Len(<< >>) = 0
    OBVIOUS
  <2>2. /\ window \in Seq(Messages) /\ Len(window) <= WindowSize
        /\ queue \in Seq(Messages \cup {StateChange}) /\ Len(queue) <= QueueSize
    BY <2>1, TwitchEventSubAssumption DEF Init, ConnectorInit
  <2> QED BY <2>2 DEF Init, ConnectorInit, ConnectorType, ConnStates
<1>2. Open = {} /\ Cardinality(Open) = 0
  BY FS_EmptySet DEF Init, StreamInit, Open
<1>3. StreamType
  BY <1>2, EventStreamAssumption DEF Init, StreamInit, StreamType, StreamStates
<1>4. ReaderInv /\ SeenOnceInOrder /\ GapsAreAnnounced
  BY DEF Init, StreamInit, ReaderInv, SeenOnceInOrder, GapsAreAnnounced, LastReceived
<1> QED BY <1>1, <1>3, <1>4 DEF StreamInv

LEMMA PipelineStep ==
  ConnectorType /\ StreamInv /\ [Next]_vars => ConnectorType' /\ StreamInv'
<1> SUFFICES ASSUME ConnectorType, StreamInv, [Next]_vars
             PROVE  ConnectorType' /\ StreamInv'
  OBVIOUS
<1>1. ASSUME UNCHANGED stream
      PROVE  StreamInv'
  BY <1>1, StreamsKept DEF stream
<1>2. ASSUME UNCHANGED connector
      PROVE  ConnectorType'
  BY <1>2 DEF connector, ConnectorType
<1>3. CASE ConnectorNext /\ UNCHANGED stream
  BY <1>1, <1>3, ConnectorStep
<1>4. CASE StreamNext /\ UNCHANGED connector
  BY <1>2, <1>4, StreamStep
<1>5. CASE PumpDrops
  BY <1>1, <1>5, PumpStep DEF PumpDrops
<1>6. CASE PumpSubmits
  <2>1. ConnectorType'
    BY <1>6, PumpStep DEF PumpSubmits
  <2> QED BY <1>6, <2>1, SubmitStep
<1>7. CASE UNCHANGED vars
  BY <1>1, <1>2, <1>7 DEF vars
<1> QED BY <1>3, <1>4, <1>5, <1>6, <1>7 DEF Next

\* The state of the connector and of the streams is well-formed, the queue and
\* the window never exceed their limits and no more streams are open than the
\* server has permits (emit, events_websocket).
THEOREM PipelineTypeCorrect == Spec => []TypeOK
<1>1. ConnectorType /\ StreamInv => TypeOK
  BY DEF ConnectorType, StreamInv, StreamType, TypeOK
<1> QED BY <1>1, PipelineInit, PipelineStep, PTL DEF Spec

\* The client gets each event once and in order, and a message is in the session
\* a second time only when more than max_recorded_validations came in between
\* (decode, submit, stream_events).
THEOREM PipelineSeenOnce == Spec => []SeenOnceInOrder
<1>1. ConnectorType /\ StreamInv => SeenOnceInOrder
  BY DEF StreamInv
<1> QED BY <1>1, PipelineInit, PipelineStep, PTL DEF Spec

\* Nothing is missing from what the client has unless it was told so, however
\* many events the journal dropped between two pages or two connections
\* (session_events).
THEOREM PipelineGapsAnnounced == Spec => []GapsAreAnnounced
<1>1. ConnectorType /\ StreamInv => GapsAreAnnounced
  BY DEF StreamInv
<1> QED BY <1>1, PipelineInit, PipelineStep, PTL DEF Spec
=============================================================================
