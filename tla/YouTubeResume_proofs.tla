------------------------ MODULE YouTubeResume_proofs ------------------------
(***************************************************************************)
(* A process that starts its source once loses no message and reads the    *)
(* chat in order, for a chat and a queue of any size, with refusals and    *)
(* crashes at any point.  The argument: every message of the queue comes   *)
(* after the checkpoint that is in force when the pump reaches it, and     *)
(* what lies between is delivered, ahead of it in the queue, or refused,   *)
(* after which this pump saves nothing more.  So a checkpoint that is      *)
(* saved covers what came before it, and a message that is delivered is    *)
(* later than all that the next process will read.                         *)
(*                                                                         *)
(* A process that starts its source again resumes from a state that was    *)
(* queued and never saved (MayResume): there CheckpointCovers is false.    *)
(***************************************************************************)
EXTENDS YouTubeResume, TLAPS

Events == {Message(n) : n \in Chat} \cup {Checkpoint(t, b) : t \in Token, b \in BOOLEAN}

IsMessage(q, i) == q[i].kind = "message"
IsCheckpoint(q, i) == q[i].kind = "checkpoint"

\* What a new process resumes from.
Stored == IF saved = NoCursor THEN Fresh ELSE saved

\* The token in force before position i of a queue: that of the last checkpoint
\* ahead of it, or the one that is stored.
InForce(q, stored, i, t) ==
  \/ /\ t = stored
     /\ \A j \in 1 .. i - 1 : IsMessage(q, j)
  \/ \E c \in 1 .. i - 1 :
       /\ IsCheckpoint(q, c) /\ q[c].token = t
       /\ \A j \in c + 1 .. i - 1 : IsMessage(q, j)

\* Messages after t and up to u: none of them is lost when the pump has come to
\* position i of the queue.
Gapless(i, t, u) ==
  \A y \in Chat : t < y /\ y <= u =>
    \/ Delivered(y)
    \/ \E j \in 1 .. i - 1 : queue[j] = Message(y)
    \/ pump = "unsafe" /\ y \in aux_refused

\* An element of the queue continues what is in force before it.
Continues(i, t) ==
  /\ IsMessage(queue, i) =>
       /\ t \in Cursors /\ t < queue[i].message
       /\ Gapless(i, t, queue[i].message - 1)
  /\ IsCheckpoint(queue, i) /\ queue[i].token \in Cursors /\ ~queue[i].baseline =>
       t \in Cursors /\ t <= queue[i].token /\ Gapless(i, t, queue[i].token)

QueueInv ==
  \A i \in 1 .. Len(queue) : \A t \in Token :
    InForce(queue, Stored, i, t) => Continues(i, t)

\* A baseline is later than all that was there when it was taken.
BaselineInv ==
  \A i \in 1 .. Len(queue) : IsCheckpoint(queue, i) /\ queue[i].baseline =>
    /\ queue[i].token \in Cursors
    /\ \A n \in Chat : Delivered(n) => n <= queue[i].token
    /\ \A j \in 1 .. i - 1 : IsMessage(queue, j) => queue[j].message <= queue[i].token

\* A connector whose pump is there reads on from the end of the queue.
ConnectorInv ==
  /\ pump = "off" => queue = << >>
  /\ connector # NoCursor /\ pump # "off" =>
       InForce(queue, Stored, Len(queue) + 1, connector)

\* The chat is ahead of what was read of it.
PostedInv ==
  /\ \A n \in Chat : Delivered(n) => n <= posted
  /\ \A i \in 1 .. Len(queue) : IsMessage(queue, i) => queue[i].message <= posted

\* What the next process will read again is not behind a message the session
\* has, unless it was refused.
StoredInv ==
  saved \in Cursors =>
    \A x, n \in Chat :
      saved < x /\ x < n /\ Delivered(n) /\ ~Delivered(x) => x \in aux_refused

\* The latest position is there: what NextPosition takes as given.
LatestKnown ==
  (\E n \in Chat : Delivered(n)) =>
    \E m \in Chat : Delivered(m) /\
      \A n \in Chat : Delivered(n) => delivered[n] <= delivered[m]

ResumeInv ==
  /\ TypeOK /\ LatestKnown
  /\ QueueInv /\ BaselineInv /\ ConnectorInv /\ PostedInv /\ StoredInv
  /\ CheckpointCovers /\ ChatOrder

-----------------------------------------------------------------------------
(* Queues.                                                                 *)

LEMMA Tokens ==
  /\ Cursors \subseteq Nat /\ Cursors \subseteq Token /\ Fresh \in Token
  /\ NoCursor \notin Token /\ Fresh \notin Cursors
<1>1. Cursors \subseteq Nat
  BY YouTubeResumeAssumption DEF Cursors
<1> QED BY <1>1, YouTubeResumeAssumption DEF Token

LEMMA EventKinds ==
  ASSUME NEW e \in Events
  PROVE  /\ e.kind \in {"message", "checkpoint"}
         /\ e.kind = "message" => /\ e.message \in Chat /\ e = Message(e.message)
                                  /\ \A n : e = Message(n) => n = e.message
         /\ e.kind = "checkpoint" => /\ e.token \in Token /\ e.baseline \in BOOLEAN
                                     /\ \A n : e # Message(n)
BY DEF Events, Message, Checkpoint

LEMMA Concatenated ==
  ASSUME NEW S, NEW s \in Seq(S), NEW t \in Seq(S)
  PROVE  /\ s \o t \in Seq(S)
         /\ Len(s \o t) = Len(s) + Len(t)
         /\ \A j \in 1 .. Len(s) : (s \o t)[j] = s[j]
         /\ \A j \in 1 .. Len(t) : (s \o t)[Len(s) + j] = t[j]
<1>1. /\ s \o t \in Seq(S)
      /\ Len(s \o t) = Len(s) + Len(t)
      /\ \A j \in 1 .. Len(s) : (s \o t)[j] = s[j]
  OBVIOUS
<1>2. ASSUME NEW j \in 1 .. Len(t)
      PROVE  (s \o t)[Len(s) + j] = t[j]
  <2>1. PICK i \in Nat : i = Len(s) + j
    OBVIOUS
  <2>2. i \in 1 .. Len(s) + Len(t) /\ ~(i <= Len(s)) /\ i - Len(s) = j
    BY <2>1
  <2>3. (s \o t)[i] = t[i - Len(s)]
    BY <2>2
  <2> QED BY <2>1, <2>2, <2>3
<1> QED BY <1>1, <1>2

LEMMA InForceUnique ==
  ASSUME NEW q \in Seq(Events), NEW stored, NEW i \in 1 .. Len(q) + 1, NEW t, NEW u,
         InForce(q, stored, i, t), InForce(q, stored, i, u)
  PROVE  t = u
<1>1. \A c, d \in 1 .. i - 1 :
        /\ IsCheckpoint(q, c) /\ \A j \in c + 1 .. i - 1 : IsMessage(q, j)
        /\ IsCheckpoint(q, d) /\ \A j \in d + 1 .. i - 1 : IsMessage(q, j)
        => c = d
  <2> SUFFICES ASSUME NEW c \in 1 .. i - 1, NEW d \in 1 .. i - 1, c < d,
                      IsCheckpoint(q, d), IsMessage(q, d)
               PROVE  FALSE
    OBVIOUS
  <2> QED BY DEF IsCheckpoint, IsMessage
<1>2. \A c \in 1 .. i - 1 : IsCheckpoint(q, c) => ~IsMessage(q, c)
  BY DEF IsCheckpoint, IsMessage
<1> QED BY <1>1, <1>2 DEF InForce

\* The pump takes the head of the queue, and saves its token if it has one.
LEMMA InForceTail ==
  ASSUME NEW q \in Seq(Events), q # << >>, NEW stored, NEW next,
         \/ IsMessage(q, 1) /\ next = stored
         \/ IsCheckpoint(q, 1) /\ next = q[1].token,
         NEW i \in 1 .. Len(q), NEW t
  PROVE  InForce(Tail(q), next, i, t) <=> InForce(q, stored, i + 1, t)
<1> DEFINE r == Tail(q)
<1>1. Len(q) \in Nat \ {0} /\ Len(r) = Len(q) - 1 /\ \A j \in 1 .. Len(q) - 1 : r[j] = q[j + 1]
  OBVIOUS
<1> HIDE DEF r
<1>2. \A j \in 1 .. i - 1 : /\ IsMessage(r, j) <=> IsMessage(q, j + 1)
                            /\ IsCheckpoint(r, j) <=> IsCheckpoint(q, j + 1)
                            /\ r[j].token = q[j + 1].token
  BY <1>1 DEF IsMessage, IsCheckpoint
<1>3. ASSUME InForce(r, next, i, t)
      PROVE  InForce(q, stored, i + 1, t)
  <2>1. CASE t = next /\ \A j \in 1 .. i - 1 : IsMessage(r, j)
    <3>1. \A j \in 2 .. i : IsMessage(q, j)
      <4>1. \A j \in 2 .. i : j - 1 \in 1 .. i - 1 /\ j = (j - 1) + 1
        OBVIOUS
      <4> QED BY <1>2, <2>1, <4>1
    <3>2. CASE IsMessage(q, 1) /\ next = stored
      <4>1. \A j \in 1 .. (i + 1) - 1 : j = 1 \/ j \in 2 .. i
        OBVIOUS
      <4>2. \A j \in 1 .. (i + 1) - 1 : IsMessage(q, j)
        BY <3>1, <3>2, <4>1
      <4> QED BY <2>1, <3>2, <4>2 DEF InForce
    <3>3. CASE IsCheckpoint(q, 1) /\ next = q[1].token
      <4>1. 1 \in 1 .. (i + 1) - 1 /\ \A j \in 1 + 1 .. (i + 1) - 1 : IsMessage(q, j)
        BY <3>1
      <4> QED BY <2>1, <3>3, <4>1 DEF InForce
    <3> QED BY <3>2, <3>3
  <2>2. CASE \E c \in 1 .. i - 1 : /\ IsCheckpoint(r, c) /\ r[c].token = t
                                   /\ \A j \in c + 1 .. i - 1 : IsMessage(r, j)
    <3>1. PICK c \in 1 .. i - 1 : /\ IsCheckpoint(r, c) /\ r[c].token = t
                                  /\ \A j \in c + 1 .. i - 1 : IsMessage(r, j)
      BY <2>2
    <3>2. c + 1 \in 1 .. (i + 1) - 1 /\ IsCheckpoint(q, c + 1) /\ q[c + 1].token = t
      BY <1>2, <3>1
    <3>3. \A j \in (c + 1) + 1 .. (i + 1) - 1 : IsMessage(q, j)
      <4>1. \A j \in (c + 1) + 1 .. (i + 1) - 1 :
              j - 1 \in c + 1 .. i - 1 /\ j - 1 \in 1 .. i - 1 /\ j = (j - 1) + 1
        OBVIOUS
      <4> QED BY <1>2, <3>1, <4>1
    <3> QED BY <3>2, <3>3 DEF InForce
  <2> QED BY <1>3, <2>1, <2>2 DEF InForce
<1>4. ASSUME InForce(q, stored, i + 1, t)
      PROVE  InForce(r, next, i, t)
  <2>1. \A j \in 1 .. i - 1 : j + 1 \in 1 .. (i + 1) - 1
    OBVIOUS
  <2>2. CASE t = stored /\ \A j \in 1 .. (i + 1) - 1 : IsMessage(q, j)
    <3>1. IsMessage(q, 1) /\ ~IsCheckpoint(q, 1)
      BY <2>2 DEF IsMessage, IsCheckpoint
    <3>2. \A j \in 1 .. i - 1 : IsMessage(r, j)
      BY <1>2, <2>1, <2>2
    <3> QED BY <2>2, <3>1, <3>2 DEF InForce
  <2>3. CASE \E c \in 1 .. (i + 1) - 1 : /\ IsCheckpoint(q, c) /\ q[c].token = t
                                         /\ \A j \in c + 1 .. (i + 1) - 1 : IsMessage(q, j)
    <3>1. PICK c \in 1 .. (i + 1) - 1 :
                 /\ IsCheckpoint(q, c) /\ q[c].token = t
                 /\ \A j \in c + 1 .. (i + 1) - 1 : IsMessage(q, j)
      BY <2>3
    <3>2. \A j \in 1 .. i - 1 : c < j + 1 => IsMessage(r, j)
      <4>1. \A j \in 1 .. i - 1 : c < j + 1 => j + 1 \in c + 1 .. (i + 1) - 1
        OBVIOUS
      <4> QED BY <1>2, <3>1, <4>1
    <3>3. CASE c = 1
      <4>1. t = next
        BY <3>1, <3>3 DEF IsMessage, IsCheckpoint
      <4>2. \A j \in 1 .. i - 1 : IsMessage(r, j)
        BY <3>2, <3>3
      <4> QED BY <4>1, <4>2 DEF InForce
    <3>4. CASE c # 1
      <4>1. c - 1 \in 1 .. i - 1 /\ c = (c - 1) + 1
        BY <3>4
      <4>2. IsCheckpoint(r, c - 1) /\ r[c - 1].token = t
        BY <1>2, <3>1, <4>1
      <4>3. \A j \in (c - 1) + 1 .. i - 1 : j \in 1 .. i - 1 /\ c < j + 1
        BY <3>4
      <4> QED BY <3>2, <4>1, <4>2, <4>3 DEF InForce
    <3> QED BY <3>3, <3>4
  <2> QED BY <1>4, <2>2, <2>3 DEF InForce
<1> QED BY <1>3, <1>4 DEF r

\* What a queue is extended with does not change what is in force before it.
LEMMA InForcePrefix ==
  ASSUME NEW q \in Seq(Events), NEW r \in Seq(Events), NEW stored, NEW t,
         NEW i \in 1 .. Len(q) + 1, Len(q) <= Len(r),
         \A j \in 1 .. Len(q) : r[j] = q[j]
  PROVE  InForce(r, stored, i, t) <=> InForce(q, stored, i, t)
<1>1. \A j \in 1 .. i - 1 : /\ IsMessage(r, j) <=> IsMessage(q, j)
                            /\ IsCheckpoint(r, j) <=> IsCheckpoint(q, j)
                            /\ r[j].token = q[j].token
  BY DEF IsMessage, IsCheckpoint
<1>2. \A c \in 1 .. i - 1 : \A j \in c + 1 .. i - 1 : j \in 1 .. i - 1
  OBVIOUS
<1> QED BY <1>1, <1>2 DEF InForce

\* Messages do not change it either.
LEMMA InForceMessages ==
  ASSUME NEW q \in Seq(Events), NEW stored, NEW t,
         NEW l \in Nat, NEW i \in Nat, l + 1 <= i,
         \A j \in l + 1 .. i - 1 : IsMessage(q, j),
         InForce(q, stored, i, t)
  PROVE  InForce(q, stored, l + 1, t)
<1>1. CASE t = stored /\ \A j \in 1 .. i - 1 : IsMessage(q, j)
  BY <1>1 DEF InForce
<1>2. CASE \E c \in 1 .. i - 1 : /\ IsCheckpoint(q, c) /\ q[c].token = t
                                 /\ \A j \in c + 1 .. i - 1 : IsMessage(q, j)
  <2>1. PICK c \in 1 .. i - 1 : /\ IsCheckpoint(q, c) /\ q[c].token = t
                                /\ \A j \in c + 1 .. i - 1 : IsMessage(q, j)
    BY <1>2
  <2>2. ~(c \in l + 1 .. i - 1)
    BY <2>1 DEF IsMessage, IsCheckpoint
  <2>3. c \in 1 .. (l + 1) - 1 /\ \A j \in c + 1 .. (l + 1) - 1 : j \in c + 1 .. i - 1
    BY <2>2
  <2> QED BY <2>1, <2>3 DEF InForce
<1> QED BY <1>1, <1>2 DEF InForce

-----------------------------------------------------------------------------
(* Steps that leave the session, or the queue, alone.                      *)

LEMMA QueueType ==
  ASSUME TypeOK
  PROVE  /\ queue \in Seq(Events) /\ Len(queue) \in Nat
         /\ \A i \in 1 .. Len(queue) : queue[i] \in Events
         /\ Stored \in Token
BY DEF TypeOK, Events, Stored, Token

LEMMA SessionSame ==
  ASSUME ResumeInv, UNCHANGED <<saved, delivered, aux_vars>>
  PROVE  LatestKnown' /\ StoredInv' /\ CheckpointCovers' /\ ChatOrder'
BY DEF ResumeInv, LatestKnown, StoredInv, CheckpointCovers, Covered, ChatOrder, Delivered, aux_vars

LEMMA QueueEmpty ==
  ASSUME ResumeInv, queue' = << >>, UNCHANGED <<posted, delivered>>
  PROVE  QueueInv' /\ BaselineInv' /\ PostedInv'
<1>1. \A i : i \notin 1 .. Len(queue')
  OBVIOUS
<1> QED BY <1>1 DEF ResumeInv, QueueInv, BaselineInv, PostedInv, Delivered

LEMMA PostStep ==
  ASSUME ResumeInv, Post
  PROVE  ResumeInv'
<1>1. /\ posted \in Nat /\ posted' = posted + 1 /\ posted' \in 0 .. MaxPosted
      /\ UNCHANGED <<saved, known, connector, queue, pump, delivered, aux_vars>>
  BY YouTubeResumeAssumption DEF Post, ResumeInv, TypeOK
<1>2. TypeOK'
  BY <1>1 DEF ResumeInv, TypeOK, aux_vars
<1>3. LatestKnown' /\ StoredInv' /\ CheckpointCovers' /\ ChatOrder'
  BY <1>1, SessionSame
<1>4. QueueInv' /\ BaselineInv' /\ ConnectorInv'
  BY <1>1 DEF ResumeInv, QueueInv, BaselineInv, ConnectorInv, Stored, InForce, Continues,
              Gapless, Delivered, IsMessage, IsCheckpoint, aux_vars
<1>5. PostedInv'
  <2>1. \A n \in Chat : n <= posted => n <= posted'
    BY <1>1 DEF Chat
  <2>2. \A i \in 1 .. Len(queue) : IsMessage(queue, i) => queue[i].message \in Chat
    BY QueueType, EventKinds DEF ResumeInv, IsMessage
  <2> QED BY <1>1, <2>1, <2>2 DEF ResumeInv, PostedInv, Delivered, IsMessage
<1> QED BY <1>2, <1>3, <1>4, <1>5 DEF ResumeInv

\* start_youtube_source in a process that has not started it yet: the store is
\* what it resumes from.
LEMMA StartStep ==
  ASSUME ResumeInv, ~MayResume, Start
  PROVE  ResumeInv'
<1>1. /\ connector' = Stored /\ known' = Stored /\ queue' = << >> /\ pump' = "safe"
      /\ UNCHANGED <<posted, saved, delivered, aux_vars>>
  BY DEF Start, Resumed, Stored
<1>2. TypeOK'
  <2>1. << >> \in Seq({Message(n) : n \in Chat}
                       \cup {Checkpoint(t, b) : t \in Token, b \in BOOLEAN})
        /\ Len(<< >>) <= QueueSize
    BY YouTubeResumeAssumption
  <2>2. Stored \in Token
    BY QueueType DEF ResumeInv
  <2> QED BY <1>1, <2>1, <2>2 DEF ResumeInv, TypeOK, aux_vars
<1>3. LatestKnown' /\ StoredInv' /\ CheckpointCovers' /\ ChatOrder'
  BY <1>1, SessionSame
<1>4. QueueInv' /\ BaselineInv' /\ PostedInv'
  BY <1>1, QueueEmpty
<1>5. ConnectorInv'
  <2>1. Stored' = Stored
    BY <1>1 DEF Stored
  <2>2. Len(queue') = 0
    BY <1>1
  <2> QED BY <1>1, <2>1, <2>2 DEF ConnectorInv, InForce
<1> QED BY <1>2, <1>3, <1>4, <1>5 DEF ResumeInv

LEMMA ConnectorReturnsStep ==
  ASSUME ResumeInv, ConnectorReturns
  PROVE  ResumeInv'
<1>1. /\ connector' = NoCursor
      /\ UNCHANGED <<posted, saved, known, queue, pump, delivered, aux_vars>>
  BY DEF ConnectorReturns
<1>2. TypeOK'
  BY <1>1 DEF ResumeInv, TypeOK, aux_vars
<1>3. LatestKnown' /\ StoredInv' /\ CheckpointCovers' /\ ChatOrder'
  BY <1>1, SessionSame
<1>4. QueueInv' /\ BaselineInv' /\ PostedInv'
  BY <1>1 DEF ResumeInv, QueueInv, BaselineInv, PostedInv, Stored, InForce, Continues,
              Gapless, Delivered, IsMessage, IsCheckpoint, aux_vars
<1>5. ConnectorInv'
  BY <1>1 DEF ResumeInv, ConnectorInv
<1> QED BY <1>2, <1>3, <1>4, <1>5 DEF ResumeInv

\* The pump ends, with or without the process.
LEMMA OffStep ==
  ASSUME ResumeInv, pump' = "off", queue' = << >>,
         connector' \in {connector, NoCursor}, known' \in {known, NoCursor},
         UNCHANGED <<posted, saved, delivered, aux_vars>>
  PROVE  ResumeInv'
<1>1. TypeOK'
  <2>1. << >> \in Seq({Message(n) : n \in Chat}
                       \cup {Checkpoint(t, b) : t \in Token, b \in BOOLEAN})
        /\ Len(<< >>) <= QueueSize
    BY YouTubeResumeAssumption
  <2> QED BY <2>1 DEF ResumeInv, TypeOK, aux_vars
<1>2. LatestKnown' /\ StoredInv' /\ CheckpointCovers' /\ ChatOrder'
  BY SessionSame
<1>3. QueueInv' /\ BaselineInv' /\ PostedInv'
  BY QueueEmpty
<1>4. ConnectorInv'
  BY DEF ConnectorInv
<1> QED BY <1>1, <1>2, <1>3, <1>4 DEF ResumeInv

-----------------------------------------------------------------------------
(* The connector extends the queue.                                        *)

\* What try_send has queued: all items and the checkpoint, or some of the items,
\* after which the connector has returned.
LEMMA Queued ==
  ASSUME TypeOK, ConnectorInv, NEW items \in Seq(Events), NEW checkpoint \in Events,
         Queue(items, checkpoint)
  PROVE  \E m \in Nat :
           /\ queue' \in Seq(Events)
           /\ Len(queue') = Len(queue) + m /\ Len(queue') <= QueueSize
           /\ pump = "off" => m = 0
           /\ \A j \in 1 .. Len(queue) : queue'[j] = queue[j]
           /\ \A j \in 1 .. m : j <= Len(items) => queue'[Len(queue) + j] = items[j]
           /\ \/ /\ m = Len(items) + 1 /\ queue'[Len(queue) + m] = checkpoint
                 /\ connector' = checkpoint.token /\ known' = checkpoint.token
                 /\ pump # "off"
              \/ m <= Len(items) /\ connector' = NoCursor /\ known' = known
<1>1. queue \in Seq(Events) /\ Len(queue) <= QueueSize /\ QueueSize \in Nat
  BY QueueType, YouTubeResumeAssumption DEF TypeOK
<1>2. Free \in Nat /\ Len(queue) + Free <= QueueSize
  BY <1>1 DEF Free, ConnectorInv
<1>3. CASE Len(items) < Free
  <2>1. /\ queue' = queue \o Append(items, checkpoint)
        /\ connector' = checkpoint.token /\ known' = checkpoint.token
    BY <1>3 DEF Queue, Batch
  <2> DEFINE batch == Append(items, checkpoint)
  <2>2. /\ batch \in Seq(Events) /\ Len(batch) = Len(items) + 1
        /\ batch[Len(items) + 1] = checkpoint
        /\ \A j \in 1 .. Len(items) : batch[j] = items[j]
    OBVIOUS
  <2> HIDE DEF batch
  <2>3. /\ queue \o batch \in Seq(Events)
        /\ Len(queue \o batch) = Len(queue) + Len(batch)
        /\ \A j \in 1 .. Len(queue) : (queue \o batch)[j] = queue[j]
        /\ \A j \in 1 .. Len(batch) : (queue \o batch)[Len(queue) + j] = batch[j]
    <3>1. queue \in Seq(Events) /\ batch \in Seq(Events)
      BY <1>1, <2>2
    <3> QED BY <3>1, Concatenated
  <2>5. queue' = queue \o batch
    BY <2>1 DEF batch
  <2>6. Len(items) + 1 \in Nat /\ Len(queue) + (Len(items) + 1) <= QueueSize
    BY <1>1, <1>2, <1>3
  <2>7. pump # "off"
    BY <1>3 DEF Free
  <2>8. /\ \A j \in 1 .. Len(items) + 1 : j <= Len(items) => queue'[Len(queue) + j] = items[j]
        /\ queue'[Len(queue) + (Len(items) + 1)] = checkpoint
    <3>1. \A j \in 1 .. Len(items) + 1 : j <= Len(items) => j \in 1 .. Len(items)
      OBVIOUS
    <3>2. Len(items) + 1 \in 1 .. Len(items) + 1
      OBVIOUS
    <3> QED BY <2>2, <2>3, <2>5, <3>1, <3>2
  <2>9. Len(queue') = Len(queue) + (Len(items) + 1)
    BY <2>2, <2>3, <2>5
  <2> QED BY <2>1, <2>3, <2>5, <2>6, <2>7, <2>8, <2>9
<1>4. CASE ~(Len(items) < Free)
  <2>1. queue' = queue \o SubSeq(items, 1, Free) /\ connector' = NoCursor /\ known' = known
    BY <1>4 DEF Queue
  <2> DEFINE some == SubSeq(items, 1, Free)
  <2>2. some \in Seq(Events) /\ Len(some) = Free /\ \A j \in 1 .. Free : some[j] = items[j]
    <3>1. PICK n \in Nat : n = Free
      BY <1>2
    <3>2. n <= Len(items)
      BY <1>4, <3>1
    <3>3. /\ SubSeq(items, 1, n) \in Seq(Events) /\ Len(SubSeq(items, 1, n)) = n
          /\ \A j \in 1 .. n : SubSeq(items, 1, n)[j] = items[j]
      BY <3>2
    <3> QED BY <3>1, <3>3
  <2> HIDE DEF some
  <2>3. some \in Seq(Events) /\ Len(some) \in Nat
    BY <1>2, <2>2
  <2>4. /\ queue \o some \in Seq(Events)
        /\ Len(queue \o some) = Len(queue) + Len(some)
        /\ \A j \in 1 .. Len(queue) : (queue \o some)[j] = queue[j]
        /\ \A j \in 1 .. Len(some) : (queue \o some)[Len(queue) + j] = some[j]
    BY <1>1, <2>3, Concatenated
  <2>5. queue' = queue \o some
    BY <2>1 DEF some
  <2>6. Free <= Len(items) /\ (pump = "off" => Free = 0)
    BY <1>2, <1>4 DEF Free
  <2> QED BY <1>2, <2>1, <2>2, <2>3, <2>4, <2>5, <2>6
<1> QED BY <1>3, <1>4

\* What the connector reads starts behind its token and is in the chat.
Reads(items, checkpoint) ==
  /\ items \in Seq(Events)
  /\ \A j \in 1 .. Len(items) :
       /\ connector \in Cursors /\ connector + j <= posted
       /\ items[j] = Message(connector + j)
  /\ checkpoint \in Events /\ checkpoint.kind = "checkpoint"
  /\ checkpoint.token \in Cursors /\ ~checkpoint.baseline =>
       connector \in Cursors /\ checkpoint.token = connector + Len(items)
  /\ checkpoint.baseline => items = << >> /\ checkpoint.token = posted

LEMMA ReadStep ==
  ASSUME ResumeInv, connector # NoCursor, NEW items, NEW checkpoint,
         Reads(items, checkpoint), Queue(items, checkpoint),
         UNCHANGED <<posted, saved, pump, delivered, aux_vars>>
  PROVE  ResumeInv'
<1>1. /\ queue \in Seq(Events) /\ Len(queue) \in Nat /\ Stored \in Token /\ Stored' = Stored
      /\ items \in Seq(Events) /\ Len(items) \in Nat /\ checkpoint \in Events
  BY QueueType DEF ResumeInv, Reads, Stored
<1>2. PICK m \in Nat :
        /\ queue' \in Seq(Events)
        /\ Len(queue') = Len(queue) + m /\ Len(queue') <= QueueSize
        /\ pump = "off" => m = 0
        /\ \A j \in 1 .. Len(queue) : queue'[j] = queue[j]
        /\ \A j \in 1 .. m : j <= Len(items) => queue'[Len(queue) + j] = items[j]
        /\ \/ /\ m = Len(items) + 1 /\ queue'[Len(queue) + m] = checkpoint
              /\ connector' = checkpoint.token /\ known' = checkpoint.token
              /\ pump # "off"
           \/ m <= Len(items) /\ connector' = NoCursor /\ known' = known
  BY <1>1, Queued DEF ResumeInv
<1>3. \A i \in 1 .. Len(queue') :
        i \in 1 .. Len(queue) \/ \E j \in 1 .. m : i = Len(queue) + j
  <2> SUFFICES ASSUME NEW i \in 1 .. Len(queue'), i \notin 1 .. Len(queue)
               PROVE  \E j \in 1 .. m : i = Len(queue) + j
    OBVIOUS
  <2>1. i - Len(queue) \in 1 .. m /\ i = Len(queue) + (i - Len(queue))
    BY <1>1, <1>2
  <2> QED BY <2>1
<1>4. \A j \in 1 .. m : j <= Len(items) \/ (j = Len(items) + 1 /\ j = m)
  BY <1>1, <1>2
<1>5. \A j \in 1 .. m : j <= Len(items) =>
        /\ connector \in Cursors /\ connector + j <= posted
        /\ queue'[Len(queue) + j] = Message(connector + j)
  BY <1>1, <1>2 DEF Reads
<1>6. \A j \in 1 .. m : j <= Len(items) => IsMessage(queue', Len(queue) + j)
  <2> SUFFICES ASSUME NEW j \in 1 .. m, j <= Len(items)
               PROVE  IsMessage(queue', Len(queue) + j)
    OBVIOUS
  <2>1. queue'[Len(queue) + j] = Message(connector + j)
    BY <1>5
  <2>2. Message(connector + j).kind = "message"
    BY DEF Message
  <2> QED BY <2>1, <2>2 DEF IsMessage
<1>7. \A j \in 1 .. m : j > Len(items) =>
        /\ j = m /\ m = Len(items) + 1 /\ queue'[Len(queue) + j] = checkpoint
        /\ IsCheckpoint(queue', Len(queue) + j) /\ ~IsMessage(queue', Len(queue) + j)
  <2> SUFFICES ASSUME NEW j \in 1 .. m, j > Len(items)
               PROVE  /\ j = m /\ m = Len(items) + 1
                      /\ queue'[Len(queue) + j] = checkpoint
                      /\ IsCheckpoint(queue', Len(queue) + j)
                      /\ ~IsMessage(queue', Len(queue) + j)
    OBVIOUS
  <2>1. j = m /\ m = Len(items) + 1
    BY <1>1, <1>2
  <2>2. queue'[Len(queue) + j] = checkpoint
    BY <1>1, <1>2, <2>1
  <2>3. checkpoint.kind = "checkpoint"
    BY <1>1 DEF Reads
  <2> QED BY <2>1, <2>2, <2>3 DEF IsCheckpoint, IsMessage
<1>8. TypeOK'
  <2>1. connector' \in Token \cup {NoCursor} /\ known' \in Token \cup {NoCursor}
    <3>1. checkpoint.token \in Token
      BY <1>1, EventKinds DEF Reads
    <3> QED BY <1>2, <3>1 DEF ResumeInv, TypeOK
  <2>2. queue' \in Seq({Message(n) : n \in Chat}
                         \cup {Checkpoint(t, b) : t \in Token, b \in BOOLEAN})
    BY <1>2 DEF Events
  <2> QED BY <1>2, <2>1, <2>2 DEF ResumeInv, TypeOK, aux_vars
<1>9. LatestKnown' /\ StoredInv' /\ CheckpointCovers' /\ ChatOrder'
  BY SessionSame
<1>10. \A i \in 1 .. Len(queue) + 1 : \A t :
         InForce(queue', Stored, i, t) <=> InForce(queue, Stored, i, t)
  BY <1>1, <1>2, InForcePrefix
<1>11. QueueInv'
  <2> SUFFICES ASSUME NEW i \in 1 .. Len(queue'), NEW t \in Token,
                      InForce(queue', Stored, i, t)
               PROVE  Continues(i, t)'
    BY <1>1 DEF QueueInv
  <2>1. CASE i \in 1 .. Len(queue)
    <3>1. Continues(i, t)
      BY <1>1, <1>10, <2>1 DEF ResumeInv, QueueInv
    <3>2. queue'[i] = queue[i] /\ \A j \in 1 .. i - 1 : queue'[j] = queue[j]
      BY <1>1, <1>2, <2>1
    <3> QED BY <3>1, <3>2 DEF Continues, Gapless, IsMessage, IsCheckpoint, Delivered, aux_vars
  <2>2. ASSUME NEW j \in 1 .. m, i = Len(queue) + j
        PROVE  Continues(i, t)'
    <3>1. \A k \in Len(queue) + 1 .. i - 1 : IsMessage(queue', k)
      <4> SUFFICES ASSUME NEW k \in Len(queue) + 1 .. i - 1
                   PROVE  IsMessage(queue', k)
        OBVIOUS
      <4>1. PICK l \in 1 .. m : k = Len(queue) + l /\ l < j
        <5>1. k - Len(queue) \in 1 .. m /\ k = Len(queue) + (k - Len(queue)) /\ k - Len(queue) < j
          BY <1>1, <1>2, <2>2
        <5> QED BY <5>1
      <4>2. l <= Len(items)
        BY <1>1, <1>4, <4>1
      <4> QED BY <1>6, <4>1, <4>2
    <3>2. InForce(queue', Stored, Len(queue) + 1, t)
      <4>1. i \in Nat /\ Len(queue) + 1 <= i
        BY <1>1, <1>2, <2>2
      <4> QED BY <1>1, <1>2, <3>1, <4>1, InForceMessages
    <3>3. t = connector
      <4>1. Len(queue) + 1 \in 1 .. Len(queue) + 1
        BY <1>1
      <4>2. InForce(queue, Stored, Len(queue) + 1, t)
        BY <1>10, <3>2, <4>1
      <4>3. pump # "off"
        BY <1>2, <2>2
      <4>4. InForce(queue, Stored, Len(queue) + 1, connector)
        BY <4>3 DEF ResumeInv, ConnectorInv
      <4> QED BY <1>1, <4>1, <4>2, <4>4, InForceUnique
    <3>4. ASSUME t \in Cursors, NEW u \in Nat, u <= t + (j - 1)
          PROVE  Gapless(i, t, u)'
      <4> SUFFICES ASSUME NEW y \in Chat, t < y, y <= u
                   PROVE  \E k \in 1 .. i - 1 : queue'[k] = Message(y)
        BY DEF Gapless
      <4>1. PICK l \in 1 .. m : y = t + l /\ l < j
        <5>1. t \in Nat /\ y \in Nat /\ j \in Nat
          BY <2>2, <3>4, YouTubeResumeAssumption DEF Cursors, Chat
        <5>2. y - t \in 1 .. m /\ y = t + (y - t) /\ y - t < j
          BY <1>2, <2>2, <3>4, <5>1
        <5> QED BY <5>2
      <4>2. l <= Len(items)
        BY <1>1, <1>4, <4>1
      <4>3. Len(queue) + l \in 1 .. i - 1
        BY <1>1, <2>2, <4>1
      <4> QED BY <1>5, <3>3, <4>1, <4>2, <4>3
    <3>5. CASE j <= Len(items)
      <4>1. t \in Cursors /\ queue'[i] = Message(t + j)
        BY <1>5, <2>2, <3>3, <3>5
      <4>2. t \in Nat /\ j \in Nat /\ (t + j) - 1 \in Nat
            /\ t < t + j /\ (t + j) - 1 <= t + (j - 1)
        BY <1>2, <2>2, <4>1, YouTubeResumeAssumption DEF Cursors
      <4>3. Gapless(i, t, (t + j) - 1)'
        BY <3>4, <4>1, <4>2
      <4>4. queue'[i].kind = "message" /\ queue'[i].message = t + j
        BY <4>1 DEF Message
      <4>5. IsMessage(queue', i) /\ ~IsCheckpoint(queue', i)
        BY <4>4 DEF IsMessage, IsCheckpoint
      <4>6. Gapless(i, t, queue[i].message - 1)'
        BY <4>3, <4>4
      <4> QED BY <4>1, <4>2, <4>4, <4>5, <4>6 DEF Continues
    <3>6. CASE j > Len(items)
      <4>1. /\ j = Len(items) + 1 /\ queue'[i] = checkpoint
            /\ IsCheckpoint(queue', i) /\ ~IsMessage(queue', i)
        BY <1>7, <2>2, <3>6
      <4>2. ASSUME checkpoint.token \in Cursors, ~checkpoint.baseline
            PROVE  t \in Cursors /\ t <= checkpoint.token /\ Gapless(i, t, checkpoint.token)'
        <5>1. t \in Cursors /\ checkpoint.token = t + Len(items)
          BY <3>3, <4>2 DEF Reads
        <5>2. t \in Nat /\ t + Len(items) \in Nat /\ t <= t + Len(items) /\ t + Len(items) <= t + (j - 1)
          BY <1>1, <4>1, <5>1, YouTubeResumeAssumption DEF Cursors
        <5>3. Gapless(i, t, t + Len(items))'
          BY <3>4, <5>1, <5>2
        <5> QED BY <5>1, <5>2, <5>3
      <4>3. queue'[i].token \in Cursors /\ ~queue'[i].baseline =>
              t \in Cursors /\ t <= queue'[i].token /\ Gapless(i, t, queue[i].token)'
        BY <4>1, <4>2
      <4> QED BY <4>1, <4>3 DEF Continues
    <3> QED BY <1>1, <1>2, <2>2, <3>5, <3>6
  <2> QED BY <1>3, <2>1, <2>2
<1>12. BaselineInv'
  <2> SUFFICES ASSUME NEW i \in 1 .. Len(queue'), IsCheckpoint(queue', i), queue'[i].baseline
               PROVE  /\ queue'[i].token \in Cursors
                      /\ \A n \in Chat : Delivered(n) => n <= queue'[i].token
                      /\ \A j \in 1 .. i - 1 :
                           IsMessage(queue', j) => queue'[j].message <= queue'[i].token
    BY DEF BaselineInv, Delivered
  <2>1. CASE i \in 1 .. Len(queue)
    <3>1. queue'[i] = queue[i] /\ \A j \in 1 .. i - 1 : queue'[j] = queue[j]
      BY <1>1, <1>2, <2>1
    <3> QED BY <2>1, <3>1 DEF ResumeInv, BaselineInv, IsMessage, IsCheckpoint
  <2>2. ASSUME NEW j \in 1 .. m, i = Len(queue) + j
        PROVE  /\ queue'[i].token \in Cursors
               /\ \A n \in Chat : Delivered(n) => n <= queue'[i].token
               /\ \A k \in 1 .. i - 1 :
                    IsMessage(queue', k) => queue'[k].message <= queue'[i].token
    <3>1. ~(j <= Len(items))
      BY <1>6, <2>2 DEF IsMessage, IsCheckpoint
    <3>2. j = Len(items) + 1 /\ queue'[i] = checkpoint
      BY <1>1, <1>2, <1>7, <2>2, <3>1
    <3>3. items = << >> /\ checkpoint.token = posted
      BY <3>2 DEF Reads
    <3>4. j = 1 /\ i = Len(queue) + 1
      BY <1>1, <2>2, <3>2, <3>3
    <3>5. \A k \in 1 .. i - 1 : k \in 1 .. Len(queue) /\ queue'[k] = queue[k]
      BY <1>1, <1>2, <3>4
    <3>6. posted \in Cursors
      BY DEF ResumeInv, TypeOK, Cursors
    <3> QED BY <3>2, <3>3, <3>5, <3>6 DEF ResumeInv, PostedInv, IsMessage
  <2> QED BY <1>3, <2>1, <2>2
<1>13. ConnectorInv'
  <2>1. CASE pump = "off"
    <3>1. Len(queue') = 0
      BY <1>1, <1>2, <2>1 DEF ResumeInv, ConnectorInv
    <3>2. queue' = << >>
      BY <1>2, <3>1
    <3> QED BY <2>1, <3>2 DEF ConnectorInv
  <2>2. CASE pump # "off" /\ connector' = NoCursor
    BY <2>2 DEF ConnectorInv
  <2>3. CASE pump # "off" /\ connector' # NoCursor
    <3>1. m = Len(items) + 1 /\ connector' = checkpoint.token
      BY <1>2, <2>3
    <3>2. PICK c \in 1 .. Len(queue') : c = Len(queue) + m /\ c = Len(queue')
      BY <1>1, <1>2, <3>1
    <3>3. m \in 1 .. m /\ m > Len(items)
      BY <1>1, <1>2, <3>1
    <3>4. IsCheckpoint(queue', c) /\ queue'[c].token = connector'
      BY <1>7, <3>1, <3>2, <3>3
    <3>5. c \in 1 .. (Len(queue') + 1) - 1 /\ \A j \in c + 1 .. (Len(queue') + 1) - 1 : FALSE
      BY <1>1, <1>2, <3>2
    <3>6. InForce(queue', Stored, Len(queue') + 1, connector')
      BY <3>4, <3>5 DEF InForce
    <3> QED BY <1>1, <2>3, <3>6 DEF ConnectorInv
  <2> QED BY <2>1, <2>2, <2>3
<1>14. PostedInv'
  <2>1. ASSUME NEW i \in 1 .. Len(queue'), IsMessage(queue', i)
        PROVE  queue'[i].message <= posted
    <3>1. CASE i \in 1 .. Len(queue)
      BY <1>2, <2>1, <3>1 DEF ResumeInv, PostedInv, IsMessage
    <3>2. ASSUME NEW j \in 1 .. m, i = Len(queue) + j
          PROVE  queue'[i].message <= posted
      <4>1. j <= Len(items)
        BY <1>1, <1>2, <1>7, <2>1, <3>2
      <4>2. queue'[i] = Message(connector + j) /\ connector + j <= posted
        BY <1>5, <3>2, <4>1
      <4> QED BY <4>2 DEF Message
    <3> QED BY <1>3, <3>1, <3>2
  <2> QED BY <2>1 DEF ResumeInv, PostedInv, Delivered
<1> QED BY <1>8, <1>9, <1>11, <1>12, <1>13, <1>14 DEF ResumeInv

LEMMA ReadBatchStep ==
  ASSUME ResumeInv, NEW k \in Cursors, ReadBatch(k)
  PROVE  ResumeInv'
<1>1. /\ connector \in Cursors /\ connector < k /\ k <= posted
      /\ UNCHANGED <<posted, saved, pump, delivered, aux_vars>>
  BY DEF ReadBatch
<1>2. PICK items : items = [j \in 1 .. k - connector |-> Message(connector + j)]
  OBVIOUS
<1>3. PICK checkpoint : checkpoint = Checkpoint(k, FALSE)
  OBVIOUS
<1>4. /\ connector \in Nat /\ k \in Nat /\ posted \in Nat /\ posted <= MaxPosted
      /\ k - connector \in Nat /\ connector # NoCursor
  <2>1. connector \in Nat /\ k \in Nat /\ connector # NoCursor
    BY <1>1, Tokens
  <2>2. posted \in Nat /\ posted <= MaxPosted
    BY YouTubeResumeAssumption DEF ResumeInv, TypeOK
  <2> QED BY <1>1, <2>1, <2>2
<1>5. \A j \in 1 .. k - connector :
        /\ items[j] = Message(connector + j) /\ connector + j <= posted
        /\ Message(connector + j) \in Events
  <2> SUFFICES ASSUME NEW j \in 1 .. k - connector
               PROVE  connector + j \in Chat /\ connector + j <= posted
    BY <1>2 DEF Events
  <2>1. j \in Nat /\ 1 <= j /\ j <= k - connector
    BY <1>4
  <2> QED BY <1>1, <1>4, <2>1, YouTubeResumeAssumption DEF Chat
<1>6. items \in Seq(Events) /\ Len(items) = k - connector
  <2>1. PICK l \in Nat : l = k - connector
    BY <1>4
  <2>2. items \in [1 .. l -> Events]
    BY <1>2, <1>5, <2>1
  <2>3. items \in Seq(Events) /\ Len(items) = l
    BY <2>2
  <2> QED BY <2>1, <2>3
<1>7. checkpoint \in Events /\ checkpoint.kind = "checkpoint"
      /\ checkpoint.token = k /\ ~checkpoint.baseline
  <2>1. k \in Token
    BY Tokens
  <2>2. Checkpoint(k, FALSE) \in Events
    <3>1. PICK b \in BOOLEAN : b = FALSE
      OBVIOUS
    <3>2. Checkpoint(k, b) \in Events
      BY <2>1 DEF Events
    <3> QED BY <3>1, <3>2
  <2> QED BY <1>3, <2>2 DEF Checkpoint
<1>8. k = connector + Len(items)
  BY <1>4, <1>6
<1>9. Reads(items, checkpoint)
  BY <1>1, <1>5, <1>6, <1>7, <1>8 DEF Reads
<1>10. Queue(items, checkpoint)
  BY <1>2, <1>3 DEF ReadBatch
<1> QED BY <1>1, <1>4, <1>9, <1>10, ReadStep

\* ReadBaseline and TokenRejected: a checkpoint alone.
LEMMA ReadNothing ==
  ASSUME ResumeInv, connector # NoCursor, NEW token \in Token, NEW baseline \in BOOLEAN,
         Queue(<< >>, Checkpoint(token, baseline)),
         baseline => token = posted, ~baseline => token = Fresh,
         UNCHANGED <<posted, saved, pump, delivered, aux_vars>>
  PROVE  ResumeInv'
<1>1. PICK checkpoint : checkpoint = Checkpoint(token, baseline)
  OBVIOUS
<1>2. PICK items : items = << >>
  OBVIOUS
<1>3. checkpoint \in Events /\ checkpoint.kind = "checkpoint"
      /\ checkpoint.token = token /\ checkpoint.baseline = baseline
  BY <1>1 DEF Events, Checkpoint
<1>4. items \in Seq(Events) /\ Len(items) = 0
  BY <1>2
<1>5. Fresh \notin Cursors
  BY YouTubeResumeAssumption DEF Cursors
<1>6. Reads(items, checkpoint)
  BY <1>2, <1>3, <1>4, <1>5 DEF Reads
<1>7. Queue(items, checkpoint)
  BY <1>1, <1>2
<1> QED BY <1>6, <1>7, ReadStep

LEMMA ReadBaselineStep ==
  ASSUME ResumeInv, ReadBaseline
  PROVE  ResumeInv'
<1>1. posted \in Token
  BY DEF ResumeInv, TypeOK, Token, Cursors
<1>2. /\ connector # NoCursor /\ Queue(<< >>, Checkpoint(posted, TRUE))
      /\ UNCHANGED <<posted, saved, pump, delivered, aux_vars>>
  BY YouTubeResumeAssumption DEF ReadBaseline
<1>3. PICK token \in Token : token = posted
  BY <1>1
<1>4. Queue(<< >>, Checkpoint(token, TRUE))
  BY <1>2, <1>3
<1> QED BY <1>2, <1>3, <1>4, ReadNothing

LEMMA TokenRejectedStep ==
  ASSUME ResumeInv, TokenRejected
  PROVE  ResumeInv'
<1>1. /\ connector # NoCursor /\ Queue(<< >>, Checkpoint(Fresh, FALSE))
      /\ UNCHANGED <<posted, saved, pump, delivered, aux_vars>>
  BY Tokens DEF TokenRejected
<1>2. Fresh \in Token
  BY Tokens
<1> QED BY <1>1, <1>2, ReadNothing

-----------------------------------------------------------------------------
(* The pump takes the head of the queue.                                   *)

\* The position given next is later than all that were given.
LEMMA NextLatest ==
  ASSUME TypeOK, LatestKnown
  PROVE  /\ NextPosition \in Nat
         /\ \A n \in Chat : Delivered(n) => delivered[n] \in Nat /\ delivered[n] < NextPosition
<1> DEFINE taken == {delivered[n] : n \in {n \in Chat : Delivered(n)}}
<1>1. \A n \in Chat : Delivered(n) => delivered[n] \in Nat /\ delivered[n] \in taken
  BY DEF TypeOK, Delivered
<1>2. NextPosition =
        IF taken = {} THEN 0 ELSE 1 + CHOOSE p \in taken : \A q \in taken : q <= p
  BY DEF NextPosition
<1>3. CASE taken = {}
  BY <1>1, <1>2, <1>3
<1>4. CASE taken # {}
  <2>1. \E p \in taken : \A q \in taken : q <= p
    BY <1>4 DEF LatestKnown
  <2>2. PICK last \in taken : last = CHOOSE p \in taken : \A q \in taken : q <= p
    BY <2>1
  <2>3. \A q \in taken : q <= last
    BY <2>1, <2>2
  <2>4. last \in Nat
    BY <1>1, <2>2
  <2>5. NextPosition = 1 + last
    BY <1>2, <1>4, <2>2
  <2>6. \A n \in Chat : Delivered(n) => delivered[n] <= last
    BY <1>1, <2>3
  <2> HIDE DEF taken
  <2> QED BY <1>1, <2>4, <2>5, <2>6
<1> QED BY <1>3, <1>4

\* What the head of the queue is to the rest of it once the pump has taken it.
LEMMA TailStep ==
  ASSUME ResumeInv, queue # << >>, queue' = Tail(queue),
         pump # "off", pump' # "off", pump = "unsafe" => pump' = "unsafe",
         \/ IsMessage(queue, 1) /\ Stored' = Stored
         \/ IsCheckpoint(queue, 1) /\ Stored' = queue[1].token,
         \A y \in Chat : Delivered(y) => Delivered(y)',
         \A y \in Chat : Delivered(y)' => Delivered(y) \/ queue[1] = Message(y),
         \A y \in Chat : queue[1] = Message(y) =>
           Delivered(y)' \/ (pump' = "unsafe" /\ y \in aux_refused'),
         aux_refused \subseteq aux_refused',
         UNCHANGED <<posted, connector>>
  PROVE  /\ queue' \in Seq(Events) /\ Len(queue') <= QueueSize
         /\ QueueInv' /\ BaselineInv' /\ ConnectorInv' /\ PostedInv'
<1>1. /\ queue \in Seq(Events) /\ Len(queue) \in Nat \ {0} /\ Stored \in Token
      /\ Len(queue) <= QueueSize /\ QueueSize \in Nat
      /\ \A i \in 1 .. Len(queue) : queue[i] \in Events
  BY QueueType, YouTubeResumeAssumption DEF ResumeInv, TypeOK
<1>2. /\ queue' \in Seq(Events) /\ Len(queue') = Len(queue) - 1
      /\ \A i \in 1 .. Len(queue') : queue'[i] = queue[i + 1]
  BY <1>1
<1>3. Len(queue') <= QueueSize
  BY <1>1, <1>2
<1>4. \A i \in 1 .. Len(queue) : \A t :
        InForce(queue', Stored', i, t) <=> InForce(queue, Stored, i + 1, t)
  BY <1>1, InForceTail
<1>5. \A i \in 1 .. Len(queue') : i \in 1 .. Len(queue) /\ i + 1 \in 1 .. Len(queue)
  BY <1>1, <1>2
<1>6. \A i \in 1 .. Len(queue') : \A j \in 1 .. i - 1 :
        j \in 1 .. Len(queue') /\ j + 1 \in 1 .. (i + 1) - 1
  BY <1>1, <1>2
<1>7. QueueInv'
  <2> SUFFICES ASSUME NEW i \in 1 .. Len(queue'), NEW t \in Token,
                      InForce(queue', Stored', i, t)
               PROVE  Continues(i, t)'
    BY DEF QueueInv
  <2>1. Continues(i + 1, t)
    <3>1. InForce(queue, Stored, i + 1, t) /\ i + 1 \in 1 .. Len(queue)
      BY <1>4, <1>5
    <3> QED BY <3>1 DEF ResumeInv, QueueInv
  <2>2. queue'[i] = queue[i + 1]
    BY <1>2
  <2>3. ASSUME NEW u, Gapless(i + 1, t, u)
        PROVE  Gapless(i, t, u)'
    <3> SUFFICES ASSUME NEW y \in Chat, t < y, y <= u
                 PROVE  \/ Delivered(y)'
                        \/ \E j \in 1 .. i - 1 : queue'[j] = Message(y)
                        \/ pump' = "unsafe" /\ y \in aux_refused'
      BY DEF Gapless
    <3>1. \/ Delivered(y)
          \/ \E j \in 1 .. (i + 1) - 1 : queue[j] = Message(y)
          \/ pump = "unsafe" /\ y \in aux_refused
      BY <2>3 DEF Gapless
    <3>2. ASSUME NEW j \in 1 .. (i + 1) - 1, queue[j] = Message(y), j # 1
          PROVE  \E l \in 1 .. i - 1 : queue'[l] = Message(y)
      <4>1. j - 1 \in 1 .. i - 1 /\ j - 1 \in 1 .. Len(queue') /\ j = (j - 1) + 1
        BY <1>2, <3>2
      <4> QED BY <1>2, <3>2, <4>1
    <3> QED BY <3>1, <3>2
  <2>4. /\ IsMessage(queue', i) <=> IsMessage(queue, i + 1)
        /\ IsCheckpoint(queue', i) <=> IsCheckpoint(queue, i + 1)
        /\ queue'[i].token = queue[i + 1].token /\ queue'[i].message = queue[i + 1].message
        /\ queue'[i].baseline = queue[i + 1].baseline
    BY <2>2 DEF IsMessage, IsCheckpoint
  <2>5. IsMessage(queue', i) =>
          /\ t \in Cursors /\ t < queue'[i].message
          /\ Gapless(i, t, queue[i].message - 1)'
    <3> SUFFICES ASSUME IsMessage(queue, i + 1)
                 PROVE  /\ t \in Cursors /\ t < queue[i + 1].message
                        /\ Gapless(i, t, queue[i].message - 1)'
      BY <2>4
    <3>1. t \in Cursors /\ t < queue[i + 1].message /\ Gapless(i + 1, t, queue[i + 1].message - 1)
      BY <2>1 DEF Continues
    <3>2. PICK u : u = queue[i + 1].message - 1
      OBVIOUS
    <3>3. Gapless(i, t, u)'
      BY <2>3, <3>1, <3>2
    <3>4. u = queue'[i].message - 1
      BY <2>4, <3>2
    <3> QED BY <3>1, <3>3, <3>4
  <2>6. IsCheckpoint(queue', i) /\ queue'[i].token \in Cursors /\ ~queue'[i].baseline =>
          t \in Cursors /\ t <= queue'[i].token /\ Gapless(i, t, queue[i].token)'
    <3> SUFFICES ASSUME IsCheckpoint(queue, i + 1), queue[i + 1].token \in Cursors,
                        ~queue[i + 1].baseline
                 PROVE  t \in Cursors /\ t <= queue[i + 1].token /\ Gapless(i, t, queue[i].token)'
      BY <2>4
    <3>1. t \in Cursors /\ t <= queue[i + 1].token /\ Gapless(i + 1, t, queue[i + 1].token)
      BY <2>1 DEF Continues
    <3>2. PICK u : u = queue[i + 1].token
      OBVIOUS
    <3>3. Gapless(i, t, u)'
      BY <2>3, <3>1, <3>2
    <3>4. u = queue'[i].token
      BY <2>4, <3>2
    <3> QED BY <3>1, <3>3, <3>4
  <2> QED BY <2>5, <2>6 DEF Continues
<1>8. BaselineInv'
  <2> SUFFICES ASSUME NEW i \in 1 .. Len(queue'), IsCheckpoint(queue', i), queue'[i].baseline
               PROVE  /\ queue'[i].token \in Cursors
                      /\ \A n \in Chat : Delivered(n)' => n <= queue'[i].token
                      /\ \A j \in 1 .. i - 1 :
                           IsMessage(queue', j) => queue'[j].message <= queue'[i].token
    BY DEF BaselineInv
  <2>1. /\ i + 1 \in 1 .. Len(queue) /\ queue'[i] = queue[i + 1]
        /\ IsCheckpoint(queue, i + 1) /\ queue[i + 1].baseline
    BY <1>2, <1>5 DEF IsCheckpoint
  <2>2. /\ queue[i + 1].token \in Cursors
        /\ \A n \in Chat : Delivered(n) => n <= queue[i + 1].token
        /\ \A j \in 1 .. (i + 1) - 1 :
             IsMessage(queue, j) => queue[j].message <= queue[i + 1].token
    BY <2>1 DEF ResumeInv, BaselineInv
  <2>3. \A n \in Chat : queue[1] = Message(n) => n <= queue[i + 1].token
    <3>1. 1 \in 1 .. (i + 1) - 1
      OBVIOUS
    <3> QED BY <2>2, <3>1 DEF IsMessage, Message
  <2>4. \A j \in 1 .. i - 1 : IsMessage(queue', j) => queue'[j].message <= queue[i + 1].token
    BY <1>2, <1>6, <2>2 DEF IsMessage
  <2> QED BY <2>1, <2>2, <2>3, <2>4
<1>9. ConnectorInv'
  <2>1. CASE connector = NoCursor
    BY <2>1 DEF ConnectorInv
  <2>2. CASE connector # NoCursor
    <3>1. InForce(queue, Stored, Len(queue) + 1, connector)
      BY <2>2 DEF ResumeInv, ConnectorInv
    <3>2. InForce(queue', Stored', Len(queue), connector)
      BY <1>1, <1>4, <3>1
    <3>3. Len(queue) = Len(queue') + 1
      BY <1>1, <1>2
    <3> QED BY <3>2, <3>3 DEF ConnectorInv
  <2> QED BY <2>1, <2>2
<1>10. PostedInv'
  <2>1. \A n \in Chat : queue[1] = Message(n) => n <= posted
    BY <1>1 DEF ResumeInv, PostedInv, IsMessage, Message
  <2>2. \A i \in 1 .. Len(queue') : IsMessage(queue', i) => queue'[i].message <= posted
    BY <1>2, <1>5 DEF ResumeInv, PostedInv, IsMessage
  <2> QED BY <2>1, <2>2 DEF ResumeInv, PostedInv
<1> QED BY <1>2, <1>3, <1>7, <1>8, <1>9, <1>10

\* What the stored token is to the head of the queue.
LEMMA HeadContinues ==
  ASSUME ResumeInv, queue # << >>
  PROVE  /\ queue \in Seq(Events) /\ Len(queue) \in Nat \ {0} /\ 1 \in 1 .. Len(queue)
         /\ queue[1] \in Events /\ Head(queue) = queue[1]
         /\ Continues(1, Stored)
<1>1. /\ queue \in Seq(Events) /\ Len(queue) \in Nat \ {0} /\ 1 \in 1 .. Len(queue)
      /\ queue[1] \in Events /\ Head(queue) = queue[1] /\ Stored \in Token
  BY QueueType DEF ResumeInv
<1>2. InForce(queue, Stored, 1, Stored)
  BY DEF InForce
<1>3. Continues(1, Stored)
  BY <1>1, <1>2 DEF ResumeInv, QueueInv
<1> QED BY <1>1, <1>3

LEMMA StoredCursor ==
  ASSUME TypeOK, Stored \in Cursors
  PROVE  saved = Stored /\ saved \in Cursors /\ saved \in Nat
BY Tokens DEF Stored

\* pump_source_events, a message: all that is stored comes before it, and what is
\* between was delivered, or refused.
LEMMA PumpMessageStep ==
  ASSUME ResumeInv, NEW n \in Chat, PumpMessage(n)
  PROVE  ResumeInv'
<1>1. /\ pump # "off" /\ queue # << >> /\ queue' = Tail(queue) /\ Head(queue) = Message(n)
      /\ UNCHANGED <<posted, saved, known, connector, aux_skipped>>
  BY DEF PumpMessage
<1>2. /\ queue \in Seq(Events) /\ queue[1] = Message(n) /\ IsMessage(queue, 1)
      /\ queue[1].message = n /\ Continues(1, Stored)
  <2>1. Message(n).kind = "message" /\ Message(n).message = n
    BY DEF Message
  <2> QED BY <1>1, <2>1, HeadContinues DEF IsMessage
<1>3. /\ Stored \in Cursors /\ Stored < n /\ saved = Stored /\ saved \in Cursors /\ saved \in Nat
      /\ n \in Nat /\ Chat \subseteq Nat /\ Stored' = Stored
  <2>1. Stored \in Cursors /\ Stored < n
    BY <1>2 DEF Continues
  <2>2. n \in Nat /\ Chat \subseteq Nat
    BY DEF Chat
  <2>3. Stored' = Stored
    BY <1>1 DEF Stored
  <2> QED BY <2>1, <2>2, <2>3, StoredCursor DEF ResumeInv
<1>4. \A y \in Chat : saved < y /\ y < n => Delivered(y) \/ y \in aux_refused
  <2>1. Gapless(1, Stored, n - 1)
    BY <1>2 DEF Continues
  <2>2. \A y \in Chat : y < n => y <= n - 1
    BY <1>3
  <2> QED BY <1>3, <2>1, <2>2 DEF Gapless
<1>5. /\ \/ /\ ~Delivered(n) /\ delivered' = [delivered EXCEPT ![n] = NextPosition]
            /\ UNCHANGED <<pump, aux_refused>>
         \/ /\ pump' = "unsafe" /\ aux_refused' = aux_refused \cup {n}
            /\ UNCHANGED delivered
  BY DEF PumpMessage, Refused
<1>6. \A y : queue[1] = Message(y) => y = n
  BY <1>2 DEF Message
<1>7. CASE /\ ~Delivered(n) /\ delivered' = [delivered EXCEPT ![n] = NextPosition]
           /\ UNCHANGED <<pump, aux_refused>>
  <2>1. /\ NextPosition \in Nat
        /\ \A y \in Chat : Delivered(y) => delivered[y] \in Nat /\ delivered[y] < NextPosition
    BY NextLatest DEF ResumeInv
  <2>2. /\ delivered' \in [Chat -> Nat \cup {NotDelivered}]
        /\ delivered'[n] = NextPosition
        /\ \A y \in Chat : y # n => delivered'[y] = delivered[y]
    BY <1>7, <2>1 DEF ResumeInv, TypeOK
  <2>3. Delivered(n)'
    BY <2>1, <2>2, YouTubeResumeAssumption DEF Delivered
  <2>4. \A y \in Chat : y # n => (Delivered(y)' <=> Delivered(y))
    BY <2>2 DEF Delivered
  <2>5. /\ queue' \in Seq(Events) /\ Len(queue') <= QueueSize
        /\ QueueInv' /\ BaselineInv' /\ ConnectorInv' /\ PostedInv'
    BY <1>1, <1>2, <1>3, <1>6, <1>7, <2>3, <2>4, TailStep
  <2>6. TypeOK'
    BY <1>1, <1>7, <2>2, <2>5 DEF ResumeInv, TypeOK, Events
  <2>7. LatestKnown'
    <3>1. \A y \in Chat : Delivered(y)' => delivered'[y] <= delivered'[n]
      BY <2>1, <2>2, <2>4
    <3> QED BY <2>3, <3>1 DEF LatestKnown
  <2>8. StoredInv'
    <3> SUFFICES ASSUME NEW x \in Chat, NEW y \in Chat,
                        saved < x, x < y, Delivered(y)', ~Delivered(x)'
                 PROVE  x \in aux_refused
      BY <1>1, <1>7 DEF StoredInv
    <3>1. x # n /\ ~Delivered(x)
      BY <2>3, <2>4
    <3>2. CASE y = n
      BY <1>4, <3>1, <3>2
    <3>3. CASE y # n
      BY <1>3, <2>4, <3>1, <3>3 DEF ResumeInv, StoredInv
    <3> QED BY <3>2, <3>3
  <2>9. CheckpointCovers'
    <3>1. \A y \in Chat : Delivered(y) => Delivered(y)'
      BY <2>3, <2>4
    <3>2. \A y \in 1 .. saved : y \in Chat
      BY <1>3, YouTubeResumeAssumption DEF Cursors, Chat
    <3> QED BY <1>1, <1>3, <3>1, <3>2 DEF ResumeInv, CheckpointCovers, Covered
  <2>10. ChatOrder'
    <3> SUFFICES ASSUME NEW x \in Chat, NEW y \in Chat,
                        Delivered(x)', Delivered(y)', x < y, x \notin aux_refused
                 PROVE  delivered'[x] < delivered'[y]
      BY <1>7 DEF ChatOrder
    <3>1. CASE x = n
      <4>1. y # n /\ Delivered(y)
        BY <1>3, <2>4, <3>1
      <4> QED BY <1>3, <1>7, <3>1, <4>1 DEF ResumeInv, StoredInv
    <3>2. CASE x # n /\ y = n
      BY <2>1, <2>2, <2>4, <3>2
    <3>3. CASE x # n /\ y # n
      BY <2>2, <2>4, <3>3 DEF ResumeInv, ChatOrder
    <3> QED BY <3>1, <3>2, <3>3
  <2> QED BY <2>5, <2>6, <2>7, <2>8, <2>9, <2>10 DEF ResumeInv
<1>8. CASE /\ pump' = "unsafe" /\ aux_refused' = aux_refused \cup {n}
           /\ UNCHANGED delivered
  <2>1. \A y : Delivered(y)' <=> Delivered(y)
    BY <1>8 DEF Delivered
  <2>2. /\ queue' \in Seq(Events) /\ Len(queue') <= QueueSize
        /\ QueueInv' /\ BaselineInv' /\ ConnectorInv' /\ PostedInv'
    BY <1>1, <1>2, <1>3, <1>6, <1>8, <2>1, TailStep
  <2>3. TypeOK'
    BY <1>1, <1>8, <2>2 DEF ResumeInv, TypeOK, Events
  <2>4. LatestKnown' /\ CheckpointCovers'
    BY <1>1, <1>8, <2>1 DEF ResumeInv, LatestKnown, CheckpointCovers, Covered
  <2>5. StoredInv'
    BY <1>1, <1>8, <2>1 DEF ResumeInv, StoredInv
  <2>6. ChatOrder'
    BY <1>1, <1>8, <2>1 DEF ResumeInv, ChatOrder
  <2> QED BY <2>2, <2>3, <2>4, <2>5, <2>6 DEF ResumeInv
<1> QED BY <1>5, <1>7, <1>8

\* pump_source_events, a checkpoint: what it covers is there, for a pump that has
\* refused nothing.
LEMMA PumpCheckpointStep ==
  ASSUME ResumeInv, PumpCheckpoint
  PROVE  ResumeInv'
<1>1. /\ pump # "off" /\ queue # << >> /\ Head(queue).kind = "checkpoint"
      /\ UNCHANGED <<posted, known, connector, delivered, aux_refused>>
  BY DEF PumpCheckpoint
<1>2. CASE /\ pump = "safe" /\ saved' = Head(queue).token
           /\ aux_skipped' = aux_skipped \cup PassedOver(Head(queue))
           /\ queue' = Tail(queue) /\ UNCHANGED pump
  <2> DEFINE token == queue[1].token
  <2>1. /\ queue \in Seq(Events) /\ Head(queue) = queue[1] /\ IsCheckpoint(queue, 1)
        /\ token \in Token /\ \A y : queue[1] # Message(y)
        /\ Continues(1, Stored) /\ 1 \in 1 .. Len(queue)
    BY <1>1, HeadContinues, EventKinds DEF IsCheckpoint
  <2>2. saved' = token /\ Stored' = token
    BY <1>2, <2>1, Tokens DEF Stored
  <2>3. \A y : Delivered(y)' <=> Delivered(y)
    BY <1>1 DEF Delivered
  <2>4. /\ queue' \in Seq(Events) /\ Len(queue') <= QueueSize
        /\ QueueInv' /\ BaselineInv' /\ ConnectorInv' /\ PostedInv'
    BY <1>1, <1>2, <2>1, <2>2, <2>3, TailStep
  <2>5. /\ Cursors \subseteq Nat /\ Chat \subseteq Nat
        /\ \A c \in Cursors : \A y \in 1 .. c : y \in Chat
    BY Tokens, YouTubeResumeAssumption DEF Chat, Cursors
  <2>6. ASSUME token \in Cursors, ~queue[1].baseline
        PROVE  /\ saved \in Cursors /\ saved <= token
               /\ \A y \in Chat : saved < y /\ y <= token => Delivered(y)
    <3>1. Stored \in Cursors /\ Stored <= token /\ Gapless(1, Stored, token)
      BY <2>1, <2>6 DEF Continues
    <3>2. saved = Stored
      BY <3>1, StoredCursor DEF ResumeInv
    <3> QED BY <1>2, <3>1, <3>2 DEF Gapless
  <2>7. ASSUME token \in Cursors, queue[1].baseline
        PROVE  \A y \in Chat : Delivered(y) => y <= token
    BY <2>1, <2>7 DEF ResumeInv, BaselineInv
  <2>8. TypeOK'
    <3>1. PassedOver(Head(queue)) \subseteq Chat
      <4>1. CASE queue[1].baseline
        <5>1. token \in Cursors
          BY <2>1, <4>1 DEF ResumeInv, BaselineInv
        <5> QED BY <2>1, <2>5, <4>1, <5>1 DEF PassedOver
      <4>2. CASE ~queue[1].baseline
        BY <2>1, <4>2 DEF PassedOver
      <4> QED BY <4>1, <4>2
    <3> HIDE DEF token
    <3> QED BY <1>1, <1>2, <2>1, <2>2, <2>4, <3>1 DEF ResumeInv, TypeOK, Events
  <2>9. CheckpointCovers'
    <3> SUFFICES ASSUME token \in Cursors, NEW y \in 1 .. token
                 PROVE  Delivered(y) \/ y \in aux_skipped'
      BY <2>2, <2>3 DEF CheckpointCovers, Covered
    <3>1. y \in Chat /\ y <= token
      BY <2>5
    <3>2. CASE queue[1].baseline
      BY <1>2, <2>1, <3>2 DEF PassedOver
    <3>3. CASE ~queue[1].baseline /\ saved < y
      BY <2>6, <3>1, <3>3
    <3>4. CASE ~queue[1].baseline /\ ~(saved < y)
      <4>1. saved \in Cursors
        BY <2>6, <3>4
      <4>2. saved \in Nat /\ saved # NoCursor /\ y \in Nat /\ 1 <= y
        BY <2>5, <3>1, <4>1, Tokens DEF Chat
      <4>3. y \in 1 .. saved
        BY <3>4, <4>2
      <4> QED BY <1>2, <4>1, <4>2, <4>3 DEF ResumeInv, CheckpointCovers, Covered
    <3> QED BY <3>2, <3>3, <3>4
  <2>10. StoredInv'
    <3> SUFFICES ASSUME token \in Cursors, NEW x \in Chat, NEW y \in Chat,
                        token < x, x < y, Delivered(y), ~Delivered(x)
                 PROVE  x \in aux_refused
      BY <1>1, <2>2, <2>3 DEF StoredInv
    <3>1. token \in Nat /\ x \in Nat /\ y \in Nat
      BY <2>5
    <3>2. ~queue[1].baseline
      <4>1. ~(y <= token)
        BY <3>1
      <4> QED BY <2>7, <4>1
    <3>3. saved \in Cursors /\ saved <= token
      BY <2>6, <3>2
    <3>4. saved \in Nat
      BY <2>5, <3>3
    <3>5. saved < x
      BY <3>1, <3>3, <3>4
    <3> QED BY <3>3, <3>5 DEF ResumeInv, StoredInv
  <2>11. LatestKnown' /\ ChatOrder'
    BY <1>1, <2>3 DEF ResumeInv, LatestKnown, ChatOrder
  <2> QED BY <2>4, <2>8, <2>9, <2>10, <2>11 DEF ResumeInv
<1>3. CASE pump' = "off" /\ queue' = << >> /\ UNCHANGED <<saved, aux_vars>>
  BY <1>1, <1>3, OffStep
<1> QED BY <1>2, <1>3 DEF PumpCheckpoint

-----------------------------------------------------------------------------
LEMMA ResumeInit ==
  ASSUME Init
  PROVE  ResumeInv
<1>1. /\ posted = 0 /\ saved = NoCursor /\ known = NoCursor /\ connector = NoCursor
      /\ queue = << >> /\ pump = "off" /\ delivered = [n \in Chat |-> NotDelivered]
      /\ aux_skipped = {} /\ aux_refused = {}
  BY DEF Init
<1>2. TypeOK
  <2>1. << >> \in Seq({Message(n) : n \in Chat}
                       \cup {Checkpoint(t, b) : t \in Token, b \in BOOLEAN})
        /\ Len(<< >>) <= QueueSize /\ 0 \in 0 .. MaxPosted
    BY YouTubeResumeAssumption
  <2> QED BY <1>1, <2>1 DEF TypeOK
<1>3. \A n \in Chat : ~Delivered(n)
  BY <1>1 DEF Delivered
<1>4. \A i : i \notin 1 .. Len(queue)
  BY <1>1
<1>5. LatestKnown /\ StoredInv /\ ChatOrder /\ CheckpointCovers
  BY <1>1, <1>3 DEF LatestKnown, StoredInv, ChatOrder, CheckpointCovers
<1>6. QueueInv /\ BaselineInv /\ ConnectorInv /\ PostedInv
  BY <1>1, <1>3, <1>4 DEF QueueInv, BaselineInv, ConnectorInv, PostedInv
<1> QED BY <1>2, <1>5, <1>6 DEF ResumeInv

LEMMA ResumeStep ==
  ASSUME ResumeInv, ~MayResume, [Next]_vars
  PROVE  ResumeInv'
<1>1. CASE Post
  BY <1>1, PostStep
<1>2. CASE Start
  BY <1>2, StartStep
<1>3. CASE ConnectorReturns
  BY <1>3, ConnectorReturnsStep
<1>4. CASE \E k \in Cursors : ReadBatch(k)
  BY <1>4, ReadBatchStep
<1>5. CASE ReadBaseline
  BY <1>5, ReadBaselineStep
<1>6. CASE TokenRejected
  BY <1>6, TokenRejectedStep
<1>7. CASE \E n \in Chat : PumpMessage(n)
  BY <1>7, PumpMessageStep
<1>8. CASE PumpCheckpoint
  BY <1>8, PumpCheckpointStep
<1>9. CASE PumpEnds
  BY <1>9, OffStep DEF PumpEnds
<1>10. CASE Restart
  BY <1>10, OffStep DEF Restart
<1>11. CASE UNCHANGED vars
  BY <1>11 DEF vars, aux_vars, ResumeInv, TypeOK, LatestKnown, QueueInv, BaselineInv,
     ConnectorInv, PostedInv, StoredInv, CheckpointCovers, Covered, ChatOrder, Stored,
     InForce, Continues, Gapless, Delivered, IsMessage, IsCheckpoint
<1> QED BY <1>1, <1>2, <1>3, <1>4, <1>5, <1>6, <1>7, <1>8, <1>9, <1>10, <1>11 DEF Next

LEMMA ResumeInvariant ==
  ASSUME ~MayResume
  PROVE  Spec => []ResumeInv
<1>1. Init => ResumeInv
  BY ResumeInit
<1>2. ResumeInv /\ [Next]_vars => ResumeInv'
  BY ResumeStep
<1> QED BY <1>1, <1>2, PTL DEF Spec

\* In a process that starts its source once, every value is of its kind: the
\* queue never holds more than the channel has room for (run, queue_checkpoint).
THEOREM ResumeType == ~MayResume => (Spec => []TypeOK)
<1> SUFFICES ASSUME ~MayResume
             PROVE  Spec => []TypeOK
  OBVIOUS
<1>1. ResumeInv => TypeOK
  BY DEF ResumeInv
<1> QED BY <1>1, ResumeInvariant, PTL

\* A source that a process starts once never saves a checkpoint that covers a
\* message the session does not have, whatever is refused, and wherever the
\* connector, the pump or the process stops: the next process misses nothing
\* (pump_source_events, queue_checkpoint).
THEOREM NothingLost == ~MayResume => (Spec => []CheckpointCovers)
<1> SUFFICES ASSUME ~MayResume
             PROVE  Spec => []CheckpointCovers
  OBVIOUS
<1>1. ResumeInv => CheckpointCovers
  BY DEF ResumeInv
<1> QED BY <1>1, ResumeInvariant, PTL

\* The session has the messages in the order of the chat, although a new process
\* reads again what came after the checkpoint; only a message that was refused
\* once may come late (run, pump_source_events).
THEOREM ReadInOrder == ~MayResume => (Spec => []ChatOrder)
<1> SUFFICES ASSUME ~MayResume
             PROVE  Spec => []ChatOrder
  OBVIOUS
<1>1. ResumeInv => ChatOrder
  BY DEF ResumeInv
<1> QED BY <1>1, ResumeInvariant, PTL
=============================================================================
