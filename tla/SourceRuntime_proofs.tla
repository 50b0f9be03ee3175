------------------------ MODULE SourceRuntime_proofs ------------------------
(***************************************************************************)
(* Proofs about SourceRuntime for any sources, sessions and calls, and any *)
(* number of calls at a time.                                              *)
(***************************************************************************)
EXTENDS SourceRuntime, FiniteSetTheorems, TLAPS

\* The journal of a session that is not empty has a largest position: what
\* NextSourceSequence takes as given.
LargestKnown ==
  \A session \in Sessions :
    \/ Positions(session) = {}
    \/ \E p \in Positions(session) : \A q \in Positions(session) : q <= p

TypeInv == TypeOK /\ LargestKnown

\* An instance in `active' is that of its source and its start has returned;
\* a start that is about to enter its instance has one.
Owned ==
  /\ \A source \in Sources : active[source] # NoInstance =>
       /\ calls[active[source]] = Done
       /\ instances[active[source]] \in Instance
       /\ instances[active[source]].source = source
  /\ \A c \in Calls : At(c, "start_insert") =>
       /\ instances[c] \in Instance
       /\ instances[c].source = calls[c].source

-----------------------------------------------------------------------------
(* Types.                                                                  *)

\* A call that is somewhere has its locals.
LEMMA CallType ==
  ASSUME TypeOK, NEW c \in Calls, calls[c].pc \in Steps
  PROVE  calls[c] \in Call
BY DEF TypeOK, Idle, Done, Steps

LEMMA GoType ==
  ASSUME TypeOK, NEW c \in Calls, calls[c] \in Call, NEW pc \in Steps, Go(c, pc)
  PROVE  calls' \in [Calls -> Call \cup {Idle, Done}]
<1>1. [calls[c] EXCEPT !.pc = pc] \in Call
  BY DEF Call
<1> QED BY <1>1 DEF TypeOK, Go

LEMMA ReturnType ==
  ASSUME TypeOK, NEW c \in Calls, Return(c)
  PROVE  calls' \in [Calls -> Call \cup {Idle, Done}]
BY DEF TypeOK, Return

LEMMA BeginType ==
  ASSUME TypeOK, NEW c \in Calls, NEW pc \in Steps, NEW source \in Sources,
         NEW session \in Sessions, Begin(c, pc, source, session)
  PROVE  calls' \in [Calls -> Call \cup {Idle, Done}]
BY DEF TypeOK, Begin, Call

\* resumable_session answers a position.
LEMMA NextType ==
  ASSUME TypeInv, NEW session \in Sessions
  PROVE  NextSourceSequence(session) \in Nat
<1>1. Positions(session) \subseteq Nat
  BY DEF TypeInv, TypeOK, Positions
<1>2. CASE Positions(session) = {}
  BY <1>2 DEF NextSourceSequence
<1>3. CASE Positions(session) # {}
  BY <1>1, <1>3 DEF NextSourceSequence, TypeInv, LargestKnown
<1> QED BY <1>2, <1>3

\* A write of the store leaves a row.
LEMMA RowType ==
  ASSUME NEW row, row \in SourceRow \cup {NoRow}, NEW revision,
         NEW desired \in {"paused", "active"},
         NEW next \in SetDesiredState(row, revision, desired)
  PROVE  next \in SourceRow
BY DEF SetDesiredState, Current, SourceRow

LEMMA RowsType ==
  ASSUME TypeOK, NEW source \in Sources, NEW row \in SourceRow \cup {NoRow},
         rows' = [rows EXCEPT ![source] = row]
  PROVE  rows' \in [Sources -> SourceRow \cup {NoRow}]
BY DEF TypeOK

\* Another message makes its position or the largest so far the largest.
LEMMA AcceptedType ==
  ASSUME TypeInv, NEW i \in Calls, PumpAccepted(i), instances[i] \in Instance
  PROVE  TypeInv'
<1>1. PICK session \in Sessions : session = instances[i].session
  BY DEF Instance
<1>2. PICK p \in Nat : p = Position(i)
  BY <1>1 DEF Position, TypeInv, TypeOK
<1>3. /\ accepted' = [accepted EXCEPT ![session] = Append(@, p)]
      /\ sequences' = [sequences EXCEPT ![session] = p + 1]
      /\ UNCHANGED <<rows, vault, active, instances, calls>>
  BY <1>1, <1>2 DEF PumpAccepted, Advanced
<1>4. /\ accepted[session] \in Seq(Nat)
      /\ accepted'[session] = Append(accepted[session], p)
      /\ accepted' \in [Sessions -> Seq(Nat)]
  BY <1>1, <1>2, <1>3 DEF TypeInv, TypeOK
<1>5. TypeOK'
  BY <1>1, <1>2, <1>3, <1>4 DEF TypeInv, TypeOK
<1>6. /\ Positions(session)' = Positions(session) \cup {p}
      /\ \A s \in Sessions \ {session} : Positions(s)' = Positions(s)
  <2>1. DOMAIN accepted'[session] = DOMAIN accepted[session]
                                     \cup {Len(accepted[session]) + 1}
    BY <1>4
  <2>2. /\ \A k \in DOMAIN accepted[session] :
             accepted'[session][k] = accepted[session][k]
        /\ accepted'[session][Len(accepted[session]) + 1] = p
    BY <1>2, <1>4
  <2>3. \A s \in Sessions \ {session} : accepted'[s] = accepted[s]
    BY <1>3 DEF TypeInv, TypeOK
  <2> QED BY <2>1, <2>2, <2>3 DEF Positions
<1>7. Positions(session) \subseteq Nat
  BY <1>1 DEF TypeInv, TypeOK, Positions
<1>8. LargestKnown'
  <2> SUFFICES ASSUME NEW s \in Sessions
               PROVE  \/ Positions(s)' = {}
                      \/ \E q \in Positions(s)' : \A r \in Positions(s)' : r <= q
    BY DEF LargestKnown
  <2>1. CASE s # session
    BY <1>6, <2>1 DEF TypeInv, LargestKnown
  <2>2. CASE s = session /\ Positions(session) = {}
    BY <1>2, <1>6, <2>2
  <2>3. CASE s = session /\ Positions(session) # {}
    <3>1. PICK q \in Positions(session) :
                 \A r \in Positions(session) : r <= q
      BY <1>1, <2>3 DEF TypeInv, LargestKnown
    <3>2. CASE p <= q
      BY <1>6, <2>3, <3>1, <3>2
    <3>3. CASE ~ (p <= q)
      BY <1>2, <1>6, <1>7, <2>3, <3>1, <3>3
    <3> QED BY <3>2, <3>3
  <2> QED BY <2>1, <2>2, <2>3
<1> QED BY <1>5, <1>8 DEF TypeInv

\* What the other variables are left with, when the journal does not change.
LEMMA SameJournal ==
  ASSUME TypeInv, TypeOK', UNCHANGED accepted
  PROVE  TypeInv'
<1>1. \A session \in Sessions : Positions(session)' = Positions(session)
  BY DEF Positions
<1> QED BY <1>1 DEF TypeInv, LargestKnown

LEMMA StartType ==
  ASSUME TypeInv, Owned, NEW c \in Calls, calls[c].pc \in Steps,
         \/ StartRead(c) \/ StartLoad(c) \/ StartRefresh(c) \/ StartResume(c)
         \/ StartPublish(c) \/ StartActivate(c) \/ StartInsert(c)
         \/ StartFail(c)
  PROVE  TypeOK'
<1>1. TypeOK /\ calls[c] \in Call
  BY CallType DEF TypeInv
<1>2. /\ calls[c].source \in Sources /\ calls[c].session \in Sessions
      /\ calls[c].next \in Nat
  BY <1>1 DEF Call
<1>3. Row(c) \in SourceRow \cup {NoRow}
  BY <1>1, <1>2 DEF TypeOK, Row
<1>4. CASE StartRead(c)
  <2>1. [calls[c] EXCEPT !.pc = "start_load", !.revision = Row(c).revision]
          \in Call
    BY <1>1, <1>3, <1>4 DEF Call, StartRead, SourceRow, Steps
  <2> QED BY <1>1, <1>4, <2>1 DEF TypeOK, StartRead
<1>5. CASE StartLoad(c)
  <2>1. calls' \in [Calls -> Call \cup {Idle, Done}]
    BY <1>1, <1>5, GoType DEF StartLoad, Steps
  <2> QED BY <1>1, <1>5, <2>1 DEF TypeOK, StartLoad
<1>6. CASE StartRefresh(c)
  BY <1>1, <1>2, <1>6 DEF TypeOK, StartRefresh
<1>7. CASE StartResume(c)
  <2>1. NextSourceSequence(calls[c].session) \in Nat
    BY <1>2, NextType
  <2>2. [calls[c] EXCEPT !.pc = "start_publish",
                         !.next = NextSourceSequence(calls[c].session)] \in Call
    BY <1>1, <2>1 DEF Call, Steps
  <2> QED BY <1>1, <1>7, <2>2 DEF TypeOK, StartResume
<1>8. CASE StartPublish(c)
  <2>1. calls' \in [Calls -> Call \cup {Idle, Done}]
    BY <1>1, <1>8, GoType DEF StartPublish, Steps
  <2>2. Published(c) \in Nat
    BY <1>1, <1>2 DEF TypeOK, Published
  <2> QED BY <1>1, <1>8, <2>1, <2>2 DEF TypeOK, StartPublish
<1>9. CASE StartActivate(c)
  <2>1. calls' \in [Calls -> Call \cup {Idle, Done}]
    BY <1>1, <1>9, GoType DEF StartActivate, Steps
  <2>2. rows' \in [Sources -> SourceRow \cup {NoRow}]
    BY <1>1, <1>2, <1>3, <1>9, RowType, RowsType DEF StartActivate
  <2>3. Spawned(c) \in Instance
    BY <1>2 DEF Spawned, Instance
  <2> QED BY <1>1, <1>9, <2>1, <2>2, <2>3 DEF TypeOK, StartActivate
<1>10. CASE StartInsert(c)
  <2>1. calls' \in [Calls -> Call \cup {Idle, Done}]
    BY <1>1, <1>10, ReturnType DEF StartInsert
  <2>2. \A i \in Calls : instances[i] \in Instance =>
          [instances[i] EXCEPT !.stop = TRUE] \in Instance
    BY DEF Instance
  <2>3. instances' = Replaced(calls[c].source)
    BY <1>10 DEF StartInsert
  <2>4. instances' \in [Calls -> Instance \cup {NoInstance}]
    <3> SUFFICES ASSUME NEW i \in Calls
                 PROVE  instances'[i] \in Instance \cup {NoInstance}
      BY <2>3 DEF Replaced
    <3>1. CASE i = active[calls[c].source]
      BY <1>2, <2>2, <2>3, <3>1, SourceRuntimeAssumption DEF Owned, Replaced
    <3>2. CASE i # active[calls[c].source]
      BY <1>1, <2>3, <3>2 DEF TypeOK, Replaced
    <3> QED BY <3>1, <3>2
  <2> QED BY <1>1, <1>10, <2>1, <2>4 DEF TypeOK, StartInsert
<1>11. CASE StartFail(c)
  <2>1. calls' \in [Calls -> Call \cup {Idle, Done}]
    BY <1>1, <1>11, ReturnType DEF StartFail
  <2> QED BY <1>1, <1>11, <2>1 DEF TypeOK, StartFail
<1> QED
  BY <1>4, <1>5, <1>6, <1>7, <1>8, <1>9, <1>10, <1>11

LEMMA StopType ==
  ASSUME TypeInv, NEW c \in Calls, calls[c].pc \in Steps,
         \/ StopWaited(c) \/ StopCount(c) \/ StopForget(c) \/ StopRead(c)
         \/ StopPause(c)
  PROVE  TypeOK'
<1>1. TypeOK /\ calls[c] \in Call
  BY CallType DEF TypeInv
<1>2. /\ calls[c].source \in Sources /\ calls[c].session \in Sessions
  BY <1>1 DEF Call
<1>3. Row(c) \in SourceRow \cup {NoRow}
  BY <1>1, <1>2 DEF TypeOK, Row
<1>4. CASE StopWaited(c)
  <2>1. calls' \in [Calls -> Call \cup {Idle, Done}]
    BY <1>1, <1>4, GoType DEF StopWaited, Steps
  <2> QED BY <1>1, <1>4, <2>1 DEF TypeOK, StopWaited
<1>5. CASE StopCount(c)
  <2>1. calls' \in [Calls -> Call \cup {Idle, Done}]
    <3>1. PICK pc \in Steps :
            pc = IF SessionStillActive(calls[c].session) THEN "stop_read"
                 ELSE "stop_forget"
      BY DEF Steps
    <3> QED BY <1>1, <1>5, <3>1, GoType DEF StopCount
  <2> QED BY <1>1, <1>5, <2>1 DEF TypeOK, StopCount
<1>6. CASE StopForget(c)
  <2>1. calls' \in [Calls -> Call \cup {Idle, Done}]
    BY <1>1, <1>6, GoType DEF StopForget, Steps
  <2> QED BY <1>1, <1>2, <1>6, <2>1 DEF TypeOK, StopForget
<1>7. CASE StopRead(c) /\ Row(c) = NoRow
  <2>1. calls' \in [Calls -> Call \cup {Idle, Done}]
    BY <1>1, <1>7, ReturnType DEF StopRead
  <2> QED BY <1>1, <1>7, <2>1 DEF TypeOK, StopRead
<1>8. CASE StopRead(c) /\ Row(c) # NoRow
  <2>1. [calls[c] EXCEPT !.pc = "stop_pause", !.revision = Row(c).revision]
          \in Call
    BY <1>1, <1>3, <1>8 DEF Call, SourceRow, Steps
  <2> QED BY <1>1, <1>8, <2>1 DEF TypeOK, StopRead
<1>9. CASE StopPause(c)
  <2>1. calls' \in [Calls -> Call \cup {Idle, Done}]
    BY <1>1, <1>9, ReturnType DEF StopPause
  <2>2. PICK row \in SourceRow \cup {NoRow} :
               rows' = [rows EXCEPT ![calls[c].source] = row]
    BY <1>3, <1>9, RowType DEF StopPause
  <2>3. rows' \in [Sources -> SourceRow \cup {NoRow}]
    BY <1>1, <1>2, <2>2, RowsType
  <2> QED BY <1>1, <1>9, <2>1, <2>3 DEF TypeOK, StopPause
<1> QED
  BY <1>4, <1>5, <1>6, <1>7, <1>8, <1>9

LEMMA DeleteType ==
  ASSUME TypeInv, NEW c \in Calls, calls[c].pc \in Steps,
         DeleteRead(c) \/ DeletePurge(c) \/ DeleteRemove(c) \/ DeleteFail(c)
  PROVE  TypeOK'
<1>1. TypeOK /\ calls[c] \in Call
  BY CallType DEF TypeInv
<1>2. calls[c].source \in Sources
  BY <1>1 DEF Call
<1>3. Row(c) \in SourceRow \cup {NoRow}
  BY <1>1, <1>2 DEF TypeOK, Row
<1>4. CASE DeleteRead(c)
  <2>1. [calls[c] EXCEPT !.pc = "delete_purge", !.revision = Row(c).revision]
          \in Call
    BY <1>1, <1>3, <1>4 DEF Call, DeleteRead, SourceRow, Steps
  <2> QED BY <1>1, <1>4, <2>1 DEF TypeOK, DeleteRead
<1>5. CASE DeletePurge(c)
  <2>1. calls' \in [Calls -> Call \cup {Idle, Done}]
    BY <1>1, <1>5, GoType DEF DeletePurge, Steps
  <2> QED BY <1>1, <1>5, <2>1 DEF TypeOK, DeletePurge, Purged
<1>6. CASE DeleteRemove(c)
  <2>1. calls' \in [Calls -> Call \cup {Idle, Done}]
    BY <1>1, <1>6, ReturnType DEF DeleteRemove
  <2>2. rows' = [rows EXCEPT ![calls[c].source] = NoRow]
    BY <1>6 DEF DeleteRemove, RemoveRow
  <2>3. rows' \in [Sources -> SourceRow \cup {NoRow}]
    BY <1>1, <1>2, <2>2, RowsType
  <2> QED BY <1>1, <1>6, <2>1, <2>3 DEF TypeOK, DeleteRemove
<1>7. CASE DeleteFail(c)
  <2>1. calls' \in [Calls -> Call \cup {Idle, Done}]
    BY <1>1, <1>7, ReturnType DEF DeleteFail
  <2> QED BY <1>1, <1>7, <2>1 DEF TypeOK, DeleteFail
<1> QED
  BY <1>4, <1>5, <1>6, <1>7

\* The steps of the tasks of an instance that change its phase.
PhaseStep(i) ==
  \/ ConnectorDeaf(i) \/ ConnectorHears(i)
  \/ ConnectorStops(i) \/ ConnectorFails(i)
  \/ PumpEnds(i)

LEMMA PhaseMoves ==
  ASSUME TypeOK, NEW i \in Calls, PhaseStep(i)
  PROVE  /\ instances[i] \in Instance /\ Pumping(i)
         /\ UNCHANGED <<rows, vault, active, sequences, accepted, calls>>
         /\ \E phase \in {"running", "deaf", "draining", "ended"} :
              /\ instances' = [instances EXCEPT ![i].phase = phase]
              /\ phase \in {"running", "deaf"} => Listening(i)
<1>1. CASE ConnectorDeaf(i) \/ ConnectorHears(i)
  BY <1>1 DEF ConnectorDeaf, ConnectorHears, Listening, Pumping, TypeOK
<1>2. CASE ConnectorStops(i) \/ ConnectorFails(i)
  BY <1>2 DEF ConnectorStops, ConnectorFails, ConnectorReturns, Listening,
              Pumping, TypeOK
<1>3. CASE PumpEnds(i)
  BY <1>3 DEF PumpEnds, Pumping, TypeOK
<1> QED BY <1>1, <1>2, <1>3 DEF PhaseStep

LEMMA TaskType ==
  ASSUME TypeInv, NEW i \in Calls,
         \/ ConnectorRefresh(i) \/ PhaseStep(i)
         \/ PumpAccepted(i) \/ PumpRefused(i)
  PROVE  TypeInv'
<1>1. instances[i] \in Instance
  BY PhaseMoves DEF TypeInv, TypeOK, ConnectorRefresh, PumpAccepted, PumpRefused,
                    Listening, Pumping
<1>2. CASE PumpAccepted(i)
  BY <1>1, <1>2, AcceptedType
<1>3. CASE ~ PumpAccepted(i)
  <2>1. /\ instances[i].source \in Sources
        /\ instances[i].session \in Sessions
        /\ \A phase \in {"running", "deaf", "draining", "ended"} :
             [instances[i] EXCEPT !.phase = phase] \in Instance
    BY <1>1 DEF Instance
  <2>2. Position(i) \in Nat
    BY <2>1 DEF Position, TypeInv, TypeOK
  <2>3. TypeOK' /\ UNCHANGED accepted
    <3>1. CASE ConnectorRefresh(i)
      BY <2>1, <3>1 DEF ConnectorRefresh, TypeInv, TypeOK
    <3>2. CASE PhaseStep(i)
      <4>1. /\ UNCHANGED <<rows, vault, active, sequences, accepted, calls>>
            /\ \E phase \in {"running", "deaf", "draining", "ended"} :
                 instances' = [instances EXCEPT ![i].phase = phase]
        BY <3>2, PhaseMoves DEF TypeInv
      <4> QED BY <2>1, <4>1 DEF TypeInv, TypeOK
    <3>4. CASE PumpRefused(i)
      BY <2>1, <2>2, <3>4 DEF PumpRefused, TypeInv, TypeOK
    <3> QED BY <1>3, <3>1, <3>2, <3>4
  <2> QED BY <2>3, SameJournal
<1> QED BY <1>2, <1>3

LEMMA RestartTyped ==
  ASSUME TypeInv, Restart
  PROVE  TypeInv'
<1>1. \A source \in Sources : Reopened(rows[source]) \in SourceRow \cup {NoRow}
  <2> SUFFICES ASSUME NEW source \in Sources
               PROVE  Reopened(rows[source]) \in SourceRow \cup {NoRow}
    OBVIOUS
  <2> DEFINE row == rows[source]
  <2>1. row \in SourceRow \cup {NoRow}
    BY DEF TypeInv, TypeOK
  <2>2. CASE row # NoRow /\ row.desired = "active"
    <3>1. SetDesiredState(row, row.revision, "paused")
            = {[desired |-> "paused", revision |-> row.revision + 1]}
      BY <2>2 DEF SetDesiredState, Current
    <3>2. Reopened(row) = [desired |-> "paused", revision |-> row.revision + 1]
      BY <2>2, <3>1 DEF Reopened
    <3> QED BY <2>1, <2>2, <3>2 DEF SourceRow
  <2>3. CASE ~ (row # NoRow /\ row.desired = "active")
    BY <2>1, <2>3 DEF Reopened
  <2> QED BY <2>2, <2>3
<1>2. \A i \in Calls : instances[i] \in Instance =>
        [instances[i] EXCEPT !.phase = "ended"] \in Instance
  BY DEF Instance
<1>3. instances' \in [Calls -> Instance \cup {NoInstance}]
  BY <1>2 DEF Restart, TypeInv, TypeOK
<1>4. TypeOK'
  BY <1>1, <1>3 DEF Restart, TypeInv, TypeOK
<1> QED BY <1>4, SameJournal DEF Restart

LEMMA TypeStep ==
  ASSUME TypeInv, Owned, [Next]_vars
  PROVE  TypeInv'
<1>1. ASSUME NEW c \in Calls, NEW source \in Sources, NEW session \in Sessions,
             \/ StartCheck(c, source, session) \/ StopIdle(c, source, session)
             \/ DeleteCheck(c, source, session)
      PROVE  TypeInv'
  <2>1. PICK pc \in Steps : Begin(c, pc, source, session)
    BY <1>1 DEF StartCheck, StopIdle, DeleteCheck, Steps
  <2>2. calls' \in [Calls -> Call \cup {Idle, Done}]
    BY <2>1, BeginType DEF TypeInv
  <2>3. UNCHANGED <<rows, vault, active, instances, sequences, accepted>>
    BY <1>1 DEF StartCheck, StopIdle, DeleteCheck
  <2> QED BY <2>2, <2>3, SameJournal DEF TypeInv, TypeOK
<1>2. ASSUME NEW c \in Calls, NEW source \in Sources, StopTake(c, source)
      PROVE  TypeInv'
  <2>1. active[source] \in Calls /\ instances[active[source]] \in Instance
    BY <1>2 DEF StopTake, Owned, TypeInv, TypeOK
  <2>2. calls' \in [Calls -> Call \cup {Idle, Done}]
    <3>1. [pc |-> "stop_wait", source |-> source,
           session |-> instances[active[source]].session, revision |-> 0,
           next |-> 0, instance |-> active[source]] \in Call
      BY <2>1 DEF Call, Steps, Instance
    <3> QED BY <1>2, <3>1 DEF StopTake, TypeInv, TypeOK
  <2>3. instances' \in [Calls -> Instance \cup {NoInstance}]
    <3>1. [instances[active[source]] EXCEPT !.stop = TRUE] \in Instance
      BY <2>1 DEF Instance
    <3> QED BY <1>2, <2>1, <3>1 DEF StopTake, Signalled, TypeInv, TypeOK
  <2>4. TypeOK'
    BY <1>2, <2>2, <2>3 DEF StopTake, TypeInv, TypeOK
  <2> QED BY <1>2, <2>4, SameJournal DEF StopTake
<1>3. ASSUME NEW c \in Calls, Step(c) \/ StartRefresh(c)
      PROVE  TypeInv'
  <2>1. CASE \/ StartRead(c) \/ StartLoad(c) \/ StartRefresh(c)
             \/ StartResume(c) \/ StartPublish(c) \/ StartActivate(c)
             \/ StartInsert(c) \/ StartFail(c)
    <3>1. calls[c].pc \in Steps /\ UNCHANGED accepted
      BY <2>1 DEF At, Steps, StartRead, StartLoad, StartRefresh, StartResume,
              StartPublish, StartActivate, StartInsert, StartFail
    <3> QED BY <2>1, <3>1, StartType, SameJournal
  <2>2. CASE \/ StopWaited(c) \/ StopCount(c) \/ StopForget(c) \/ StopRead(c)
             \/ StopPause(c)
    <3>1. calls[c].pc \in Steps /\ UNCHANGED accepted
      BY <2>2 DEF At, Steps, StopWaited, StopCount, StopForget, StopRead,
                  StopPause
    <3> QED BY <2>2, <3>1, StopType, SameJournal
  <2>3. CASE DeleteRead(c) \/ DeletePurge(c) \/ DeleteRemove(c) \/ DeleteFail(c)
    <3>1. calls[c].pc \in Steps /\ UNCHANGED accepted
      BY <2>3 DEF At, Steps, DeleteRead, DeletePurge, DeleteRemove, DeleteFail
    <3> QED BY <2>3, <3>1, DeleteType, SameJournal
  <2> QED BY <1>3, <2>1, <2>2, <2>3 DEF Step
<1>4. ASSUME NEW i \in Calls,
             \/ ConnectorRefresh(i) \/ PhaseStep(i)
             \/ PumpAccepted(i) \/ PumpRefused(i)
      PROVE  TypeInv'
  BY <1>4, TaskType
<1>5. ASSUME NEW source \in Sources, Update(source)
      PROVE  TypeInv'
  <2>1. PICK row \in UpdateRow(rows[source], rows[source].revision) :
               rows' = [rows EXCEPT ![source] = row]
    BY <1>5 DEF Update
  <2>2. rows[source] \in SourceRow
    BY <1>5 DEF Update, TypeInv, TypeOK
  <2>3. row \in SourceRow
    BY <2>1, <2>2 DEF UpdateRow, Current, SourceRow
  <2>4. TypeOK'
    BY <1>5, <2>1, <2>3 DEF Update, TypeInv, TypeOK
  <2> QED BY <1>5, <2>4, SameJournal DEF Update
<1>6. CASE Restart
  BY <1>6, RestartTyped
<1>7. CASE UNCHANGED vars
  BY <1>7, SameJournal DEF TypeInv, TypeOK, vars
<1> QED
  BY <1>1, <1>2, <1>3, <1>4, <1>5, <1>6, <1>7 DEF Next, PhaseStep

-----------------------------------------------------------------------------
(* Listeners.  Most steps move a call that is not about to enter its       *)
(* instance, or change instances without making one listen.                *)

ListenersInv == Owned /\ NoOrphanListener

LEMMA CallMoves ==
  ASSUME TypeOK, ListenersInv, NEW c \in Calls,
         calls[c] # Done, calls[c].pc # "start_insert",
         calls'[c].pc # "start_insert",
         \A d \in Calls \ {c} : calls'[d] = calls[d],
         UNCHANGED <<active, instances>>
  PROVE  ListenersInv'
<1>1. Owned'
  <2>1. \A source \in Sources : active[source] # NoInstance =>
          active[source] \in Calls /\ active[source] # c
    BY DEF TypeOK, ListenersInv, Owned
  <2> QED BY <2>1 DEF ListenersInv, Owned, At
<1>2. NoOrphanListener'
  BY DEF ListenersInv, NoOrphanListener, Listening, At
<1> QED BY <1>1, <1>2 DEF ListenersInv

LEMMA InstancesChange ==
  ASSUME TypeOK, ListenersInv, UNCHANGED <<active, calls>>,
         \A i \in Calls : instances[i] \in Instance =>
           instances'[i] \in Instance /\ instances'[i].source = instances[i].source,
         \A i \in Calls : Listening(i)' /\ ~instances'[i].stop =>
           /\ instances[i] \in Instance
           /\ Listening(i) /\ ~instances[i].stop
  PROVE  ListenersInv'
<1>1. Owned'
  BY DEF TypeOK, ListenersInv, Owned, At
<1>2. NoOrphanListener'
  BY DEF ListenersInv, NoOrphanListener, At
<1> QED BY <1>1, <1>2 DEF ListenersInv

LEMMA Enters ==
  ASSUME TypeOK, ListenersInv, NEW c \in Calls,
         StartActivate(c) \/ StartInsert(c)
  PROVE  ListenersInv'
<1>1. calls[c] \in Call /\ calls[c] # Done
  BY CallType DEF StartActivate, StartInsert, At, Steps, Done
<1>2. calls[c].source \in Sources
  BY <1>1 DEF Call
<1>3. \A source \in Sources : active[source] # NoInstance =>
        active[source] \in Calls /\ active[source] # c
  BY <1>1 DEF TypeOK, ListenersInv, Owned
<1>4. CASE StartActivate(c)
  <2>1. /\ instances'[c] = Spawned(c)
        /\ \A i \in Calls \ {c} : instances'[i] = instances[i]
        /\ active' = active
    BY <1>4 DEF StartActivate, TypeOK
  <2>2. /\ calls'[c] = [calls[c] EXCEPT !.pc = "start_insert"]
        /\ \A d \in Calls \ {c} : calls'[d] = calls[d]
    BY <1>4 DEF StartActivate, Go, TypeOK
  <2>3. calls'[c].pc = "start_insert" /\ calls'[c].source = calls[c].source
    BY <1>1, <2>2 DEF Call
  <2>4. Spawned(c) \in Instance /\ Spawned(c).source = calls[c].source
    BY <1>1 DEF Spawned, Instance, Call
  <2>5. Owned'
    BY <1>3, <2>1, <2>2, <2>3, <2>4 DEF ListenersInv, Owned, At
  <2>6. NoOrphanListener'
    BY <2>1, <2>2, <2>3 DEF ListenersInv, NoOrphanListener, Listening, At
  <2> QED BY <2>5, <2>6 DEF ListenersInv
<1>5. CASE StartInsert(c)
  <2> DEFINE source == calls[c].source
  <2>1. /\ active'[source] = c
        /\ \A other \in Sources \ {source} : active'[other] = active[other]
    BY <1>2, <1>5 DEF StartInsert, TypeOK
  <2>2. /\ calls'[c] = Done
        /\ \A d \in Calls \ {c} : calls'[d] = calls[d]
    BY <1>5 DEF StartInsert, Return, TypeOK
  <2>3. \A i \in Calls :
          instances'[i] = IF i = active[source]
                          THEN [instances[i] EXCEPT !.stop = TRUE]
                          ELSE instances[i]
    BY <1>5 DEF StartInsert, Replaced
  <2>4. /\ instances[c] \in Instance /\ instances[c].source = source
        /\ instances'[c] = instances[c]
    <3>1. At(c, "start_insert")
      BY <1>5 DEF StartInsert
    <3>2. active[source] # c
      BY <1>2, <1>3, SourceRuntimeAssumption
    <3> QED BY <2>3, <3>1, <3>2 DEF ListenersInv, Owned
  <2>5. \A i \in Calls : instances[i] \in Instance =>
          /\ instances'[i] \in Instance
          /\ instances'[i].source = instances[i].source
          /\ i = active[source] => instances'[i].stop
    <3>1. ASSUME NEW x \in Instance
          PROVE  /\ [x EXCEPT !.stop = TRUE] \in Instance
                 /\ [x EXCEPT !.stop = TRUE].source = x.source
                 /\ [x EXCEPT !.stop = TRUE].stop
      BY DEF Instance
    <3> QED BY <2>3, <3>1
  <2>6. Owned'
    <3>1. ASSUME NEW other \in Sources, active'[other] # NoInstance
          PROVE  /\ calls'[active'[other]] = Done
                 /\ instances'[active'[other]] \in Instance
                 /\ instances'[active'[other]].source = other
      <4>1. CASE other = source
        BY <2>1, <2>2, <2>4, <4>1
      <4>2. CASE other # source
        BY <1>3, <2>1, <2>2, <2>5, <3>1, <4>2 DEF ListenersInv, Owned
      <4> QED BY <4>1, <4>2
    <3>2. ASSUME NEW d \in Calls, At(d, "start_insert")'
          PROVE  /\ instances'[d] \in Instance
                 /\ instances'[d].source = calls'[d].source
      <4>1. d # c
        BY <2>2, <3>2 DEF At, Done
      <4> QED BY <2>2, <2>5, <3>2, <4>1 DEF ListenersInv, Owned, At
    <3> QED BY <3>1, <3>2 DEF Owned
  <2>7. NoOrphanListener'
    <3> SUFFICES ASSUME NEW i \in Calls, Listening(i)', ~instances'[i].stop
                 PROVE  active'[instances'[i].source] = i \/ At(i, "start_insert")'
      BY DEF NoOrphanListener
    <3>1. CASE i = c
      BY <2>1, <2>4, <3>1
    <3>2. CASE i # c /\ i = active[source]
      BY <1>2, <2>5, <3>2, SourceRuntimeAssumption DEF ListenersInv, Owned
    <3>3. CASE i # c /\ i # active[source]
      <4>1. Listening(i) /\ ~instances[i].stop /\ instances'[i] = instances[i]
        BY <2>3, <3>3 DEF Listening
      <4>2. CASE At(i, "start_insert")
        BY <2>2, <3>3, <4>2 DEF At
      <4>3. CASE active[instances[i].source] = i
        <5>1. instances[i].source \in Sources
          BY <4>1 DEF TypeOK, Listening, Instance
        <5> QED BY <2>1, <3>3, <4>1, <4>3, <5>1
      <4> QED BY <4>1, <4>2, <4>3 DEF ListenersInv, NoOrphanListener
    <3> QED BY <3>1, <3>2, <3>3
  <2> QED BY <2>6, <2>7 DEF ListenersInv
<1> QED BY <1>4, <1>5

\* StopTake: what leaves `active' is told to stop.
LEMMA Taken ==
  ASSUME TypeOK, ListenersInv, NEW c \in Calls, NEW source \in Sources,
         StopTake(c, source)
  PROVE  ListenersInv'
<1> DEFINE taken == active[source]
<1>1. /\ taken \in Calls
      /\ instances[taken] \in Instance /\ instances[taken].source = source
  BY DEF StopTake, TypeOK, ListenersInv, Owned
<1>2. /\ active'[source] = NoInstance
      /\ \A other \in Sources \ {source} : active'[other] = active[other]
  BY DEF StopTake, TypeOK
<1>3. /\ calls[c] = Idle /\ calls'[c].pc = "stop_wait"
      /\ \A d \in Calls \ {c} : calls'[d] = calls[d]
  BY DEF StopTake, TypeOK
<1>4. /\ instances'[taken] = [instances[taken] EXCEPT !.stop = TRUE]
      /\ \A i \in Calls \ {taken} : instances'[i] = instances[i]
  BY DEF StopTake, Signalled, TypeOK
<1>5. /\ instances'[taken] \in Instance /\ instances'[taken].stop
      /\ instances'[taken].source = source
  BY <1>1, <1>4 DEF Instance
<1> HIDE DEF taken
<1>6. \A i \in Calls : instances[i] \in Instance =>
        instances'[i] \in Instance /\ instances'[i].source = instances[i].source
  BY <1>1, <1>4, <1>5
<1>7. Owned'
  <2>1. \A other \in Sources : active[other] # NoInstance =>
          active[other] \in Calls /\ active[other] # c
    BY <1>3 DEF TypeOK, ListenersInv, Owned, Idle, Done
  <2> QED BY <1>2, <1>3, <1>6, <2>1 DEF ListenersInv, Owned, At
<1>8. NoOrphanListener'
  <2> SUFFICES ASSUME NEW i \in Calls, Listening(i)', ~instances'[i].stop
               PROVE  active'[instances'[i].source] = i \/ At(i, "start_insert")'
    BY DEF NoOrphanListener
  <2>1. /\ i # taken /\ instances'[i] = instances[i]
        /\ Listening(i) /\ ~instances[i].stop
    BY <1>4, <1>5 DEF Listening
  <2>2. instances[i].source \in Sources
    BY <2>1 DEF TypeOK, Listening, Instance
  <2>3. CASE At(i, "start_insert")
    BY <1>3, <2>3 DEF At, Idle
  <2>4. CASE active[instances[i].source] = i
    BY <1>2, <2>1, <2>2, <2>4 DEF taken
  <2> QED BY <2>1, <2>3, <2>4 DEF ListenersInv, NoOrphanListener
<1> QED BY <1>7, <1>8 DEF ListenersInv

LEMMA RestartSilent ==
  ASSUME TypeOK, ListenersInv, Restart
  PROVE  ListenersInv'
<1>1. \A c \in Calls : ~ At(c, "start_insert")'
  BY DEF Restart, InProgress, At, Idle, Done
<1>2. \A source \in Sources : active'[source] = NoInstance
  BY DEF Restart
<1>3. \A i \in Calls : ~ Listening(i)'
  <2> SUFFICES ASSUME NEW i \in Calls, instances'[i] # NoInstance
               PROVE  instances'[i].phase \notin {"running", "deaf"}
    BY DEF Listening
  <2>1. instances[i] \in Instance
    BY DEF Restart, TypeOK
  <2> QED BY <2>1 DEF Restart, Instance
<1> QED BY <1>1, <1>2, <1>3 DEF ListenersInv, Owned, NoOrphanListener

LEMMA ListenersStep ==
  ASSUME TypeOK, ListenersInv, [Next]_vars
  PROVE  ListenersInv'
<1>1. ASSUME NEW c \in Calls, NEW source \in Sources, NEW session \in Sessions,
             \/ StartCheck(c, source, session) \/ StopIdle(c, source, session)
             \/ DeleteCheck(c, source, session)
      PROVE  ListenersInv'
  <2>1. PICK pc \in Steps \ {"start_insert"} : Begin(c, pc, source, session)
    BY <1>1 DEF StartCheck, StopIdle, DeleteCheck, Steps
  <2>2. /\ calls[c] = Idle /\ calls'[c].pc = pc
        /\ \A d \in Calls \ {c} : calls'[d] = calls[d]
    BY <2>1 DEF Begin, TypeOK
  <2>3. UNCHANGED <<active, instances>>
    BY <1>1 DEF StartCheck, StopIdle, DeleteCheck
  <2>4. calls[c] # Done /\ calls[c].pc # "start_insert"
    BY <2>2 DEF Idle, Done
  <2> QED BY <2>2, <2>3, <2>4, CallMoves
<1>2. ASSUME NEW c \in Calls, NEW source \in Sources, StopTake(c, source)
      PROVE  ListenersInv'
  BY <1>2, Taken
<1>3. ASSUME NEW c \in Calls, Step(c)
      PROVE  ListenersInv'
  <2>1. CASE StartActivate(c) \/ StartInsert(c)
    BY <2>1, Enters
  <2>2. CASE ~ (StartActivate(c) \/ StartInsert(c))
    <3>1. /\ calls[c].pc \in Steps \ {"start_insert"}
          /\ UNCHANGED <<active, instances>>
      BY <1>3, <2>2 DEF Step, At, Steps, StartRead, StartLoad, StartResume,
           StartPublish, StartFail, StopWaited, StopCount, StopForget,
           StopRead, StopPause, DeleteRead, DeletePurge, DeleteRemove,
           DeleteFail
    <3>2. calls[c] \in Call
      BY <3>1, CallType
    <3>3. /\ calls'[c].pc # "start_insert"
          /\ \A d \in Calls \ {c} : calls'[d] = calls[d]
      <4>1. CASE Return(c)
        BY <4>1 DEF Return, Done, TypeOK
      <4>2. CASE \E pc \in Steps \ {"start_insert"} : Go(c, pc)
        <5>1. PICK pc \in Steps \ {"start_insert"} : Go(c, pc)
          BY <4>2
        <5> QED BY <3>2, <5>1 DEF Go, Call, TypeOK
      <4>3. CASE StartRead(c) \/ StartResume(c)
        BY <3>2, <4>3 DEF StartRead, StartResume, Call, TypeOK
      <4>4. CASE StopRead(c)
        BY <3>2, <4>4 DEF StopRead, Return, Done, Call, TypeOK
      <4>5. CASE DeleteRead(c)
        BY <3>2, <4>5 DEF DeleteRead, Call, TypeOK
      <4>6. CASE StartLoad(c) \/ StartPublish(c) \/ StopWaited(c)
                 \/ StopForget(c) \/ DeletePurge(c)
        <5>1. \/ Go(c, "start_resume") \/ Go(c, "start_activate")
              \/ Go(c, "stop_count") \/ Go(c, "stop_read")
              \/ Go(c, "delete_remove")
          BY <4>6 DEF StartLoad, StartPublish, StopWaited, StopForget,
                      DeletePurge
        <5> QED BY <4>2, <5>1 DEF Steps
      <4>7. CASE StopCount(c)
        <5>1. Go(c, "stop_read") \/ Go(c, "stop_forget")
          BY <4>7 DEF StopCount
        <5> QED BY <4>2, <5>1 DEF Steps
      <4>8. CASE StartFail(c) \/ StopPause(c) \/ DeleteRemove(c) \/ DeleteFail(c)
        BY <4>1, <4>8 DEF StartFail, StopPause, DeleteRemove, DeleteFail
      <4> QED
        BY <1>3, <2>2, <4>3, <4>4, <4>5, <4>6, <4>7, <4>8 DEF Step
    <3>4. calls[c] # Done
      BY <3>1 DEF Done, Steps
    <3> QED BY <3>1, <3>3, <3>4, CallMoves
  <2> QED BY <2>1, <2>2
<1>4. ASSUME NEW c \in Calls, StartRefresh(c)
      PROVE  ListenersInv'
  BY <1>4, InstancesChange DEF StartRefresh, TypeOK, Listening
<1>5. ASSUME NEW i \in Calls, PhaseStep(i)
      PROVE  ListenersInv'
  <2>1. PICK phase \in {"running", "deaf", "draining", "ended"} :
               /\ instances' = [instances EXCEPT ![i].phase = phase]
               /\ phase \in {"running", "deaf"} => Listening(i)
    BY <1>5, PhaseMoves
  <2>2. UNCHANGED <<active, calls>> /\ instances[i] \in Instance
    BY <1>5, PhaseMoves
  <2>3. /\ instances'[i] \in Instance
        /\ instances'[i].source = instances[i].source
        /\ instances'[i].stop = instances[i].stop
        /\ instances'[i].phase = phase
    BY <2>1, <2>2 DEF Instance, TypeOK
  <2>4. \A j \in Calls \ {i} : instances'[j] = instances[j]
    BY <2>1 DEF TypeOK
  <2>5. Listening(i)' => Listening(i)
    BY <2>1, <2>3 DEF Listening
  <2>6. \A j \in Calls \ {i} :
          Listening(j)' => Listening(j) /\ instances[j] \in Instance
    BY <2>4 DEF Listening, TypeOK
  <2> QED BY <2>2, <2>3, <2>4, <2>5, <2>6, InstancesChange
<1>6. ASSUME NEW i \in Calls,
             ConnectorRefresh(i) \/ PumpAccepted(i) \/ PumpRefused(i)
      PROVE  ListenersInv'
  BY <1>6, InstancesChange DEF ConnectorRefresh, PumpAccepted, PumpRefused,
       TypeOK, Listening
<1>7. ASSUME NEW source \in Sources, Update(source)
      PROVE  ListenersInv'
  BY <1>7, InstancesChange DEF Update, TypeOK, Listening
<1>8. CASE Restart
  BY <1>8, RestartSilent
<1>9. CASE UNCHANGED vars
  BY <1>9, InstancesChange DEF vars, TypeOK, Listening
<1> QED
  BY <1>1, <1>2, <1>3, <1>4, <1>5, <1>6, <1>7, <1>8, <1>9 DEF Next, PhaseStep

-----------------------------------------------------------------------------
LEMMA RuntimeInit == Init => TypeInv /\ ListenersInv
<1> SUFFICES ASSUME Init
             PROVE  TypeInv /\ ListenersInv
  OBVIOUS
<1>1. TypeOK
  BY DEF Init, TypeOK, SourceRow
<1>2. LargestKnown
  BY DEF Init, LargestKnown, Positions
<1>3. ListenersInv
  BY DEF Init, ListenersInv, Owned, NoOrphanListener, At, Idle, Listening
<1> QED BY <1>1, <1>2, <1>3 DEF TypeInv

LEMMA RuntimeInvariant == Spec => [](TypeInv /\ ListenersInv)
<1>1. TypeInv /\ ListenersInv /\ [Next]_vars => (TypeInv /\ ListenersInv)'
  BY TypeStep, ListenersStep DEF TypeInv, ListenersInv
<1> QED BY RuntimeInit, <1>1, PTL DEF Spec

\* Every reachable state of the runtime has its type: no overlap of calls,
\* conflict, failure or restart leaves a map, a row or a position that the code
\* could not hold.
THEOREM RuntimeTyped == Spec => []TypeOK
<1>1. TypeInv => TypeOK
  BY DEF TypeInv
<1> QED BY RuntimeInvariant, <1>1, PTL

\* However many starts, stops, deletions and restarts overlap, a source that
\* listens and has not been told to stop is in `active' or about to be entered
\* there (the insert of start_twitch_source and start_youtube_source).
THEOREM ListenersReachable == Spec => []NoOrphanListener
<1>1. ListenersInv => NoOrphanListener
  BY DEF ListenersInv
<1> QED BY RuntimeInvariant, <1>1, PTL

-----------------------------------------------------------------------------
(***************************************************************************)
(* When calls are made one at a time the positions of a session are        *)
(* distinct, a paused source is silent and a deleted one leaves nothing,   *)
(* whatever pumps, connectors and restarts do meanwhile.  The argument:    *)
(* an instance that may still submit is in `active', about to be entered   *)
(* there, or awaited by the call in progress.  So when a stop finds no     *)
(* other source of its session, nothing is left that could submit without  *)
(* the entry it forgets; and when a stop pauses a row or a delete removes  *)
(* it, nothing is left that listens or refreshes for its source.           *)
(***************************************************************************)

StartSteps == {"start_read", "start_load", "start_resume", "start_publish",
               "start_activate", "start_insert"}

\* What concerns the call in progress: it is alone; a start found its source
\* out of `active'; its session has an entry when it is about to listen; what
\* it will publish is ahead; a stop that forgets an entry left nothing running.
CallInv ==
  /\ \A c, d \in InProgress : c = d
  /\ \A c \in Calls :
       calls[c].pc \in StartSteps => active[calls[c].source] = NoInstance
  /\ \A c \in Calls :
       At(c, "start_publish") /\ sequences[calls[c].session] = NoEntry =>
         \A p \in Positions(calls[c].session) : p < calls[c].next
  /\ \A c \in Calls :
       At(c, "start_activate") => sequences[calls[c].session] # NoEntry
  /\ \A c, i \in Calls :
       At(c, "stop_forget") /\ Pumping(i) =>
         instances[i].session # calls[c].session

\* What concerns an instance that may submit: something still refers to it, and
\* its session has an entry.
PumpInv ==
  \A i \in Calls : Pumping(i) =>
    /\ \/ active[instances[i].source] = i
       \/ At(i, "start_insert")
       \/ \E c \in Calls : At(c, "stop_wait") /\ calls[c].instance = i
    /\ sequences[instances[i].session] # NoEntry

SerialInv == CallInv /\ PumpInv /\ EntryAhead /\ PositionsDistinct

-----------------------------------------------------------------------------
(* The call in progress is the only one that is anywhere.                  *)

LEMMA Alone ==
  ASSUME TypeOK, CallInv, NEW c \in Calls, calls[c].pc \in Steps
  PROVE  /\ calls[c] \in Call /\ c \in InProgress
         /\ \A d \in Calls \ {c} :
              calls[d] \in {Idle, Done} /\ calls[d].pc \notin Steps
<1>1. calls[c] \in Call /\ c \in InProgress
  BY CallType DEF InProgress, Idle, Done, Steps
<1>2. \A d \in Calls \ {c} : d \notin InProgress
  BY <1>1 DEF CallInv
<1> QED BY <1>1, <1>2 DEF InProgress, Idle, Done, Steps

\* A call begins when no other is in progress.
LEMMA BeginsAlone ==
  ASSUME MaxConcurrent = 1, Cardinality(InProgress) < MaxConcurrent
  PROVE  \A c \in Calls : calls[c] \in {Idle, Done} /\ calls[c].pc \notin Steps
<1>1. IsFiniteSet(InProgress)
  BY FS_Subset, SourceRuntimeAssumption DEF InProgress
<1>2. Cardinality(InProgress) \in Nat /\ Cardinality(InProgress) = 0
  BY <1>1, FS_CardinalityType
<1>3. InProgress = {}
  BY <1>1, <1>2, FS_EmptySet
<1> QED BY <1>3 DEF InProgress, Idle, Done, Steps

\* Steps of stores and credentials.
LEMMA QuietStep ==
  ASSUME SerialInv, UNCHANGED <<active, instances, sequences, accepted, calls>>
  PROVE  SerialInv'
<1>1. \A session \in Sessions : Positions(session)' = Positions(session)
  BY DEF Positions
<1>2. CallInv'
  BY DEF SerialInv, CallInv, InProgress, At, Pumping, Positions
<1>3. PumpInv'
  BY DEF SerialInv, PumpInv, At, Pumping
<1>4. EntryAhead' /\ PositionsDistinct'
  BY <1>1 DEF SerialInv, EntryAhead, PositionsDistinct
<1> QED BY <1>2, <1>3, <1>4 DEF SerialInv

\* A step by which the call in progress moves on or returns, and only that.
LEMMA CallStep ==
  ASSUME TypeOK, SerialInv, NEW c \in Calls, calls[c].pc \in Steps,
         calls[c].pc \notin {"start_insert", "stop_wait"},
         \A d \in Calls \ {c} : calls'[d] = calls[d],
         calls'[c].pc \in StartSteps =>
           /\ active[calls'[c].source] = NoInstance
           /\ calls'[c].pc \in {"start_load", "start_resume", "start_publish"},
         calls'[c].pc = "start_publish" =>
           \A p \in Positions(calls'[c].session) : p < calls'[c].next,
         calls'[c].pc = "stop_forget" =>
           \A i \in Calls : Pumping(i) =>
             instances[i].session # calls'[c].session,
         UNCHANGED <<active, instances, sequences, accepted>>
  PROVE  SerialInv'
<1>1. \A d \in Calls \ {c} :
        /\ calls[d] \in {Idle, Done} /\ calls[d].pc \notin Steps
        /\ calls'[d] = calls[d]
  BY Alone DEF SerialInv
<1>2. \A session : Positions(session)' = Positions(session)
  BY DEF Positions
<1>3. CallInv'
  <2>1. \A d, e \in InProgress' : d = e
    BY <1>1 DEF InProgress
  <2>2. \A d \in Calls : calls'[d].pc \in StartSteps =>
          active'[calls'[d].source] = NoInstance
    BY <1>1 DEF StartSteps, Steps
  <2>3. \A d \in Calls :
          At(d, "start_publish")' /\ sequences'[calls'[d].session] = NoEntry =>
            \A p \in Positions(calls[d].session)' : p < calls'[d].next
    BY <1>1 DEF At, Steps, Positions
  <2>4. \A d \in Calls : ~ At(d, "start_activate")'
    BY <1>1 DEF At, Steps, StartSteps
  <2>5. \A d, i \in Calls : At(d, "stop_forget")' /\ Pumping(i)' =>
          instances'[i].session # calls'[d].session
    BY <1>1 DEF At, Steps, Pumping
  <2> QED BY <2>1, <2>2, <2>3, <2>4, <2>5 DEF CallInv
<1>4. PumpInv'
  BY <1>1 DEF SerialInv, PumpInv, At, Pumping, Steps
<1>5. EntryAhead' /\ PositionsDistinct'
  BY <1>2 DEF SerialInv, EntryAhead, PositionsDistinct
<1> QED BY <1>3, <1>4, <1>5 DEF SerialInv

-----------------------------------------------------------------------------
(* Steps that begin or end something.                                      *)

LEMMA BeginStep ==
  ASSUME TypeOK, SerialInv, MaxConcurrent = 1,
         NEW c \in Calls, NEW source \in Sources, NEW session \in Sessions,
         \/ StartCheck(c, source, session) \/ StopIdle(c, source, session)
         \/ DeleteCheck(c, source, session)
  PROVE  SerialInv'
<1>1. PICK pc \in {"start_read", "stop_read", "delete_read"} :
             Begin(c, pc, source, session)
  BY DEF StartCheck, StopIdle, DeleteCheck
<1>2. /\ active[source] = NoInstance
      /\ UNCHANGED <<active, instances, sequences, accepted>>
  BY DEF StartCheck, StopIdle, DeleteCheck
<1>3. \A d \in Calls : calls[d] \in {Idle, Done} /\ calls[d].pc \notin Steps
  BY <1>1, BeginsAlone DEF Begin
<1>4. /\ calls'[c].pc = pc /\ calls'[c].source = source
      /\ \A d \in Calls \ {c} : calls'[d] = calls[d]
  BY <1>1 DEF Begin, TypeOK
<1>5. CallInv'
  BY <1>1, <1>2, <1>3, <1>4 DEF CallInv, InProgress, At, Steps, StartSteps
<1>6. PumpInv'
  BY <1>1, <1>2, <1>3, <1>4 DEF SerialInv, PumpInv, At, Pumping, Steps
<1>7. EntryAhead' /\ PositionsDistinct'
  <2>1. \A s \in Sessions : Positions(s)' = Positions(s)
    BY <1>2 DEF Positions
  <2> QED BY <1>2, <2>1 DEF SerialInv, EntryAhead, PositionsDistinct
<1> QED BY <1>5, <1>6, <1>7 DEF SerialInv

\* entry().or_insert(): what is published is ahead of the journal.
LEMMA PublishStep ==
  ASSUME TypeInv, SerialInv, NEW c \in Calls, StartPublish(c)
  PROVE  SerialInv'
<1>1. calls[c].pc = "start_publish" /\ calls[c].pc \in Steps
  BY DEF StartPublish, At, Steps
<1>2. /\ calls[c] \in Call
      /\ \A d \in Calls \ {c} :
           calls[d] \in {Idle, Done} /\ calls[d].pc \notin Steps
  BY <1>1, Alone DEF TypeInv, SerialInv
<1>3. PICK session \in Sessions : session = calls[c].session
  BY <1>2 DEF Call
<1>4. PICK n \in Nat : n = Published(c)
  BY <1>2, <1>3 DEF Published, TypeInv, TypeOK, Call
<1>5. /\ sequences'[session] = n
      /\ \A s \in Sessions \ {session} : sequences'[s] = sequences[s]
      /\ UNCHANGED <<active, instances, accepted>>
  BY <1>3, <1>4 DEF StartPublish, TypeInv, TypeOK
<1>6. /\ calls'[c].pc = "start_activate" /\ calls'[c].session = session
      /\ calls'[c].source = calls[c].source
      /\ \A d \in Calls \ {c} : calls'[d] = calls[d]
  BY <1>2, <1>3 DEF StartPublish, Go, Call, TypeInv, TypeOK
<1>7. \A p \in Positions(session) : p < n
  BY <1>1, <1>3, <1>4 DEF Published, SerialInv, CallInv, EntryAhead, At
<1>8. n # NoEntry
  BY SourceRuntimeAssumption
<1>9. \A s \in Sessions : Positions(s)' = Positions(s)
  BY <1>5 DEF Positions
<1>10. CallInv'
  BY <1>1, <1>2, <1>5, <1>6, <1>8
  DEF SerialInv, CallInv, InProgress, At, Steps, StartSteps
<1>11. PumpInv'
  <2> SUFFICES ASSUME NEW i \in Calls, Pumping(i)
               PROVE  /\ \/ active[instances[i].source] = i
                         \/ At(i, "start_insert")'
                         \/ \E d \in Calls : At(d, "stop_wait")'
                                           /\ calls'[d].instance = i
                      /\ sequences'[instances[i].session] # NoEntry
    BY <1>5 DEF PumpInv, Pumping
  <2>1. instances[i].session \in Sessions
    BY DEF TypeInv, TypeOK, Pumping, Instance
  <2>2. sequences'[instances[i].session] # NoEntry
    BY <1>5, <1>8, <2>1 DEF SerialInv, PumpInv
  <2> QED BY <1>1, <1>2, <1>6, <2>2 DEF SerialInv, PumpInv, At, Steps
<1>12. EntryAhead' /\ PositionsDistinct'
  BY <1>5, <1>7, <1>9 DEF SerialInv, EntryAhead, PositionsDistinct
<1> QED BY <1>10, <1>11, <1>12 DEF SerialInv

LEMMA ActivateStep ==
  ASSUME TypeInv, SerialInv, NEW c \in Calls, StartActivate(c)
  PROVE  SerialInv'
<1>1. calls[c].pc = "start_activate" /\ calls[c].pc \in Steps
  BY DEF StartActivate, At, Steps
<1>2. /\ calls[c] \in Call
      /\ \A d \in Calls \ {c} :
           calls[d] \in {Idle, Done} /\ calls[d].pc \notin Steps
  BY <1>1, Alone DEF TypeInv, SerialInv
<1>3. /\ instances'[c] = Spawned(c)
      /\ \A i \in Calls \ {c} : instances'[i] = instances[i]
      /\ UNCHANGED <<active, sequences, accepted>>
  BY DEF StartActivate, TypeInv, TypeOK
<1>4. /\ calls'[c].pc = "start_insert" /\ calls'[c].source = calls[c].source
      /\ \A d \in Calls \ {c} : calls'[d] = calls[d]
  BY <1>2 DEF StartActivate, Go, Call, TypeInv, TypeOK
<1>5. sequences[calls[c].session] # NoEntry
  BY <1>1 DEF SerialInv, CallInv, At
<1>6. CallInv'
  BY <1>1, <1>2, <1>3, <1>4
  DEF SerialInv, CallInv, InProgress, At, Steps, StartSteps
<1>7. PumpInv'
  BY <1>1, <1>2, <1>3, <1>4, <1>5
  DEF SerialInv, PumpInv, At, Pumping, Steps, Spawned
<1>8. EntryAhead' /\ PositionsDistinct'
  BY <1>3 DEF SerialInv, EntryAhead, PositionsDistinct, Positions
<1> QED BY <1>6, <1>7, <1>8 DEF SerialInv

\* Nothing was in `active' for the source, so nothing is replaced.
LEMMA InsertStep ==
  ASSUME TypeInv, ListenersInv, SerialInv, NEW c \in Calls, StartInsert(c)
  PROVE  SerialInv'
<1>1. calls[c].pc = "start_insert" /\ calls[c].pc \in Steps
  BY DEF StartInsert, At, Steps
<1>2. /\ calls[c] \in Call
      /\ \A d \in Calls \ {c} :
           calls[d] \in {Idle, Done} /\ calls[d].pc \notin Steps
  BY <1>1, Alone DEF TypeInv, SerialInv
<1>3. PICK source \in Sources : source = calls[c].source
  BY <1>2 DEF Call
<1>4. active[source] = NoInstance
  BY <1>1, <1>3 DEF SerialInv, CallInv, StartSteps
<1>5. \A i \in Calls : instances'[i] = instances[i]
  BY <1>3, <1>4, SourceRuntimeAssumption DEF StartInsert, Replaced
<1>6. /\ active'[source] = c
      /\ \A other \in Sources \ {source} : active'[other] = active[other]
      /\ UNCHANGED <<sequences, accepted>>
  BY <1>3 DEF StartInsert, TypeInv, TypeOK
<1>7. /\ calls'[c] = Done
      /\ \A d \in Calls \ {c} : calls'[d] = calls[d]
  BY DEF StartInsert, Return, TypeInv, TypeOK
<1>8. instances[c].source = source
  BY <1>1, <1>3 DEF ListenersInv, Owned, At
<1>9. CallInv'
  BY <1>2, <1>7 DEF CallInv, InProgress, At, Steps, StartSteps, Done
<1>10. PumpInv'
  <2> SUFFICES ASSUME NEW i \in Calls, Pumping(i)
               PROVE  /\ active'[instances[i].source] = i
                      /\ sequences[instances[i].session] # NoEntry
    BY <1>5, <1>6 DEF PumpInv, Pumping
  <2>1. instances[i].source \in Sources
    BY DEF TypeInv, TypeOK, Pumping, Instance
  <2>2. CASE i = c
    BY <1>6, <1>8, <2>2 DEF SerialInv, PumpInv
  <2>3. CASE i # c
    <3>1. ~ At(i, "start_insert") /\ \A d \in Calls : ~ At(d, "stop_wait")
      BY <1>1, <1>2, <2>3 DEF At, Steps
    <3>2. active[instances[i].source] = i
      BY <3>1 DEF SerialInv, PumpInv
    <3> QED BY <1>4, <1>6, <2>1, <3>2, SourceRuntimeAssumption
            DEF SerialInv, PumpInv
  <2> QED BY <2>2, <2>3
<1>11. EntryAhead' /\ PositionsDistinct'
  BY <1>6 DEF SerialInv, EntryAhead, PositionsDistinct, Positions
<1> QED BY <1>9, <1>10, <1>11 DEF SerialInv

LEMMA TakeStep ==
  ASSUME TypeInv, ListenersInv, SerialInv, MaxConcurrent = 1,
         NEW c \in Calls, NEW source \in Sources, StopTake(c, source)
  PROVE  SerialInv'
<1>1. \A d \in Calls : calls[d] \in {Idle, Done} /\ calls[d].pc \notin Steps
  BY BeginsAlone DEF StopTake
<1>2. PICK taken \in Calls : taken = active[source]
  BY DEF StopTake, TypeInv, TypeOK
<1>3. /\ active'[source] = NoInstance
      /\ \A other \in Sources \ {source} : active'[other] = active[other]
      /\ UNCHANGED <<sequences, accepted>>
  BY DEF StopTake, TypeInv, TypeOK
<1>4. /\ calls'[c].pc = "stop_wait" /\ calls'[c].instance = taken
      /\ \A d \in Calls \ {c} : calls'[d] = calls[d]
  BY <1>2 DEF StopTake, TypeInv, TypeOK
<1>5. \A i \in Calls : Pumping(i)' =>
        /\ Pumping(i)
        /\ instances'[i].source = instances[i].source
        /\ instances'[i].session = instances[i].session
  <2>1. ASSUME NEW x \in Instance
        PROVE  /\ [x EXCEPT !.stop = TRUE].source = x.source
               /\ [x EXCEPT !.stop = TRUE].session = x.session
               /\ [x EXCEPT !.stop = TRUE].phase = x.phase
    BY DEF Instance
  <2>2. taken # NoInstance
    BY SourceRuntimeAssumption
  <2>3. instances[taken] \in Instance
    BY <1>2, <2>2 DEF ListenersInv, Owned
  <2>4. instances'[taken] = [instances[taken] EXCEPT !.stop = TRUE]
    BY <1>2 DEF StopTake, Signalled, TypeInv, TypeOK
  <2>5. \A i \in Calls \ {taken} : instances'[i] = instances[i]
    BY <1>2 DEF StopTake, Signalled, TypeInv, TypeOK
  <2>6. ASSUME Pumping(taken)'
        PROVE  /\ Pumping(taken) \/ instances[taken] = NoInstance
               /\ instances'[taken].source = instances[taken].source
               /\ instances'[taken].session = instances[taken].session
    BY <2>1, <2>3, <2>4, <2>6 DEF Pumping
  <2>7. instances[taken] # NoInstance
    BY <2>3, NoInstanceAssumption
  <2> QED BY <2>5, <2>6, <2>7 DEF Pumping
<1>6. CallInv'
  BY <1>1, <1>4 DEF CallInv, InProgress, At, Steps, StartSteps
<1>7. PumpInv'
  <2> SUFFICES ASSUME NEW i \in Calls, Pumping(i)'
               PROVE  /\ \/ active'[instances[i].source] = i
                         \/ calls'[c].instance = i
                      /\ sequences[instances[i].session] # NoEntry
    BY <1>3, <1>4, <1>5 DEF PumpInv, At
  <2>1. Pumping(i) /\ instances[i].source \in Sources
    BY <1>5 DEF TypeInv, TypeOK, Pumping, Instance
  <2>2. active[instances[i].source] = i
    BY <1>1, <2>1 DEF SerialInv, PumpInv, At, Steps
  <2> QED BY <1>2, <1>3, <1>4, <2>1, <2>2 DEF SerialInv, PumpInv
<1>8. EntryAhead' /\ PositionsDistinct'
  BY <1>3 DEF SerialInv, EntryAhead, PositionsDistinct, Positions
<1> QED BY <1>6, <1>7, <1>8 DEF SerialInv

\* The awaited instance has ended: it cannot submit any more.
LEMMA WaitedStep ==
  ASSUME TypeInv, SerialInv, NEW c \in Calls, StopWaited(c)
  PROVE  SerialInv'
<1>1. calls[c].pc = "stop_wait" /\ calls[c].pc \in Steps
  BY DEF StopWaited, At, Steps
<1>2. /\ calls[c] \in Call
      /\ \A d \in Calls \ {c} :
           calls[d] \in {Idle, Done} /\ calls[d].pc \notin Steps
  BY <1>1, Alone DEF TypeInv, SerialInv
<1>3. /\ calls'[c].pc = "stop_count"
      /\ \A d \in Calls \ {c} : calls'[d] = calls[d]
      /\ UNCHANGED <<active, instances, sequences, accepted>>
  BY <1>2 DEF StopWaited, Go, Call, TypeInv, TypeOK
<1>4. ~ Pumping(calls[c].instance)
  BY DEF StopWaited, Pumping
<1>5. CallInv'
  BY <1>1, <1>2, <1>3 DEF CallInv, InProgress, At, Steps, StartSteps
<1>6. PumpInv'
  BY <1>1, <1>2, <1>3, <1>4 DEF SerialInv, PumpInv, At, Pumping, Steps
<1>7. EntryAhead' /\ PositionsDistinct'
  BY <1>3 DEF SerialInv, EntryAhead, PositionsDistinct, Positions
<1> QED BY <1>5, <1>6, <1>7 DEF SerialInv

\* global_sequences.remove: no instance of the session is left.
LEMMA ForgetStep ==
  ASSUME TypeInv, SerialInv, NEW c \in Calls, StopForget(c)
  PROVE  SerialInv'
<1>1. calls[c].pc = "stop_forget" /\ calls[c].pc \in Steps
  BY DEF StopForget, At, Steps
<1>2. /\ calls[c] \in Call
      /\ \A d \in Calls \ {c} :
           calls[d] \in {Idle, Done} /\ calls[d].pc \notin Steps
  BY <1>1, Alone DEF TypeInv, SerialInv
<1>3. PICK session \in Sessions : session = calls[c].session
  BY <1>2 DEF Call
<1>4. /\ calls'[c].pc = "stop_read"
      /\ \A d \in Calls \ {c} : calls'[d] = calls[d]
      /\ UNCHANGED <<active, instances, accepted>>
  BY <1>2 DEF StopForget, Go, Call, TypeInv, TypeOK
<1>5. /\ sequences'[session] = NoEntry
      /\ \A s \in Sessions \ {session} : sequences'[s] = sequences[s]
  BY <1>3 DEF StopForget, TypeInv, TypeOK
<1>6. \A i \in Calls : Pumping(i) =>
        instances[i].session \in Sessions \ {session}
  <2>1. \A i \in Calls : Pumping(i) => instances[i].session \in Sessions
    BY DEF TypeInv, TypeOK, Pumping, Instance
  <2> QED BY <1>1, <1>3, <2>1 DEF SerialInv, CallInv, At
<1>7. CallInv'
  BY <1>1, <1>2, <1>4 DEF CallInv, InProgress, At, Steps, StartSteps
<1>8. PumpInv'
  BY <1>1, <1>2, <1>4, <1>5, <1>6 DEF SerialInv, PumpInv, At, Pumping, Steps
<1>9. EntryAhead' /\ PositionsDistinct'
  BY <1>4, <1>5 DEF SerialInv, EntryAhead, PositionsDistinct, Positions
<1> QED BY <1>7, <1>8, <1>9 DEF SerialInv

-----------------------------------------------------------------------------
(* The tasks of an instance.                                               *)

LEMMA PhaseSerial ==
  ASSUME TypeInv, SerialInv, NEW i \in Calls,
         PhaseStep(i)
  PROVE  SerialInv'
<1>1. PICK phase \in {"running", "deaf", "draining", "ended"} :
             instances' = [instances EXCEPT ![i].phase = phase]
  BY PhaseMoves DEF TypeInv
<1>2. /\ instances[i] \in Instance /\ Pumping(i)
      /\ UNCHANGED <<active, sequences, accepted, calls>>
  BY PhaseMoves DEF TypeInv
<1>3. /\ instances'[i].source = instances[i].source
      /\ instances'[i].session = instances[i].session
      /\ \A j \in Calls \ {i} : instances'[j] = instances[j]
  BY <1>1, <1>2 DEF Instance, TypeInv, TypeOK
<1>4. \A j \in Calls : Pumping(j)' =>
        /\ Pumping(j)
        /\ instances'[j].source = instances[j].source
        /\ instances'[j].session = instances[j].session
  BY <1>2, <1>3 DEF Pumping
<1>5. CallInv'
  BY <1>2, <1>4 DEF SerialInv, CallInv, InProgress, At, Positions
<1>6. PumpInv'
  BY <1>2, <1>4 DEF SerialInv, PumpInv, At
<1>7. EntryAhead' /\ PositionsDistinct'
  BY <1>2 DEF SerialInv, EntryAhead, PositionsDistinct, Positions
<1> QED BY <1>5, <1>6, <1>7 DEF SerialInv

\* A refused submission leaves the entry as it is.
LEMMA RefusedStep ==
  ASSUME TypeInv, SerialInv, NEW i \in Calls, PumpRefused(i)
  PROVE  SerialInv'
<1>1. instances[i].session \in Sessions
  BY DEF PumpRefused, TypeInv, TypeOK, Pumping, Instance
<1>2. sequences[instances[i].session] # NoEntry
  BY DEF PumpRefused, SerialInv, PumpInv
<1>3. sequences' = sequences
  BY <1>1, <1>2 DEF PumpRefused, Position, TypeInv, TypeOK
<1> QED BY <1>3, QuietStep DEF PumpRefused

\* The pump takes the entry of its session, which is ahead of the journal.
LEMMA AcceptedStep ==
  ASSUME TypeInv, SerialInv, NEW i \in Calls, PumpAccepted(i)
  PROVE  SerialInv'
<1>1. PICK session \in Sessions : session = instances[i].session
  BY DEF PumpAccepted, TypeInv, TypeOK, Pumping, Instance
<1>2. sequences[session] # NoEntry /\ sequences[session] \in Nat
  BY <1>1 DEF PumpAccepted, SerialInv, PumpInv, TypeInv, TypeOK
<1>3. PICK p \in Nat : p = sequences[session]
  BY <1>2
<1>4. Position(i) = p
  BY <1>1, <1>2, <1>3 DEF Position
<1>5. /\ sequences'[session] = p + 1
      /\ \A s \in Sessions \ {session} : sequences'[s] = sequences[s]
      /\ UNCHANGED <<active, instances, calls>>
  BY <1>1, <1>4 DEF PumpAccepted, Advanced, TypeInv, TypeOK
<1>6. /\ accepted'[session] = Append(accepted[session], p)
      /\ \A s \in Sessions \ {session} : accepted'[s] = accepted[s]
      /\ accepted[session] \in Seq(Nat)
  BY <1>1, <1>4 DEF PumpAccepted, TypeInv, TypeOK
<1>7. \A q \in Positions(session) : q \in Nat /\ q < p
  BY <1>2, <1>3 DEF SerialInv, EntryAhead, Positions, TypeInv, TypeOK
<1>8. PICK n \in Nat : n = Len(accepted[session])
  BY <1>6
<1>9. /\ DOMAIN accepted[session] = 1 .. n
      /\ DOMAIN accepted'[session] = 1 .. n + 1
      /\ \A k \in 1 .. n : accepted'[session][k] = accepted[session][k]
      /\ accepted'[session][n + 1] = p
  BY <1>6, <1>8
<1>10. \A k \in 1 .. n : accepted[session][k] \in Positions(session)
  BY <1>9 DEF Positions
<1>11. n + 1 # NoEntry /\ p + 1 # NoEntry
  BY SourceRuntimeAssumption
<1>12. CallInv'
  <2>1. \A s \in Sessions \ {session} : Positions(s)' = Positions(s)
    BY <1>6 DEF Positions
  <2>2. \A c \in Calls : At(c, "start_publish") => calls[c].session \in Sessions
    BY CallType DEF At, Call, Steps, TypeInv
  <2>3. \A c \in Calls : At(c, "start_activate") => calls[c].session \in Sessions
    BY CallType DEF At, Call, Steps, TypeInv
  <2>4. ASSUME NEW c \in Calls, At(c, "start_publish"),
               sequences'[calls[c].session] = NoEntry
        PROVE  \A q \in Positions(calls[c].session)' : q < calls[c].next
    <3>1. PICK s \in Sessions : s = calls[c].session
      BY <2>2, <2>4
    <3>2. s # session /\ sequences[s] = NoEntry
      BY <1>5, <1>11, <2>4, <3>1
    <3>3. \A q \in Positions(s) : q < calls[c].next
      BY <2>4, <3>1, <3>2 DEF SerialInv, CallInv
    <3>4. Positions(s)' = Positions(calls[c].session)'
      BY <1>5, <3>1 DEF Positions
    <3> QED BY <2>1, <3>2, <3>3, <3>4
  <2>5. \A c \in Calls : At(c, "start_activate") =>
          sequences'[calls[c].session] # NoEntry
    BY <1>5, <1>11, <2>3 DEF SerialInv, CallInv
  <2> QED
    BY <1>5, <2>4, <2>5 DEF SerialInv, CallInv, InProgress, At, Pumping
<1>13. PumpInv'
  <2>1. \A j \in Calls : Pumping(j) => instances[j].session \in Sessions
    BY DEF TypeInv, TypeOK, Pumping, Instance
  <2> QED BY <1>5, <1>11, <2>1 DEF SerialInv, PumpInv, At, Pumping
<1>14. EntryAhead'
  <2> SUFFICES ASSUME NEW s \in Sessions, sequences'[s] # NoEntry,
                      NEW k \in DOMAIN accepted'[s]
               PROVE  accepted'[s][k] < sequences'[s]
    BY DEF EntryAhead, Positions
  <2>1. CASE s # session
    BY <1>5, <1>6, <2>1 DEF SerialInv, EntryAhead, Positions
  <2>2. CASE s = session /\ k = n + 1
    BY <1>5, <1>9, <2>2
  <2>3. CASE s = session /\ k # n + 1
    <3>1. k \in 1 .. n
      BY <1>9, <2>3
    <3>2. accepted'[s][k] \in Nat /\ accepted'[s][k] < p
      BY <1>7, <1>9, <1>10, <2>3, <3>1
    <3> QED BY <1>5, <2>3, <3>2
  <2> QED BY <2>1, <2>2, <2>3
<1>15. PositionsDistinct'
  <2> SUFFICES ASSUME NEW s \in Sessions, NEW j \in DOMAIN accepted'[s],
                      NEW k \in DOMAIN accepted'[s],
                      accepted'[s][j] = accepted'[s][k]
               PROVE  j = k
    BY DEF PositionsDistinct
  <2>1. CASE s # session
    BY <1>6, <2>1 DEF SerialInv, PositionsDistinct
  <2>2. CASE s = session
    <3>1. j \in 1 .. n + 1 /\ k \in 1 .. n + 1
      BY <1>9, <2>2
    <3>2. CASE j \in 1 .. n /\ k \in 1 .. n
      BY <1>9, <2>2, <3>2 DEF SerialInv, PositionsDistinct
    <3>3. CASE j = n + 1 \/ k = n + 1
      BY <1>7, <1>9, <1>10, <2>2, <3>1, <3>3
    <3> QED BY <3>1, <3>2, <3>3
  <2> QED BY <2>1, <2>2
<1> QED BY <1>12, <1>13, <1>14, <1>15 DEF SerialInv

\* A process that starts again has no calls, no instances and no entries.
LEMMA RestartStep ==
  ASSUME TypeInv, SerialInv, Restart
  PROVE  SerialInv'
<1>1. \A c \in Calls : calls'[c].pc \notin Steps /\ calls'[c] \in {Idle, Done}
  BY DEF Restart, InProgress, Idle, Done, Steps, TypeInv, TypeOK
<1>2. \A i \in Calls : ~ Pumping(i)'
  <2> SUFFICES ASSUME NEW i \in Calls, instances'[i] # NoInstance
               PROVE  instances'[i].phase = "ended"
    BY DEF Pumping
  <2>1. instances[i] \in Instance
    BY DEF Restart, TypeInv, TypeOK
  <2> QED BY <2>1 DEF Restart, Instance
<1>3. \A session \in Sessions : sequences'[session] = NoEntry
  BY DEF Restart
<1>4. CallInv'
  BY <1>1, <1>2 DEF CallInv, InProgress, At, Steps, StartSteps
<1>5. PumpInv' /\ EntryAhead'
  BY <1>2, <1>3 DEF PumpInv, EntryAhead
<1>6. PositionsDistinct'
  BY DEF Restart, SerialInv, PositionsDistinct
<1> QED BY <1>4, <1>5, <1>6 DEF SerialInv

-----------------------------------------------------------------------------
\* What resumable_session answers is ahead of the journal.
LEMMA NextIsAhead ==
  ASSUME TypeInv, NEW session \in Sessions
  PROVE  \A p \in Positions(session) : p < NextSourceSequence(session)
<1>1. Positions(session) \subseteq Nat
  BY DEF TypeInv, TypeOK, Positions
<1>2. CASE Positions(session) = {}
  BY <1>2
<1>3. CASE Positions(session) # {}
  <2>1. \E p \in Positions(session) : \A q \in Positions(session) : q <= p
    BY <1>3 DEF TypeInv, LargestKnown
  <2> DEFINE last == CHOOSE p \in Positions(session) :
                       \A q \in Positions(session) : q <= p
  <2>2. last \in Positions(session) /\ \A q \in Positions(session) : q <= last
    BY <2>1
  <2>3. NextSourceSequence(session) = 1 + last
    BY <1>3 DEF NextSourceSequence
  <2> HIDE DEF last
  <2> QED BY <1>1, <2>2, <2>3
<1> QED BY <1>2, <1>3

\* A start before it publishes.
LEMMA StartMoves ==
  ASSUME TypeInv, SerialInv, NEW c \in Calls,
         StartRead(c) \/ StartLoad(c) \/ StartResume(c)
  PROVE  SerialInv'
<1>1. /\ calls[c].pc \in {"start_read", "start_load", "start_resume"}
      /\ UNCHANGED <<active, instances, sequences, accepted>>
  BY DEF StartRead, StartLoad, StartResume, At
<1>2. calls[c].pc \in Steps /\ calls[c].pc \in StartSteps
  BY <1>1 DEF Steps, StartSteps
<1>3. TypeOK /\ calls[c] \in Call
  BY <1>2, CallType DEF TypeInv
<1>4. active[calls[c].source] = NoInstance
  BY <1>2 DEF SerialInv, CallInv
<1>5. /\ calls'[c].source = calls[c].source
      /\ calls'[c].session = calls[c].session
      /\ calls'[c].pc \in {"start_load", "start_resume", "start_publish"}
      /\ \A d \in Calls \ {c} : calls'[d] = calls[d]
  BY <1>3 DEF StartRead, StartLoad, StartResume, Go, Call, TypeOK
<1>6. calls'[c].pc = "start_publish" =>
        calls'[c].next = NextSourceSequence(calls[c].session)
  BY <1>3 DEF StartRead, StartLoad, StartResume, Go, Call, TypeOK
<1>7. \A p \in Positions(calls[c].session) :
        p < NextSourceSequence(calls[c].session)
  BY <1>3, NextIsAhead DEF Call
<1> QED BY <1>1, <1>2, <1>3, <1>4, <1>5, <1>6, <1>7, CallStep

\* A stop that finds no other source of its session in `active' finds no
\* instance that could still submit to it.
LEMMA CountStep ==
  ASSUME TypeInv, SerialInv, NEW c \in Calls, StopCount(c)
  PROVE  SerialInv'
<1>1. calls[c].pc = "stop_count" /\ calls[c].pc \in Steps
  BY DEF StopCount, At, Steps
<1>2. /\ TypeOK /\ calls[c] \in Call
      /\ \A d \in Calls \ {c} : calls[d].pc \notin Steps
  BY <1>1, Alone DEF TypeInv, SerialInv
<1>3. /\ calls'[c].pc = IF SessionStillActive(calls[c].session)
                        THEN "stop_read" ELSE "stop_forget"
      /\ calls'[c].session = calls[c].session
      /\ \A d \in Calls \ {c} : calls'[d] = calls[d]
      /\ UNCHANGED <<active, instances, sequences, accepted>>
  BY <1>2 DEF StopCount, Go, Call, TypeOK
<1>4. ASSUME NEW i \in Calls, Pumping(i),
             instances[i].session = calls[c].session
      PROVE  SessionStillActive(calls[c].session)
  <2>1. instances[i].source \in Sources
    BY <1>2, <1>4 DEF TypeOK, Pumping, Instance
  <2>2. ~ At(i, "start_insert") /\ \A d \in Calls : ~ At(d, "stop_wait")
    BY <1>1, <1>2 DEF At, Steps
  <2>3. active[instances[i].source] = i
    BY <1>4, <2>2 DEF SerialInv, PumpInv
  <2> QED BY <1>4, <2>1, <2>3, SourceRuntimeAssumption DEF SessionStillActive
<1>5. calls'[c].pc \notin StartSteps /\ calls'[c].pc # "start_publish"
  BY <1>3 DEF StartSteps
<1>6. calls'[c].pc = "stop_forget" =>
        \A i \in Calls : Pumping(i) => instances[i].session # calls'[c].session
  BY <1>3, <1>4
<1> QED BY <1>1, <1>2, <1>3, <1>5, <1>6, CallStep

\* Steps by which a stop or a delete goes on, or any call returns.
LEMMA OtherMoves ==
  ASSUME TypeInv, SerialInv, NEW c \in Calls,
         \/ StartFail(c) \/ StopRead(c) \/ StopPause(c)
         \/ DeleteRead(c) \/ DeletePurge(c) \/ DeleteRemove(c) \/ DeleteFail(c)
  PROVE  SerialInv'
<1>1. /\ calls[c].pc \in Steps \ {"start_insert", "stop_wait"}
      /\ UNCHANGED <<active, instances, sequences, accepted>>
  BY DEF StartFail, StopRead, StopPause, DeleteRead, DeletePurge, DeleteRemove,
         DeleteFail, At, Steps
<1>2. TypeOK /\ calls[c] \in Call
  BY <1>1, CallType DEF TypeInv
<1>3. /\ calls'[c].pc \in {"done", "stop_pause", "delete_purge",
                           "delete_remove"}
      /\ \A d \in Calls \ {c} : calls'[d] = calls[d]
  <2>1. CASE Return(c)
    BY <1>2, <2>1 DEF Return, Done, TypeOK
  <2>2. CASE StopRead(c)
    BY <1>2, <2>2 DEF StopRead, Return, Done, Call, TypeOK
  <2>3. CASE DeleteRead(c)
    BY <1>2, <2>3 DEF DeleteRead, Call, TypeOK
  <2>4. CASE DeletePurge(c)
    BY <1>2, <2>4 DEF DeletePurge, Go, Call, TypeOK
  <2>5. CASE StartFail(c) \/ StopPause(c) \/ DeleteRemove(c) \/ DeleteFail(c)
    BY <2>1, <2>5 DEF StartFail, StopPause, DeleteRemove, DeleteFail
  <2> QED BY <2>2, <2>3, <2>4, <2>5
<1>4. /\ calls'[c].pc \notin StartSteps /\ calls'[c].pc # "start_publish"
      /\ calls'[c].pc # "stop_forget"
  BY <1>3 DEF StartSteps
<1> QED BY <1>1, <1>2, <1>3, <1>4, CallStep

LEMMA SerialStep ==
  ASSUME TypeInv, ListenersInv, SerialInv, MaxConcurrent = 1, [Next]_vars
  PROVE  SerialInv'
<1>1. ASSUME NEW c \in Calls, NEW source \in Sources, NEW session \in Sessions,
             \/ StartCheck(c, source, session) \/ StopIdle(c, source, session)
             \/ DeleteCheck(c, source, session)
      PROVE  SerialInv'
  BY <1>1, BeginStep DEF TypeInv
<1>2. ASSUME NEW c \in Calls, NEW source \in Sources, StopTake(c, source)
      PROVE  SerialInv'
  BY <1>2, TakeStep
<1>3. ASSUME NEW c \in Calls, Step(c)
      PROVE  SerialInv'
  <2>1. CASE StartRead(c) \/ StartLoad(c) \/ StartResume(c)
    BY <2>1, StartMoves
  <2>2. CASE StartPublish(c)
    BY <2>2, PublishStep
  <2>3. CASE StartActivate(c)
    BY <2>3, ActivateStep
  <2>4. CASE StartInsert(c)
    BY <2>4, InsertStep
  <2>5. CASE StopWaited(c)
    BY <2>5, WaitedStep
  <2>6. CASE StopCount(c)
    BY <2>6, CountStep
  <2>7. CASE StopForget(c)
    BY <2>7, ForgetStep
  <2>8. CASE \/ StartFail(c) \/ StopRead(c) \/ StopPause(c)
             \/ DeleteRead(c) \/ DeletePurge(c) \/ DeleteRemove(c)
             \/ DeleteFail(c)
    BY <2>8, OtherMoves
  <2> QED
    BY <1>3, <2>1, <2>2, <2>3, <2>4, <2>5, <2>6, <2>7, <2>8 DEF Step
<1>4. ASSUME NEW c \in Calls, StartRefresh(c) \/ ConnectorRefresh(c)
      PROVE  SerialInv'
  BY <1>4, QuietStep DEF StartRefresh, ConnectorRefresh
<1>5. ASSUME NEW i \in Calls,
             PhaseStep(i)
      PROVE  SerialInv'
  BY <1>5, PhaseSerial
<1>6. ASSUME NEW i \in Calls, PumpAccepted(i) \/ PumpRefused(i)
      PROVE  SerialInv'
  BY <1>6, AcceptedStep, RefusedStep
<1>7. ASSUME NEW source \in Sources, Update(source)
      PROVE  SerialInv'
  BY <1>7, QuietStep DEF Update
<1>8. CASE Restart
  BY <1>8, RestartStep
<1>9. CASE UNCHANGED vars
  BY <1>9, QuietStep DEF vars
<1> QED
  BY <1>1, <1>2, <1>3, <1>4, <1>5, <1>6, <1>7, <1>8, <1>9 DEF Next, PhaseStep

LEMMA SerialInit == Init => SerialInv
<1> SUFFICES ASSUME Init
             PROVE  SerialInv
  OBVIOUS
<1>1. CallInv
  BY DEF Init, CallInv, InProgress, At, Idle, StartSteps
<1>2. PumpInv
  BY DEF Init, PumpInv, Pumping
<1>3. EntryAhead /\ PositionsDistinct
  BY DEF Init, EntryAhead, PositionsDistinct
<1> QED BY <1>1, <1>2, <1>3 DEF SerialInv

LEMMA SerialInvariant ==
  ASSUME MaxConcurrent = 1
  PROVE  Spec => []SerialInv
<1>1. TypeInv /\ ListenersInv /\ SerialInv /\ [Next]_vars => SerialInv'
  BY SerialStep
<1> QED BY RuntimeInvariant, SerialInit, <1>1, PTL DEF Spec

\* When the callers of the runtime wait for each call before the next, no two
\* messages of a session are accepted at one position, however many sources
\* pump into the session, stop, fail and start again around a restart: the
\* or_insert of a start and the remove of a stop never let an entry fall back.
THEOREM SerialPositions ==
  ASSUME MaxConcurrent = 1
  PROVE  Spec => []PositionsDistinct
<1>1. SerialInv => PositionsDistinct
  BY DEF SerialInv
<1> QED BY SerialInvariant, <1>1, PTL

\* Under the same condition an entry of global_sequences is ahead of every
\* position the journal holds, so that the next submission is not refused as a
\* position the journal already has.
THEOREM SerialEntries ==
  ASSUME MaxConcurrent = 1
  PROVE  Spec => []EntryAhead
<1>1. SerialInv => EntryAhead
  BY DEF SerialInv
<1> QED BY SerialInvariant, <1>1, PTL

-----------------------------------------------------------------------------
(* What the store says of a source, and what is left of a deleted one.     *)

\* The source of a call in progress is out of `active'; a start found a row; a
\* delete that is about to remove the row has purged the credential.
CallsQuiet ==
  \A c \in Calls :
    /\ calls[c].pc \in Steps => active[calls[c].source] = NoInstance
    /\ calls[c].pc \in StartSteps \ {"start_read"} => Row(c) # NoRow
    /\ At(c, "delete_remove") => calls[c].source \notin vault

\* An instance that may submit has a row, and the row is active.
PumpsMarked ==
  \A i \in Calls : Pumping(i) =>
    /\ rows[instances[i].source] # NoRow
    /\ rows[instances[i].source].desired = "active"

DeletedPurged == \A source \in Sources : rows[source] = NoRow => source \notin vault

QuietInv == CallsQuiet /\ PumpsMarked /\ DeletedPurged

\* The source of a call that waits for nothing has nothing that may submit.
LEMMA Unheard ==
  ASSUME TypeInv, SerialInv, QuietInv, NEW c \in Calls,
         calls[c].pc \in Steps \ {"start_insert", "stop_wait"}
  PROVE  \A i \in Calls : Pumping(i) => instances[i].source # calls[c].source
<1> SUFFICES ASSUME NEW i \in Calls, Pumping(i), instances[i].source = calls[c].source
             PROVE  FALSE
  OBVIOUS
<1>1. \A d \in Calls \ {c} : calls[d].pc \notin Steps
  BY Alone DEF TypeInv, SerialInv
<1>2. ~ At(i, "start_insert") /\ \A d \in Calls : ~ At(d, "stop_wait")
  BY <1>1 DEF At, Steps
<1>3. active[instances[i].source] = i
  BY <1>2 DEF SerialInv, PumpInv
<1> QED BY <1>3, SourceRuntimeAssumption DEF QuietInv, CallsQuiet

\* A step by which the call in progress moves on or returns, and at most purges.
LEMMA QuietCall ==
  ASSUME TypeInv, SerialInv, QuietInv, NEW c \in Calls, calls[c].pc \in Steps,
         \A d \in Calls \ {c} : calls'[d] = calls[d],
         calls'[c].pc \in Steps => calls'[c].source = calls[c].source,
         calls'[c].pc \in StartSteps \ {"start_read"} => Row(c) # NoRow,
         calls'[c].pc = "delete_remove" => calls[c].source \notin vault',
         vault' \subseteq vault, UNCHANGED <<rows, active, instances>>
  PROVE  QuietInv'
<1>1. \A d \in Calls \ {c} : calls'[d] = calls[d] /\ calls'[d].pc \notin Steps
  BY Alone DEF TypeInv, SerialInv
<1>2. StartSteps \subseteq Steps /\ "delete_remove" \in Steps
  BY DEF StartSteps, Steps
<1>3. CallsQuiet'
  BY <1>1, <1>2 DEF QuietInv, CallsQuiet, At, Row
<1>4. PumpsMarked' /\ DeletedPurged'
  BY DEF QuietInv, PumpsMarked, Pumping, DeletedPurged
<1> QED BY <1>3, <1>4 DEF QuietInv

LEMMA StartQuiet ==
  ASSUME TypeInv, SerialInv, QuietInv, NEW c \in Calls,
         \/ StartRead(c) \/ StartLoad(c) \/ StartResume(c) \/ StartPublish(c)
         \/ StartFail(c)
  PROVE  QuietInv'
<1>1. calls[c].pc \in Steps /\ UNCHANGED <<rows, vault, active, instances>>
  BY DEF StartRead, StartLoad, StartResume, StartPublish, StartFail, At, Steps
<1>2. TypeOK /\ calls[c] \in Call
  BY <1>1, CallType DEF TypeInv
<1>3. CASE StartRead(c) \/ StartLoad(c) \/ StartResume(c) \/ StartPublish(c)
  <2>1. /\ calls'[c].source = calls[c].source
        /\ calls'[c].pc # "delete_remove"
        /\ \A d \in Calls \ {c} : calls'[d] = calls[d]
    BY <1>2, <1>3 DEF StartRead, StartLoad, StartResume, StartPublish, Go, Call, TypeOK
  <2>2. Row(c) # NoRow
    BY <1>3 DEF StartRead, StartLoad, StartResume, StartPublish, At, StartSteps,
                QuietInv, CallsQuiet
  <2> QED BY <1>1, <2>1, <2>2, QuietCall
<1>4. CASE StartFail(c)
  <2>1. calls'[c] = Done /\ \A d \in Calls \ {c} : calls'[d] = calls[d]
    BY <1>2, <1>4 DEF StartFail, Return, TypeOK
  <2>2. Done.pc \notin Steps /\ Done.pc \notin StartSteps /\ Done.pc # "delete_remove"
    BY DEF Done, Steps, StartSteps
  <2> QED BY <1>1, <2>1, <2>2, QuietCall
<1> QED BY <1>3, <1>4

LEMMA StopQuiet ==
  ASSUME TypeInv, SerialInv, QuietInv, NEW c \in Calls,
         StopWaited(c) \/ StopCount(c) \/ StopForget(c) \/ StopRead(c)
  PROVE  QuietInv'
<1>1. calls[c].pc \in Steps /\ UNCHANGED <<rows, vault, active, instances>>
  BY DEF StopWaited, StopCount, StopForget, StopRead, At, Steps
<1>2. TypeOK /\ calls[c] \in Call
  BY <1>1, CallType DEF TypeInv
<1>3. /\ calls'[c].pc \in Steps => calls'[c].source = calls[c].source
      /\ calls'[c].pc \in {"stop_count", "stop_forget", "stop_read", "stop_pause", "done"}
      /\ \A d \in Calls \ {c} : calls'[d] = calls[d]
  <2>1. CASE StopWaited(c) \/ StopForget(c)
    BY <1>2, <2>1 DEF StopWaited, StopForget, Go, Call, TypeOK
  <2>2. CASE StopCount(c)
    BY <1>2, <2>2 DEF StopCount, Go, Call, TypeOK
  <2>3. CASE StopRead(c)
    BY <1>2, <2>3 DEF StopRead, Return, Done, Call, Steps, TypeOK
  <2> QED BY <2>1, <2>2, <2>3
<1>4. calls'[c].pc \notin StartSteps /\ calls'[c].pc # "delete_remove"
  BY <1>3 DEF StartSteps
<1> QED BY <1>1, <1>3, <1>4, QuietCall

LEMMA DeleteQuiet ==
  ASSUME TypeInv, SerialInv, QuietInv, NEW c \in Calls,
         DeleteRead(c) \/ DeletePurge(c) \/ DeleteFail(c)
  PROVE  QuietInv'
<1>1. calls[c].pc \in Steps /\ vault' \subseteq vault /\ UNCHANGED <<rows, active, instances>>
  BY DEF DeleteRead, DeletePurge, DeleteFail, At, Steps, Purged
<1>2. TypeOK /\ calls[c] \in Call
  BY <1>1, CallType DEF TypeInv
<1>3. /\ calls'[c].pc \in Steps => calls'[c].source = calls[c].source
      /\ calls'[c].pc \in {"delete_purge", "delete_remove", "done"}
      /\ \A d \in Calls \ {c} : calls'[d] = calls[d]
      /\ calls'[c].pc = "delete_remove" => calls[c].source \notin vault'
  <2>1. CASE DeleteRead(c)
    BY <1>2, <2>1 DEF DeleteRead, Call, TypeOK
  <2>2. CASE DeletePurge(c)
    BY <1>2, <2>2 DEF DeletePurge, Purged, Go, Call, TypeOK
  <2>3. CASE DeleteFail(c)
    BY <1>2, <2>3 DEF DeleteFail, Return, Done, Steps, TypeOK
  <2> QED BY <2>1, <2>2, <2>3
<1>4. calls'[c].pc \notin StartSteps
  BY <1>3 DEF StartSteps
<1> QED BY <1>1, <1>3, <1>4, QuietCall

LEMMA BeginQuiet ==
  ASSUME TypeInv, QuietInv, MaxConcurrent = 1,
         NEW c \in Calls, NEW source \in Sources, NEW session \in Sessions,
         \/ StartCheck(c, source, session) \/ StopIdle(c, source, session)
         \/ DeleteCheck(c, source, session)
  PROVE  QuietInv'
<1>1. PICK pc \in {"start_read", "stop_read", "delete_read"} :
             Begin(c, pc, source, session)
  BY DEF StartCheck, StopIdle, DeleteCheck
<1>2. /\ active[source] = NoInstance
      /\ UNCHANGED <<rows, vault, active, instances>>
  BY DEF StartCheck, StopIdle, DeleteCheck
<1>3. \A d \in Calls : calls[d].pc \notin Steps
  BY <1>1, BeginsAlone DEF Begin
<1>4. /\ calls'[c].pc = pc /\ calls'[c].source = source
      /\ \A d \in Calls \ {c} : calls'[d] = calls[d]
  BY <1>1 DEF Begin, TypeInv, TypeOK
<1>5. CallsQuiet'
  BY <1>2, <1>3, <1>4 DEF CallsQuiet, At, Steps, StartSteps
<1>6. PumpsMarked' /\ DeletedPurged'
  BY <1>2 DEF QuietInv, PumpsMarked, Pumping, DeletedPurged
<1> QED BY <1>5, <1>6 DEF QuietInv

\* The instance a start spawns has a row that is active.
LEMMA ActivateQuiet ==
  ASSUME TypeInv, SerialInv, QuietInv, NEW c \in Calls, StartActivate(c)
  PROVE  QuietInv'
<1>1. calls[c].pc = "start_activate" /\ calls[c].pc \in Steps
  BY DEF StartActivate, At, Steps
<1>2. /\ calls[c] \in Call
      /\ \A d \in Calls \ {c} : calls[d].pc \notin Steps
  BY <1>1, Alone DEF TypeInv, SerialInv
<1>3. PICK source \in Sources : source = calls[c].source
  BY <1>2 DEF Call
<1>4. PICK row \in SetDesiredState(Row(c), calls[c].revision, "active") :
             rows' = [rows EXCEPT ![calls[c].source] = row]
  BY DEF StartActivate
<1>5. row # NoRow /\ row.desired = "active"
  <2>1. Row(c) \in SourceRow \cup {NoRow}
    BY <1>3 DEF Row, TypeInv, TypeOK
  <2>2. row \in SourceRow
    BY <2>1, <1>4, RowType
  <2> QED BY <1>4, <2>2, NoRowAssumption DEF SetDesiredState
<1>6. rows'[source] = row /\ \A s \in Sources \ {source} : rows'[s] = rows[s]
  BY <1>3, <1>4 DEF TypeInv, TypeOK
<1>7. /\ instances'[c] = Spawned(c)
      /\ \A i \in Calls \ {c} : instances'[i] = instances[i]
      /\ UNCHANGED <<vault, active>>
  BY DEF StartActivate, TypeInv, TypeOK
<1>8. /\ calls'[c].pc = "start_insert" /\ calls'[c].source = source
      /\ \A d \in Calls \ {c} : calls'[d] = calls[d]
  BY <1>2, <1>3 DEF StartActivate, Go, Call, TypeInv, TypeOK
<1>9. CallsQuiet'
  BY <1>1, <1>2, <1>3, <1>5, <1>6, <1>7, <1>8
  DEF QuietInv, CallsQuiet, At, Row, Steps, StartSteps
<1>10. PumpsMarked'
  <2> SUFFICES ASSUME NEW i \in Calls, Pumping(i)'
               PROVE  /\ rows'[instances'[i].source] # NoRow
                      /\ rows'[instances'[i].source].desired = "active"
    BY DEF PumpsMarked
  <2>1. CASE i = c
    BY <1>3, <1>5, <1>6, <1>7, <2>1 DEF Spawned
  <2>2. CASE i # c
    <3>1. Pumping(i) /\ instances'[i] = instances[i] /\ instances[i].source \in Sources
      BY <1>7, <2>2 DEF Pumping, TypeInv, TypeOK, Instance
    <3> QED BY <1>5, <1>6, <3>1 DEF QuietInv, PumpsMarked
  <2> QED BY <2>1, <2>2
<1>11. DeletedPurged'
  BY <1>5, <1>6, <1>7 DEF QuietInv, DeletedPurged
<1> QED BY <1>9, <1>10, <1>11 DEF QuietInv

LEMMA InsertQuiet ==
  ASSUME TypeInv, SerialInv, QuietInv, NEW c \in Calls, StartInsert(c)
  PROVE  QuietInv'
<1>1. calls[c].pc \in Steps
  BY DEF StartInsert, At, Steps
<1>2. /\ calls[c] \in Call
      /\ \A d \in Calls \ {c} : calls[d].pc \notin Steps
  BY <1>1, Alone DEF TypeInv, SerialInv
<1>3. calls[c].source \in Sources /\ active[calls[c].source] = NoInstance
  BY <1>1, <1>2 DEF Call, QuietInv, CallsQuiet
<1>4. \A i \in Calls : instances'[i] = instances[i]
  BY <1>3, SourceRuntimeAssumption DEF StartInsert, Replaced
<1>5. \A d \in Calls : calls'[d].pc \notin Steps
  <2>1. calls'[c] = Done /\ \A d \in Calls \ {c} : calls'[d] = calls[d]
    BY DEF StartInsert, Return, TypeInv, TypeOK
  <2> QED BY <1>2, <2>1 DEF Done, Steps
<1>6. CallsQuiet'
  BY <1>5 DEF CallsQuiet, At, Steps, StartSteps
<1>7. PumpsMarked' /\ DeletedPurged'
  BY <1>4 DEF StartInsert, QuietInv, PumpsMarked, Pumping, DeletedPurged
<1> QED BY <1>6, <1>7 DEF QuietInv

\* The row that a stop pauses, or a delete removes, is that of a source of which
\* nothing is left that may submit.
LEMMA WriteQuiet ==
  ASSUME TypeInv, SerialInv, QuietInv, NEW c \in Calls, StopPause(c) \/ DeleteRemove(c)
  PROVE  QuietInv'
<1>1. calls[c].pc \in Steps \ {"start_insert", "stop_wait"}
  BY DEF StopPause, DeleteRemove, At, Steps
<1>2. /\ calls[c] \in Call
      /\ \A d \in Calls \ {c} : calls[d].pc \notin Steps
  BY <1>1, Alone DEF TypeInv, SerialInv
<1>3. PICK source \in Sources : source = calls[c].source
  BY <1>2 DEF Call
<1>4. /\ \A s \in Sources \ {source} : rows'[s] = rows[s]
      /\ rows'[source] = NoRow => rows[source] = NoRow \/ DeleteRemove(c)
      /\ UNCHANGED <<vault, active, instances>>
  <2>1. Row(c) = rows[source] /\ rows[source] \in SourceRow \cup {NoRow}
    BY <1>3 DEF Row, TypeInv, TypeOK
  <2>2. CASE StopPause(c)
    <3>1. PICK row \in SetDesiredState(Row(c), calls[c].revision, "paused") \cup {Row(c)} :
                 rows' = [rows EXCEPT ![source] = row]
      BY <1>3, <2>2 DEF StopPause
    <3>2. row # NoRow \/ row = rows[source]
      BY <2>1, <3>1, RowType, NoRowAssumption
    <3> QED BY <2>2, <3>1, <3>2 DEF StopPause, TypeInv, TypeOK
  <2>3. CASE DeleteRemove(c)
    BY <1>3, <2>3 DEF DeleteRemove, TypeInv, TypeOK
  <2> QED BY <2>2, <2>3
<1>5. \A d \in Calls : calls'[d].pc \notin Steps
  <2>1. calls'[c] = Done /\ \A d \in Calls \ {c} : calls'[d] = calls[d]
    BY DEF StopPause, DeleteRemove, Return, TypeInv, TypeOK
  <2> QED BY <1>2, <2>1 DEF Done, Steps
<1>6. CallsQuiet'
  BY <1>5 DEF CallsQuiet, At, Steps, StartSteps
<1>7. PumpsMarked'
  <2> SUFFICES ASSUME NEW i \in Calls, Pumping(i)
               PROVE  /\ rows'[instances[i].source] # NoRow
                      /\ rows'[instances[i].source].desired = "active"
    BY <1>4 DEF PumpsMarked, Pumping
  <2>1. instances[i].source \in Sources \ {source}
    BY <1>1, <1>3, Unheard DEF Pumping, TypeInv, TypeOK, Instance
  <2> QED BY <1>4, <2>1 DEF QuietInv, PumpsMarked
<1>8. DeletedPurged'
  <2>1. DeleteRemove(c) => source \notin vault
    BY <1>3 DEF DeleteRemove, QuietInv, CallsQuiet
  <2> QED BY <1>4, <2>1 DEF QuietInv, DeletedPurged
<1> QED BY <1>6, <1>7, <1>8 DEF QuietInv

LEMMA TakeQuiet ==
  ASSUME TypeInv, ListenersInv, QuietInv, MaxConcurrent = 1,
         NEW c \in Calls, NEW source \in Sources, StopTake(c, source)
  PROVE  QuietInv'
<1>1. \A d \in Calls : calls[d].pc \notin Steps
  BY BeginsAlone DEF StopTake
<1>2. /\ active'[source] = NoInstance /\ UNCHANGED <<rows, vault>>
      /\ calls'[c].pc = "stop_wait" /\ calls'[c].source = source
      /\ \A d \in Calls \ {c} : calls'[d] = calls[d]
  BY DEF StopTake, TypeInv, TypeOK
<1>3. PICK taken \in Calls : taken = active[source]
  BY DEF StopTake, TypeInv, TypeOK
<1>4. \A i \in Calls : Pumping(i)' => Pumping(i) /\ instances'[i].source = instances[i].source
  <2>1. ASSUME NEW x \in Instance
        PROVE  /\ [x EXCEPT !.stop = TRUE].source = x.source
               /\ [x EXCEPT !.stop = TRUE].phase = x.phase
    BY DEF Instance
  <2>2. instances[taken] \in Instance /\ instances[taken] # NoInstance
    BY <1>3, SourceRuntimeAssumption, NoInstanceAssumption DEF ListenersInv, Owned
  <2>3. /\ instances'[taken] = [instances[taken] EXCEPT !.stop = TRUE]
        /\ \A i \in Calls \ {taken} : instances'[i] = instances[i]
    BY <1>3 DEF StopTake, Signalled, TypeInv, TypeOK
  <2>4. /\ instances'[taken].source = instances[taken].source
        /\ instances'[taken].phase = instances[taken].phase
    BY <2>1, <2>2, <2>3
  <2>5. Pumping(taken)' => Pumping(taken)
    BY <2>2, <2>4 DEF Pumping
  <2> QED BY <2>3, <2>4, <2>5 DEF Pumping
<1>5. CallsQuiet'
  BY <1>1, <1>2 DEF CallsQuiet, At, Steps, StartSteps
<1>6. PumpsMarked' /\ DeletedPurged'
  BY <1>2, <1>4 DEF QuietInv, PumpsMarked, DeletedPurged
<1> QED BY <1>5, <1>6 DEF QuietInv

\* A credential that is refreshed is that of a source that has a row.
LEMMA RefreshQuiet ==
  ASSUME TypeInv, SerialInv, QuietInv, NEW c \in Calls, StartRefresh(c) \/ ConnectorRefresh(c)
  PROVE  QuietInv'
<1>1. UNCHANGED <<rows, active, instances, calls>>
  BY DEF StartRefresh, ConnectorRefresh
<1>2. PICK source : /\ vault' = vault \cup {source} /\ rows[source] # NoRow
                    /\ \A d \in Calls : At(d, "delete_remove") => calls[d].source # source
  <2>1. CASE StartRefresh(c)
    <3>1. calls[c].pc = "start_resume" /\ calls[c].pc \in Steps
      BY <2>1 DEF StartRefresh, At, Steps
    <3>2. \A d \in Calls : ~ At(d, "delete_remove")
      BY <3>1, Alone DEF TypeInv, SerialInv, At, Steps
    <3>3. rows[calls[c].source] # NoRow
      BY <3>1 DEF QuietInv, CallsQuiet, StartSteps, Row
    <3> QED BY <2>1, <3>2, <3>3 DEF StartRefresh
  <2>2. CASE ConnectorRefresh(c)
    <3>1. Pumping(c) /\ vault' = vault \cup {instances[c].source}
      BY <2>2 DEF ConnectorRefresh, Listening, Pumping
    <3>2. rows[instances[c].source] # NoRow
      BY <3>1 DEF QuietInv, PumpsMarked
    <3>3. \A d \in Calls : At(d, "delete_remove") => calls[d].source # instances[c].source
      BY <3>1, Unheard DEF At, Steps
    <3> QED BY <3>1, <3>2, <3>3
  <2> QED BY <2>1, <2>2
<1>3. CallsQuiet'
  BY <1>1, <1>2 DEF QuietInv, CallsQuiet, At, Row
<1>4. PumpsMarked' /\ DeletedPurged'
  BY <1>1, <1>2 DEF QuietInv, PumpsMarked, Pumping, DeletedPurged
<1> QED BY <1>3, <1>4 DEF QuietInv

LEMMA PhaseQuiet ==
  ASSUME TypeInv, QuietInv, NEW i \in Calls,
         PhaseStep(i)
  PROVE  QuietInv'
<1>1. PICK phase \in {"running", "deaf", "draining", "ended"} :
             instances' = [instances EXCEPT ![i].phase = phase]
  BY PhaseMoves DEF TypeInv
<1>2. /\ instances[i] \in Instance /\ Pumping(i)
      /\ UNCHANGED <<rows, vault, active, calls>>
  BY PhaseMoves DEF TypeInv
<1>3. /\ instances'[i].source = instances[i].source
      /\ \A j \in Calls \ {i} : instances'[j] = instances[j]
  BY <1>1, <1>2 DEF Instance, TypeInv, TypeOK
<1>4. \A j \in Calls : Pumping(j)' => Pumping(j) /\ instances'[j].source = instances[j].source
  BY <1>2, <1>3 DEF Pumping
<1>5. CallsQuiet' /\ DeletedPurged'
  BY <1>2 DEF QuietInv, CallsQuiet, At, Row, DeletedPurged
<1>6. PumpsMarked'
  BY <1>2, <1>4 DEF QuietInv, PumpsMarked
<1> QED BY <1>5, <1>6 DEF QuietInv

\* An update keeps the state of a row.
LEMMA UpdateQuiet ==
  ASSUME TypeInv, QuietInv, NEW source \in Sources, Update(source)
  PROVE  QuietInv'
<1>1. PICK row \in UpdateRow(rows[source], rows[source].revision) :
             rows' = [rows EXCEPT ![source] = row]
  BY DEF Update
<1>2. rows[source] # NoRow /\ rows[source] \in SourceRow
      /\ UNCHANGED <<vault, active, instances, calls>>
  BY DEF Update, TypeInv, TypeOK
<1>3. row = [rows[source] EXCEPT !.revision = @ + 1]
  BY <1>1, <1>2 DEF UpdateRow, Current
<1>4. row \in SourceRow /\ row.desired = rows[source].desired
  BY <1>2, <1>3 DEF SourceRow
<1>5. row # NoRow
  BY <1>4, NoRowAssumption
<1>6. rows'[source] = row /\ \A s \in Sources \ {source} : rows'[s] = rows[s]
  BY <1>1 DEF TypeInv, TypeOK
<1>7. \A s \in Sources : /\ rows'[s] = NoRow <=> rows[s] = NoRow
                         /\ rows'[s] # NoRow => rows'[s].desired = rows[s].desired
  BY <1>2, <1>4, <1>5, <1>6
<1>8. CallsQuiet'
  <2>1. StartSteps \subseteq Steps
    BY DEF StartSteps, Steps
  <2>2. \A c \in Calls : calls[c].pc \in Steps => calls[c].source \in Sources
    BY CallType DEF TypeInv, Call
  <2> QED BY <1>2, <1>7, <2>1, <2>2 DEF QuietInv, CallsQuiet, At, Row
<1>9. PumpsMarked'
  <2>1. \A i \in Calls : Pumping(i) => instances[i].source \in Sources
    BY DEF Pumping, TypeInv, TypeOK, Instance
  <2> QED BY <1>2, <1>7, <2>1 DEF QuietInv, PumpsMarked, Pumping
<1>10. DeletedPurged'
  BY <1>2, <1>7 DEF QuietInv, DeletedPurged
<1> QED BY <1>8, <1>9, <1>10 DEF QuietInv

\* A process that starts again keeps the rows that there are.
LEMMA RestartQuiet ==
  ASSUME TypeInv, QuietInv, Restart
  PROVE  QuietInv'
<1>1. \A c \in Calls : calls'[c].pc \notin Steps
  BY DEF Restart, InProgress, Idle, Done, Steps, TypeInv, TypeOK
<1>2. \A i \in Calls : ~ Pumping(i)'
  <2> SUFFICES ASSUME NEW i \in Calls, instances'[i] # NoInstance
               PROVE  instances'[i].phase = "ended"
    BY DEF Pumping
  <2>1. instances[i] \in Instance
    BY DEF Restart, TypeInv, TypeOK
  <2> QED BY <2>1 DEF Restart, Instance
<1>3. \A source \in Sources : rows'[source] = NoRow => rows[source] = NoRow
  <2> SUFFICES ASSUME NEW source \in Sources, rows[source] # NoRow
               PROVE  Reopened(rows[source]) # NoRow
    BY DEF Restart
  <2>1. PICK row \in SourceRow : row = rows[source]
    BY DEF TypeInv, TypeOK
  <2>2. CASE row.desired = "active"
    <3> DEFINE after == SetDesiredState(row, row.revision, "paused")
    <3>1. after # {}
      BY <2>1, <2>2, NoRowAssumption DEF SetDesiredState, Current
    <3>2. \A next \in after : next \in SourceRow
      BY RowType
    <3>3. (CHOOSE next \in after : TRUE) \in after
      BY <3>1
    <3>4. Reopened(row) = CHOOSE next \in after : TRUE
      BY <2>1, <2>2 DEF Reopened
    <3> HIDE DEF after
    <3> QED BY <2>1, <3>2, <3>3, <3>4, NoRowAssumption
  <2>3. CASE row.desired # "active"
    BY <2>1, <2>3 DEF Reopened
  <2> QED BY <2>2, <2>3
<1>4. CallsQuiet'
  BY <1>1 DEF CallsQuiet, At, Steps, StartSteps
<1>5. PumpsMarked' /\ DeletedPurged'
  BY <1>2, <1>3 DEF Restart, QuietInv, PumpsMarked, DeletedPurged
<1> QED BY <1>4, <1>5 DEF QuietInv

LEMMA QuietNext ==
  ASSUME TypeInv, ListenersInv, SerialInv, QuietInv, MaxConcurrent = 1, [Next]_vars
  PROVE  QuietInv'
<1>1. ASSUME NEW c \in Calls, NEW source \in Sources, NEW session \in Sessions,
             \/ StartCheck(c, source, session) \/ StopIdle(c, source, session)
             \/ DeleteCheck(c, source, session)
      PROVE  QuietInv'
  BY <1>1, BeginQuiet
<1>2. ASSUME NEW c \in Calls, NEW source \in Sources, StopTake(c, source)
      PROVE  QuietInv'
  BY <1>2, TakeQuiet
<1>3. ASSUME NEW c \in Calls, Step(c)
      PROVE  QuietInv'
  BY <1>3, StartQuiet, StopQuiet, DeleteQuiet, ActivateQuiet, InsertQuiet, WriteQuiet DEF Step
<1>4. ASSUME NEW c \in Calls, StartRefresh(c) \/ ConnectorRefresh(c)
      PROVE  QuietInv'
  BY <1>4, RefreshQuiet
<1>5. ASSUME NEW i \in Calls,
             PhaseStep(i)
      PROVE  QuietInv'
  BY <1>5, PhaseQuiet
<1>6. ASSUME UNCHANGED <<rows, vault, active, instances, calls>>
      PROVE  QuietInv'
  BY <1>6 DEF QuietInv, CallsQuiet, PumpsMarked, DeletedPurged, At, Row, Pumping
<1>7. ASSUME NEW i \in Calls, PumpAccepted(i) \/ PumpRefused(i)
      PROVE  QuietInv'
  BY <1>6, <1>7 DEF PumpAccepted, PumpRefused
<1>8. ASSUME NEW source \in Sources, Update(source)
      PROVE  QuietInv'
  BY <1>8, UpdateQuiet
<1>9. CASE Restart
  BY <1>9, RestartQuiet
<1>10. CASE UNCHANGED vars
  BY <1>6, <1>10 DEF vars
<1> QED
  BY <1>1, <1>2, <1>3, <1>4, <1>5, <1>7, <1>8, <1>9, <1>10 DEF Next, PhaseStep

LEMMA QuietInit == Init => QuietInv
<1> SUFFICES ASSUME Init
             PROVE  QuietInv
  OBVIOUS
<1>1. CallsQuiet
  BY DEF Init, CallsQuiet, At, Idle, Steps, StartSteps
<1>2. PumpsMarked
  BY DEF Init, PumpsMarked, Pumping
<1>3. DeletedPurged
  <2>1. [desired |-> "paused", revision |-> 2] \in SourceRow
    BY DEF SourceRow
  <2> QED BY <2>1, NoRowAssumption DEF Init, DeletedPurged
<1> QED BY <1>1, <1>2, <1>3 DEF QuietInv

LEMMA QuietInvariant ==
  ASSUME MaxConcurrent = 1
  PROVE  Spec => [](TypeInv /\ QuietInv)
<1>1. TypeInv /\ ListenersInv /\ SerialInv /\ QuietInv /\ [Next]_vars => QuietInv'
  BY QuietNext
<1> QED BY RuntimeInvariant, SerialInvariant, QuietInit, <1>1, PTL DEF Spec

\* When calls are made one at a time, a source that the store says is paused
\* does not listen once the call has returned: a stop waits for the connector
\* and its pump before it pauses the row, and a start marks the row before it
\* spawns them (stop_source, start_twitch_source).
THEOREM SerialPauses ==
  ASSUME MaxConcurrent = 1
  PROVE  Spec => []PausedIsSilent
<1>1. QuietInv => PausedIsSilent
  BY DEF QuietInv, PumpsMarked, PausedIsSilent, Listening, Pumping
<1> QED BY QuietInvariant, <1>1, PTL

\* Under the same condition nothing remains of a source that was deleted: no
\* credential, which a refresh could put back, and no listener (delete_source).
THEOREM SerialDeletes ==
  ASSUME MaxConcurrent = 1
  PROVE  Spec => []DeletedLeavesNothing
<1>1. TypeInv /\ QuietInv => DeletedLeavesNothing
  BY DEF TypeInv, TypeOK, QuietInv, PumpsMarked, DeletedPurged, DeletedLeavesNothing,
         Listening, Pumping
<1> QED BY QuietInvariant, <1>1, PTL
=============================================================================
