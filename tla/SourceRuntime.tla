--------------------------- MODULE SourceRuntime ---------------------------
(***************************************************************************)
(* The runtime of the chat sources (crates/semantic-engine-source-runtime):*)
(* start, stop and delete, called concurrently by the desktop commands and *)
(* the loopback routes, the connector and the pump a start spawns, and the *)
(* positions that pumps give to the messages of a session.                 *)
(*                                                                         *)
(* Every call is a process and every await a step: between two steps any   *)
(* other call, connector or pump may run.  The runtime keeps its map       *)
(* `active' under a lock that a stop holds until the source has ended, its *)
(* map `global_sequences' under a lock that a pump holds while a message   *)
(* is submitted (one step here), and the rows of the store behind a        *)
(* compare-and-set on their revision.  A call is made once; a call that    *)
(* fails without effect is not a step.                                     *)
(*                                                                         *)
(* Sources are created and authorised when the model starts.  What a       *)
(* message says, and the state shown to the operator, are left out.        *)
(***************************************************************************)
EXTENDS SourceStore, Sequences, FiniteSets

CONSTANTS
  Sources,       \* identifiers of sources
  Sessions,      \* identifiers of (active) sessions
  Calls,         \* the calls of start, stop and delete that are made
  NoEntry,       \* a session without an entry in global_sequences
  NoInstance,    \* a source that is not in the map `active'
  MaxConcurrent, \* bound of the model on the calls in progress at a time
  MaxMessages,   \* bound of the model on the messages of one session
  MaxRevision    \* bound of the model on the revisions updates reach

ASSUME SourceRuntimeAssumption ==
  /\ NoEntry \notin Nat
  /\ NoInstance \notin Calls
  /\ IsFiniteSet(Calls)
  /\ MaxConcurrent \in Nat \ {0}
  /\ MaxMessages \in Nat
  /\ MaxRevision \in Nat

VARIABLES
  rows,       \* the rows of input_sources, by source
  vault,      \* the sources whose credential is in the vault of the system
  active,     \* the instance of each source in the map `active'
  instances,  \* the connector and pump each call has spawned
  sequences,  \* global_sequences: the next position, by session
  accepted,   \* the positions of the journal of each session, in its order
  calls       \* where each call is, and its locals

vars == <<rows, vault, active, instances, sequences, accepted, calls>>

-----------------------------------------------------------------------------
\* An instance is running (both tasks), deaf (its connector is in an await that
\* neither sees the shutdown nor has a time limit), draining (the connector has
\* returned, the pump empties the queue) or ended.  `stop': its shutdown was
\* signalled.
Instance == [source : Sources, session : Sessions, stop : BOOLEAN,
             phase : {"running", "deaf", "draining", "ended"}]

ASSUME NoInstanceAssumption == NoInstance \notin Instance

Idle == [pc |-> "idle"]
Done == [pc |-> "done"]

Steps == {"start_read", "start_load", "start_resume", "start_publish",
          "start_activate", "start_insert",
          "stop_wait", "stop_count", "stop_forget", "stop_read", "stop_pause",
          "delete_read", "delete_purge", "delete_remove"}

\* revision is the row's as read; next the position read from the journal;
\* instance the one that a stop waits for.
Call == [pc : Steps, source : Sources, session : Sessions, revision : Nat,
         next : Nat, instance : Calls \cup {NoInstance}]

TypeOK ==
  /\ rows \in [Sources -> SourceRow \cup {NoRow}]
  /\ vault \subseteq Sources
  /\ active \in [Sources -> Calls \cup {NoInstance}]
  /\ instances \in [Calls -> Instance \cup {NoInstance}]
  /\ sequences \in [Sessions -> Nat \cup {NoEntry}]
  /\ accepted \in [Sessions -> Seq(Nat)]
  /\ calls \in [Calls -> Call \cup {Idle, Done}]

-----------------------------------------------------------------------------
InProgress == {c \in Calls : calls[c] \notin {Idle, Done}}

\* The lock of `active' is held exactly by a stop that waits.
ActiveUnlocked == \A c \in Calls : calls[c].pc # "stop_wait"

Begin(c, pc, source, session) ==
  /\ calls[c] = Idle
  /\ Cardinality(InProgress) < MaxConcurrent
  /\ calls' = [calls EXCEPT ![c] =
       [pc |-> pc, source |-> source, session |-> session, revision |-> 0,
        next |-> 0, instance |-> NoInstance]]

At(c, pc) == calls[c].pc = pc

Go(c, pc) == calls' = [calls EXCEPT ![c].pc = pc]

Return(c) == calls' = [calls EXCEPT ![c] = Done]

Row(c) == rows[calls[c].source]

\* The messages of an instance that still listens, or has some to pump.
Listening(i) ==
  instances[i] # NoInstance /\ instances[i].phase \in {"running", "deaf"}
Pumping(i) == instances[i] # NoInstance /\ instances[i].phase # "ended"

\* resumable_session: one more than the largest position of the journal.
Positions(session) ==
  {accepted[session][k] : k \in DOMAIN accepted[session]}

NextSourceSequence(session) ==
  IF Positions(session) = {} THEN 0
  ELSE 1 + CHOOSE p \in Positions(session) : \A q \in Positions(session) : q <= p

Init ==
  \* created at revision 1, authorised at revision 2
  /\ rows = [source \in Sources |-> [desired |-> "paused", revision |-> 2]]
  /\ vault = Sources
  /\ active = [source \in Sources |-> NoInstance]
  /\ instances = [i \in Calls |-> NoInstance]
  /\ sequences = [session \in Sessions |-> NoEntry]
  /\ accepted = [session \in Sessions |-> << >>]
  /\ calls = [c \in Calls |-> Idle]

-----------------------------------------------------------------------------
(***************************************************************************)
(* start_twitch_source and start_youtube_source.  A source in `active' is  *)
(* answered at once.  Otherwise: read the row, whose revision must be the  *)
(* one expected by the caller; load the credential, refreshing it into the *)
(* vault when it is about to expire; ask the provider; read the journal;   *)
(* publish the next position; switch the row to active and spawn connector *)
(* and pump; enter the instance in `active'.                               *)
(***************************************************************************)
StartCheck(c, source, session) ==
  /\ ActiveUnlocked
  /\ active[source] = NoInstance
  /\ Begin(c, "start_read", source, session)
  /\ UNCHANGED <<rows, vault, active, instances, sequences, accepted>>

\* The caller may expect any revision, so the one it expects is the one read.
StartRead(c) ==
  /\ At(c, "start_read")
  /\ Row(c) # NoRow
  /\ calls' = [calls EXCEPT ![c].pc = "start_load",
                            ![c].revision = Row(c).revision]
  /\ UNCHANGED <<rows, vault, active, instances, sequences, accepted>>

StartLoad(c) ==
  /\ At(c, "start_load")
  /\ calls[c].source \in vault
  /\ Go(c, "start_resume")
  /\ UNCHANGED <<rows, vault, active, instances, sequences, accepted>>

StartRefresh(c) ==
  /\ At(c, "start_resume")
  /\ vault' = vault \cup {calls[c].source}
  /\ UNCHANGED <<rows, active, instances, sequences, accepted, calls>>

StartResume(c) ==
  /\ At(c, "start_resume")
  /\ calls' = [calls EXCEPT ![c].pc = "start_publish",
                            ![c].next = NextSourceSequence(calls[c].session)]
  /\ UNCHANGED <<rows, vault, active, instances, sequences, accepted>>

\* Mutant: the largest position of the journal, and not the next one.
PublishedLast(c) ==
  IF sequences[calls[c].session] = NoEntry THEN calls[c].next - 1
  ELSE sequences[calls[c].session]

\* entry(session).or_insert(next)
Published(c) ==
  IF sequences[calls[c].session] = NoEntry THEN calls[c].next
  ELSE sequences[calls[c].session]

StartPublish(c) ==
  /\ At(c, "start_publish")
  /\ sequences' = [sequences EXCEPT ![calls[c].session] = Published(c)]
  /\ Go(c, "start_activate")
  /\ UNCHANGED <<rows, vault, active, instances, accepted>>

Spawned(c) == [source |-> calls[c].source, session |-> calls[c].session,
               stop |-> FALSE, phase |-> "running"]

StartActivate(c) ==
  /\ At(c, "start_activate")
  /\ \E row \in SetDesiredState(Row(c), calls[c].revision, "active") :
       rows' = [rows EXCEPT ![calls[c].source] = row]
  /\ instances' = [instances EXCEPT ![c] = Spawned(c)]
  /\ Go(c, "start_insert")
  /\ UNCHANGED <<vault, active, sequences, accepted>>

\* Mutant: the instance that was in `active' is not told to stop.
ReplacedSilently(source) == instances

\* The instance that was in `active' is dropped with its shutdown sender,
\* which its connector takes for the signal to stop.
Replaced(source) ==
  [i \in Calls |-> IF i = active[source] THEN [instances[i] EXCEPT !.stop = TRUE]
                   ELSE instances[i]]

StartInsert(c) ==
  /\ At(c, "start_insert")
  /\ ActiveUnlocked
  /\ instances' = Replaced(calls[c].source)
  /\ active' = [active EXCEPT ![calls[c].source] = c]
  /\ Return(c)
  /\ UNCHANGED <<rows, vault, sequences, accepted>>

\* The provider, the vault, the service or the store fails, the revision is
\* not the expected one, or the credential is not there.
StartFail(c) ==
  /\ calls[c].pc \in {"start_read", "start_load", "start_resume",
                       "start_activate"}
  /\ Return(c)
  /\ UNCHANGED <<rows, vault, active, instances, sequences, accepted>>

-----------------------------------------------------------------------------
(***************************************************************************)
(* stop_source.  The source leaves `active', is told to stop and awaited   *)
(* with the lock held; when no other source of its session is active the   *)
(* entry of the session goes; then the row is read and paused.             *)
(***************************************************************************)
\* Mutant: the shutdown is not signalled.
SignalledNot(i) == instances

Signalled(i) == [instances EXCEPT ![i].stop = TRUE]

StopTake(c, source) ==
  LET i == active[source] IN
  /\ ActiveUnlocked
  /\ i # NoInstance
  /\ calls[c] = Idle
  /\ Cardinality(InProgress) < MaxConcurrent
  /\ calls' = [calls EXCEPT ![c] =
       [pc |-> "stop_wait", source |-> source,
        session |-> instances[i].session, revision |-> 0,
        next |-> 0, instance |-> i]]
  /\ instances' = Signalled(i)
  /\ active' = [active EXCEPT ![source] = NoInstance]
  /\ UNCHANGED <<rows, vault, sequences, accepted>>

\* A source that is not in `active' is only paused.  The session is unused.
StopIdle(c, source, session) ==
  /\ ActiveUnlocked
  /\ active[source] = NoInstance
  /\ Begin(c, "stop_read", source, session)
  /\ UNCHANGED <<rows, vault, active, instances, sequences, accepted>>

StopWaited(c) ==
  /\ At(c, "stop_wait")
  /\ instances[calls[c].instance].phase = "ended"
  /\ Go(c, "stop_count")
  /\ UNCHANGED <<rows, vault, active, instances, sequences, accepted>>

SessionStillActive(session) ==
  \E source \in Sources : /\ active[source] # NoInstance
                          /\ instances[active[source]].session = session

StopCount(c) ==
  /\ At(c, "stop_count")
  /\ ActiveUnlocked
  /\ Go(c, IF SessionStillActive(calls[c].session) THEN "stop_read"
           ELSE "stop_forget")
  /\ UNCHANGED <<rows, vault, active, instances, sequences, accepted>>

StopForget(c) ==
  /\ At(c, "stop_forget")
  /\ sequences' = [sequences EXCEPT ![calls[c].session] = NoEntry]
  /\ Go(c, "stop_read")
  /\ UNCHANGED <<rows, vault, active, instances, accepted>>

StopRead(c) ==
  /\ At(c, "stop_read")
  /\ IF Row(c) = NoRow THEN Return(c)
     ELSE calls' = [calls EXCEPT ![c].pc = "stop_pause",
                                 ![c].revision = Row(c).revision]
  /\ UNCHANGED <<rows, vault, active, instances, sequences, accepted>>

\* A conflict, or a store that fails, leaves the row as it is.
StopPause(c) ==
  /\ At(c, "stop_pause")
  /\ \E row \in SetDesiredState(Row(c), calls[c].revision, "paused")
               \cup {Row(c)} :
       rows' = [rows EXCEPT ![calls[c].source] = row]
  /\ Return(c)
  /\ UNCHANGED <<vault, active, instances, sequences, accepted>>

-----------------------------------------------------------------------------
(***************************************************************************)
(* delete_source: not in `active', read as paused; the credential is       *)
(* revoked and purged from the vault first, the row is removed last.       *)
(***************************************************************************)
DeleteCheck(c, source, session) ==
  /\ ActiveUnlocked
  /\ active[source] = NoInstance
  /\ Begin(c, "delete_read", source, session)
  /\ UNCHANGED <<rows, vault, active, instances, sequences, accepted>>

DeleteRead(c) ==
  /\ At(c, "delete_read")
  /\ Row(c) # NoRow
  /\ Row(c).desired = "paused"
  /\ calls' = [calls EXCEPT ![c].pc = "delete_purge",
                            ![c].revision = Row(c).revision]
  /\ UNCHANGED <<rows, vault, active, instances, sequences, accepted>>

\* Mutant: the credential stays in the vault.
PurgedNot(source) == vault

Purged(source) == vault \ {source}

DeletePurge(c) ==
  /\ At(c, "delete_purge")
  /\ vault' = Purged(calls[c].source)
  /\ Go(c, "delete_remove")
  /\ UNCHANGED <<rows, active, instances, sequences, accepted>>

DeleteRemove(c) ==
  /\ At(c, "delete_remove")
  /\ \E row \in RemoveRow(Row(c), calls[c].revision) :
       rows' = [rows EXCEPT ![calls[c].source] = row]
  /\ Return(c)
  /\ UNCHANGED <<vault, active, instances, sequences, accepted>>

\* The row is not as expected, or vault or store fail; what is purged is gone.
DeleteFail(c) ==
  /\ calls[c].pc \in {"delete_read", "delete_purge", "delete_remove"}
  /\ Return(c)
  /\ UNCHANGED <<rows, vault, active, instances, sequences, accepted>>

-----------------------------------------------------------------------------
(***************************************************************************)
(* The tasks of an instance.  The connector refreshes its credential, and  *)
(* returns when told to stop, when it fails or when the live ends; the     *)
(* pump then empties the queue and ends.  (A pump that gives up on a       *)
(* checkpoint closes the queue, which the connector finds at its next      *)
(* event: seen here as the connector failing first.)                       *)
(*                                                                         *)
(* A connector is deaf while it connects its WebSocket, writes a Pong or   *)
(* a Close, or awaits the answer of stream_list: no select with the        *)
(* shutdown, no time limit.  What it waits for may never come.             *)
(***************************************************************************)
ConnectorRefresh(i) ==
  /\ Listening(i)
  /\ vault' = vault \cup {instances[i].source}
  /\ UNCHANGED <<rows, active, instances, sequences, accepted, calls>>

ConnectorDeaf(i) ==
  /\ Listening(i)
  /\ instances[i].phase = "running"
  /\ instances' = [instances EXCEPT ![i].phase = "deaf"]
  /\ UNCHANGED <<rows, vault, active, sequences, accepted, calls>>

ConnectorHears(i) ==
  /\ Listening(i)
  /\ instances[i].phase = "deaf"
  /\ instances' = [instances EXCEPT ![i].phase = "running"]
  /\ UNCHANGED <<rows, vault, active, sequences, accepted, calls>>

ConnectorReturns(i) ==
  /\ instances' = [instances EXCEPT ![i].phase = "draining"]
  /\ UNCHANGED <<rows, vault, active, sequences, accepted, calls>>

ConnectorStops(i) ==
  /\ Listening(i)
  /\ instances[i].phase = "running"
  /\ instances[i].stop
  /\ ConnectorReturns(i)

ConnectorFails(i) == Listening(i) /\ ConnectorReturns(i)

PumpEnds(i) ==
  /\ Pumping(i) /\ ~Listening(i)
  /\ instances' = [instances EXCEPT ![i].phase = "ended"]
  /\ UNCHANGED <<rows, vault, active, sequences, accepted, calls>>

\* pump_source_events, a message: entry(session).or_default() is its position.
Position(i) == IF sequences[instances[i].session] = NoEntry THEN 0
               ELSE sequences[instances[i].session]

\* Mutant: the position is given, and not taken.
NextPosition(position) == position

\* *next_sequence += 1
Advanced(position) == position + 1

PumpAccepted(i) ==
  LET session == instances[i].session IN
  /\ Pumping(i)
  /\ Len(accepted[session]) < MaxMessages
  /\ accepted' = [accepted EXCEPT ![session] = Append(@, Position(i))]
  /\ sequences' = [sequences EXCEPT ![session] = Advanced(Position(i))]
  /\ UNCHANGED <<rows, vault, active, instances, calls>>

\* The service refuses the submission; the position stays free.
PumpRefused(i) ==
  /\ Pumping(i)
  /\ sequences' = [sequences EXCEPT ![instances[i].session] = Position(i)]
  /\ UNCHANGED <<rows, vault, active, instances, accepted, calls>>

-----------------------------------------------------------------------------
\* SourceStore::update, by an authorisation or the selection of a broadcast.
Update(source) ==
  /\ rows[source] # NoRow
  /\ rows[source].revision < MaxRevision
  /\ \E row \in UpdateRow(rows[source], rows[source].revision) :
       rows' = [rows EXCEPT ![source] = row]
  /\ UNCHANGED <<vault, active, instances, sequences, accepted, calls>>

\* Mutant: a source that was listening is still marked as active.
ReopenedAsIs(row) == row

\* SourceRuntime::open pauses every active source.
Reopened(row) ==
  IF row # NoRow /\ row.desired = "active"
  THEN CHOOSE next \in SetDesiredState(row, row.revision, "paused") : TRUE
  ELSE row

\* The process stops, with the calls in progress, and opens its stores again.
Restart ==
  /\ rows' = [source \in Sources |-> Reopened(rows[source])]
  /\ active' = [source \in Sources |-> NoInstance]
  /\ instances' = [i \in Calls |-> IF instances[i] = NoInstance THEN NoInstance
                                   ELSE [instances[i] EXCEPT !.phase = "ended"]]
  /\ sequences' = [session \in Sessions |-> NoEntry]
  /\ calls' = [c \in Calls |-> IF c \in InProgress THEN Done ELSE calls[c]]
  /\ UNCHANGED <<vault, accepted>>

\* The steps that a call takes by itself once it has begun.
Step(c) ==
  \/ StartRead(c) \/ StartLoad(c) \/ StartResume(c) \/ StartPublish(c)
  \/ StartActivate(c) \/ StartInsert(c) \/ StartFail(c)
  \/ StopWaited(c) \/ StopCount(c) \/ StopForget(c) \/ StopRead(c)
  \/ StopPause(c)
  \/ DeleteRead(c) \/ DeletePurge(c) \/ DeleteRemove(c) \/ DeleteFail(c)

Next ==
  \/ \E c \in Calls, source \in Sources, session \in Sessions :
       \/ StartCheck(c, source, session)
       \/ StopIdle(c, source, session)
       \/ DeleteCheck(c, source, session)
  \/ \E c \in Calls, source \in Sources : StopTake(c, source)
  \/ \E c \in Calls : Step(c)
  \/ \E c \in Calls : StartRefresh(c)
  \/ \E i \in Calls : ConnectorRefresh(i)
  \/ \E i \in Calls : ConnectorDeaf(i)
  \/ \E i \in Calls : ConnectorHears(i)
  \/ \E i \in Calls : ConnectorStops(i)
  \/ \E i \in Calls : ConnectorFails(i)
  \/ \E i \in Calls : PumpEnds(i)
  \/ \E i \in Calls : PumpAccepted(i)
  \/ \E i \in Calls : PumpRefused(i)
  \/ \E source \in Sources : Update(source)
  \/ Restart

Spec == Init /\ [][Next]_vars

(***************************************************************************)
(* The runtime schedules every task (tokio): a call that can take a step   *)
(* eventually takes one (its provider and vault calls have time limits, so *)
(* that it fails when they do not answer), and a pump whose queue is       *)
(* closed ends.  A connector told to stop, and back again and again at an  *)
(* await that sees it or has a time limit, eventually returns: strong,     *)
(* since a select may take a frame first.  Nothing makes a deaf connector  *)
(* hear.                                                                   *)
(***************************************************************************)
Fairness ==
  /\ \A c \in Calls : WF_vars(Step(c))
  /\ \A i \in Calls : SF_vars(ConnectorStops(i)) /\ WF_vars(PumpEnds(i))

FairSpec == Spec /\ Fairness

-----------------------------------------------------------------------------
(* Properties.                                                             *)

\* A connector that has not been told to stop is in the reach of stop_source:
\* it is the one in `active', or its start is about to put it there.  Whatever
\* calls overlap, no listener is left that nothing can stop.
NoOrphanListener ==
  \A i \in Calls :
    Listening(i) /\ ~instances[i].stop =>
      active[instances[i].source] = i \/ At(i, "start_insert")

\* A stop waits, with the lock held, for a connector that does not hear it.
StopHangs ==
  \E c \in Calls : /\ At(c, "stop_wait")
                   /\ instances[calls[c].instance].stop
                   /\ instances[calls[c].instance].phase = "deaf"

\* Every call returns, although a stop keeps the lock that every other start,
\* stop and delete needs until its source has ended: the one thing that can
\* hold a call, its own or another's, for ever is a stop whose connector was
\* told to stop and never leaves an await without a time limit.
EveryCallReturns ==
  \A c \in Calls : c \in InProgress ~> (calls[c] = Done \/ []StopHangs)

\* Two accepted messages of a session never have the same position.
PositionsDistinct ==
  \A session \in Sessions : \A j, k \in DOMAIN accepted[session] :
    accepted[session][j] = accepted[session][k] => j = k

\* An entry of global_sequences is ahead of every position of the journal.
EntryAhead ==
  \A session \in Sessions :
    sequences[session] # NoEntry =>
      \A p \in Positions(session) : p < sequences[session]

\* When every call has returned, a source that the store says is paused does
\* not listen: what the operator sees as paused is.
PausedIsSilent ==
  InProgress = {} =>
    \A i \in Calls : Listening(i) =>
      LET row == rows[instances[i].source]
      IN  row # NoRow => row.desired = "active"

\* A source that was deleted has no credential left in the vault, and nothing
\* listens in its name.
DeletedLeavesNothing ==
  \A source \in Sources :
    rows[source] = NoRow =>
      /\ source \notin vault
      /\ \A i \in Calls : instances[i] # NoInstance =>
           ~(Listening(i) /\ instances[i].source = source)
=============================================================================
