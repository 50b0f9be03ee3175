------------------------ MODULE SourceAuthorization ------------------------
(***************************************************************************)
(* How a source comes by its credential, keeps it and loses it: the calls  *)
(* of crates/semantic-engine-source-runtime that create, authorise, test,  *)
(* select and delete, over the source store, the credential vault and the  *)
(* pending authorisations of the two OAuth clients.                        *)
(*                                                                         *)
(* Every call is asynchronous: a step of this module is what it does       *)
(* between two awaits, and calls overlap.  A poll holds the lock of the    *)
(* pending authorisations of its adapter from its first await to its last, *)
(* across the provider, the store and the vault.  SourceRuntime models the *)
(* calls that start and stop a source; here they are one write (Toggle)    *)
(* and the lock of the active sources, which a stop keeps (StopBegins).    *)
(*                                                                         *)
(* The store and the vault are written by workers: when a call is dropped  *)
(* while it waits for one, its locks are free and the worker still runs,   *)
(* at any time after (the steps `late_...', which keep the call's place).  *)
(***************************************************************************)
EXTENDS SourceStore, FiniteSets

CONSTANTS
  Sources, Calls, Videos,
  Twitch, YouTube,   \* the adapters
  Adapter,           \* the adapter of each source
  MaxSources,        \* MAX_SOURCES
  NoVideo, Free,     \* no video selected; a lock nobody holds
  MaxCreated,        \* bound of the model on the sources ever created
  MaxRevision        \* bound of the model: no call begins at this revision

ASSUME SourceAuthorizationAssumption ==
  /\ Twitch # YouTube
  /\ Adapter \in [Sources -> {Twitch, YouTube}]
  /\ NoVideo \notin Videos /\ Free \notin Calls
  /\ MaxSources \in Nat /\ MaxCreated \in Nat /\ MaxRevision \in Nat \ {0}

VARIABLES
  rows,      \* the table input_sources
  linked,    \* sources whose row has a credential_id
  video,     \* the setting video_id of each source
  vault,     \* sources with a credential in the vault
  pending,   \* the authorisation that waits for its user, by source
  lock,      \* who holds the pending authorisations of each adapter
  stopping,  \* a stop holds the lock of the active sources
  calls,     \* where each call is, and its locals
  aux_selected, \* the last video whose selection succeeded
  aux_stray, \* sources left to a late refresh, a failing vault, a drop or a crash
  aux_deleted \* sources that were deleted

vars == <<rows, linked, video, vault, pending, lock, stopping, calls,
          aux_selected, aux_stray, aux_deleted>>

Adapters == {Twitch, YouTube}

Idle == [pc |-> "idle"]

\* "asked" until the user answers; of YouTube the callback then holds a code
\* ("answered") or a refusal ("refused") until a poll takes it ("code",
\* "closed"); "spent" once the provider has given a token for it.
PendingStates == {"none", "asked", "answered", "refused", "code", "closed", "spent"}

Init ==
  /\ rows = [s \in Sources |-> NoRow]
  /\ linked = {} /\ vault = {}
  /\ video = [s \in Sources |-> NoVideo]
  /\ pending = [s \in Sources |-> "none"]
  /\ lock = [a \in Adapters |-> Free] /\ stopping = FALSE
  /\ calls = [c \in Calls |-> Idle]
  /\ aux_selected = [s \in Sources |-> NoVideo]
  /\ aux_stray = {} /\ aux_deleted = {}

-----------------------------------------------------------------------------
At(c, pc) == calls[c].pc = pc

Src(c) == calls[c].source

Goes(c, pc) == calls' = [calls EXCEPT ![c].pc = pc]

\* A call that returns lets go of the lock it holds, by whatever way it leaves.
Released(c) == [a \in Adapters |-> IF lock[a] = c THEN Free ELSE lock[a]]

\* Mutant: a call that holds the lock keeps it.
ReturnsHolding(c) == calls' = [calls EXCEPT ![c] = Idle] /\ lock' = lock

Returns(c) == calls' = [calls EXCEPT ![c] = Idle] /\ lock' = Released(c)

\* Who may begin a call on a source.
MayCall(c, s) == /\ calls[c] = Idle
                 /\ rows[s] # NoRow /\ rows[s].revision < MaxRevision

\* A call on s is at pc; the locals it keeps of what it has read follow.
Call(c, s, pc) == calls' = [calls EXCEPT ![c] = [pc |-> pc, source |-> s]]

CallReading(c, s, pc, link, chosen) ==
  calls' = [calls EXCEPT ![c] =
    [pc |-> pc, source |-> s, revision |-> rows[s].revision,
     linked |-> link, video |-> chosen]]

\* What most steps leave alone: the table, and a stop of some source.
Table == <<rows, linked, video, stopping, aux_selected, aux_deleted>>

-----------------------------------------------------------------------------
Existing == {s \in Sources : rows[s] # NoRow}

HasRoom == Cardinality(Existing) < MaxSources

\* create_twitch_source, create_youtube_source: the identifier is new.
CreateSource(s) ==
  /\ rows[s] = NoRow /\ s \notin aux_deleted /\ HasRoom
  /\ Cardinality(Existing \cup aux_deleted) < MaxCreated
  /\ rows' = [rows EXCEPT ![s] = [desired |-> "paused", revision |-> 1]]
  /\ UNCHANGED <<linked, video, vault, pending, lock, stopping, calls,
                 aux_selected, aux_stray, aux_deleted>>

\* The write of a start, which needs the credential, or of a stop.
Toggle(s, desired) ==
  /\ desired = "active" => s \in linked
  /\ rows[s] # NoRow /\ rows[s].desired # desired /\ rows[s].revision < MaxRevision
  /\ \E row \in SetDesiredState(rows[s], rows[s].revision, desired) :
       rows' = [rows EXCEPT ![s] = row]
  /\ UNCHANGED <<linked, video, vault, pending, lock, stopping, calls,
                 aux_selected, aux_stray, aux_deleted>>

-----------------------------------------------------------------------------
(* begin_twitch_authorization, begin_youtube_authorization.                *)

BeginAuthorization(c, s) ==
  /\ MayCall(c, s)
  /\ Call(c, s, "begun")
  /\ UNCHANGED <<Table, vault, pending, lock, aux_stray>>

\* The provider has answered: the new authorisation replaces an older one.
BeginInsert(c) ==
  /\ At(c, "begun") /\ lock[Adapter[Src(c)]] = Free
  /\ pending' = [pending EXCEPT ![Src(c)] = "asked"]
  /\ Returns(c)
  /\ UNCHANGED <<Table, vault, aux_stray>>

BeginFails(c) ==
  /\ At(c, "begun")
  /\ Returns(c)
  /\ UNCHANGED <<Table, vault, pending, aux_stray>>

\* receive_callback: the browser comes back, with a code or without one.
Callback(s) ==
  /\ Adapter[s] = YouTube /\ pending[s] = "asked"
  /\ \E outcome \in {"answered", "refused"} : pending' = [pending EXCEPT ![s] = outcome]
  /\ UNCHANGED <<Table, vault, lock, calls, aux_stray>>

-----------------------------------------------------------------------------
(* poll_twitch_authorization, poll_youtube_authorization.                  *)

\* Nothing is read of the row before the lock is held.
Poll(c, s) ==
  /\ calls[c] = Idle
  /\ rows[s] # NoRow => rows[s].revision < MaxRevision
  /\ Call(c, s, "waiting")
  /\ UNCHANGED <<Table, vault, pending, lock, aux_stray>>

PollAcquire(c) ==
  /\ At(c, "waiting") /\ lock[Adapter[Src(c)]] = Free
  /\ IF pending[Src(c)] = "none" THEN Returns(c)
     ELSE Goes(c, "polling") /\ lock' = [lock EXCEPT ![Adapter[Src(c)]] = c]
  /\ UNCHANGED <<Table, vault, pending, aux_stray>>

\* poll_authorization has taken the callback: its code is kept, its refusal
\* is given once.
Taken(state) ==
  CASE state = "answered" -> "code" [] state = "refused" -> "closed" [] OTHER -> state

\* Pending, SlowDown, Expired, AccessDenied, a refused code or no answer.
PollUnanswered(c) ==
  /\ At(c, "polling")
  /\ \/ pending' = pending
     \/ pending' = [pending EXCEPT ![Src(c)] = Taken(@)]
  /\ Returns(c)
  /\ UNCHANGED <<Table, vault, aux_stray>>

\* What the provider gives a token for, once.
Grantable(s) == pending[s] \in IF Adapter[s] = Twitch THEN {"asked"} ELSE {"answered", "code"}

PollAuthorized(c) ==
  /\ At(c, "polling") /\ Grantable(Src(c))
  /\ pending' = [pending EXCEPT ![Src(c)] = "spent"]
  /\ Goes(c, "authorized")
  /\ UNCHANGED <<Table, vault, lock, aux_stray>>

\* get_source, and what it read is what the update will write back.
PollRead(c) ==
  /\ At(c, "authorized")
  /\ LET s == Src(c)
     IN  IF rows[s] = NoRow THEN Returns(c)
         ELSE CallReading(c, s, "identifying", TRUE, video[s]) /\ lock' = lock
  /\ UNCHANGED <<Table, vault, pending, aux_stray>>

\* The token belongs to another client, or the identity, the video or the
\* vault fails.
PollRefused(c) ==
  /\ At(c, "identifying")
  /\ Returns(c)
  /\ UNCHANGED <<Table, vault, pending, aux_stray>>

PollStore(c) ==
  /\ At(c, "identifying")
  /\ vault' = vault \cup {Src(c)}
  /\ Goes(c, "stored")
  /\ UNCHANGED <<Table, pending, lock, aux_stray>>

\* update: what the call has read is written back, with the credential.
Links(c) ==
  /\ \E row \in UpdateRow(rows[Src(c)], calls[c].revision) :
       rows' = [rows EXCEPT ![Src(c)] = row]
  /\ linked' = linked \cup {Src(c)}
  /\ video' = [video EXCEPT ![Src(c)] = calls[c].video]
  /\ UNCHANGED <<stopping, aux_selected, aux_deleted>>

PollUpdate(c) ==
  /\ At(c, "stored")
  /\ Links(c)
  /\ pending' = [pending EXCEPT ![Src(c)] = "none"]
  /\ Returns(c)
  /\ UNCHANGED <<vault, aux_stray>>

PollConflict(c) ==
  /\ At(c, "stored")
  /\ UpdateRow(rows[Src(c)], calls[c].revision) = {}
  /\ Call(c, Src(c), "undoing")
  /\ UNCHANGED <<Table, vault, pending, lock, aux_stray>>

\* Mutant: the update fails and its credential stays.
KeepsCredential(c) == vault' = vault /\ aux_stray' = aux_stray

\* The credential that was just stored is deleted, also when it replaced one
\* the row refers to; a vault that fails is not reported.
DropsCredential(c) ==
  \/ vault' = vault \ {Src(c)} /\ aux_stray' = aux_stray
  \/ vault' = vault /\ aux_stray' = aux_stray \cup {Src(c)}

PollUndo(c) ==
  /\ At(c, "undoing")
  /\ DropsCredential(c)
  /\ Returns(c)
  /\ UNCHANGED <<Table, pending>>

-----------------------------------------------------------------------------
(* test_youtube_source, discover_youtube_broadcasts and                    *)
(* select_youtube_broadcast: all go through youtube_credential_and_identity. *)

Test(c, s) ==
  /\ MayCall(c, s) /\ Adapter[s] = YouTube /\ s \in linked
  /\ Call(c, s, "loading")
  /\ UNCHANGED <<Table, vault, pending, lock, aux_stray>>

\* A selection needs the revision the operator saw, and a paused source.
Select(c, s, v) ==
  /\ MayCall(c, s) /\ Adapter[s] = YouTube /\ s \in linked
  /\ rows[s].desired = "paused"
  /\ CallReading(c, s, "loading", TRUE, v)
  /\ UNCHANGED <<Table, vault, pending, lock, aux_stray>>

\* A test keeps nothing of what it has read.
Selects(c) == "video" \in DOMAIN calls[c]

\* The credential is loaded; one that is about to expire is refreshed.
RefreshLoad(c) ==
  /\ At(c, "loading")
  /\ IF Src(c) \notin vault THEN Returns(c)
     ELSE /\ \/ Goes(c, "refreshing")
             \/ Goes(c, "identified")
          /\ lock' = lock
  /\ UNCHANGED <<Table, vault, pending, aux_stray>>

\* A deletion has purged the vault, or has removed the row.
Leaving(s) ==
  \/ rows[s] = NoRow
  \/ \E d \in Calls : (At(d, "purged") \/ At(d, "late_remove")) /\ Src(d) = s

\* A credential is stored, whatever became of its source.
Stores(s) ==
  /\ vault' = vault \cup {s}
  /\ aux_stray' = IF s \in linked /\ ~Leaving(s) THEN aux_stray ELSE aux_stray \cup {s}

RefreshStore(c) ==
  /\ At(c, "refreshing")
  /\ Stores(Src(c))
  /\ Goes(c, "identified")
  /\ UNCHANGED <<Table, pending, lock>>

\* The provider or the vault fails, or the call was only a test.
RefreshReturns(c) ==
  /\ At(c, "refreshing") \/ At(c, "identified")
  /\ Returns(c)
  /\ UNCHANGED <<Table, vault, pending, aux_stray>>

\* The worker of a call that was dropped does the same.
SelectUpdate(c) ==
  /\ (At(c, "identified") /\ Selects(c)) \/ At(c, "late_select")
  /\ LET s == Src(c)
         next == UpdateRow(rows[s], calls[c].revision)
     IN  IF next = {} THEN UNCHANGED <<rows, linked, video, aux_selected>>
         ELSE /\ \E row \in next : rows' = [rows EXCEPT ![s] = row]
              /\ linked' = linked \cup {s}
              /\ video' = [video EXCEPT ![s] = calls[c].video]
              /\ aux_selected' = [aux_selected EXCEPT ![s] = calls[c].video]
  /\ Returns(c)
  /\ UNCHANGED <<vault, pending, stopping, aux_stray, aux_deleted>>

-----------------------------------------------------------------------------
(* delete_source.                                                          *)

Delete(c, s) ==
  /\ calls[c] = Idle
  /\ rows[s] # NoRow => rows[s].revision < MaxRevision
  /\ Call(c, s, "checking")
  /\ UNCHANGED <<Table, vault, pending, lock, aux_stray>>

\* The source is refused when it is active.
DeleteCheck(c) ==
  /\ At(c, "checking") /\ ~stopping
  /\ \/ Returns(c)
     \/ Goes(c, "checked") /\ lock' = lock
  /\ UNCHANGED <<Table, vault, pending, aux_stray>>

\* It is also when it is not paused, or not at the revision that was asked for.
DeleteRead(c) ==
  /\ At(c, "checked")
  /\ LET s == Src(c)
     IN  \/ Returns(c)
         \/ /\ rows[s] # NoRow /\ rows[s].desired = "paused"
            /\ CallReading(c, s, "purging", s \in linked, NoVideo) /\ lock' = lock
  /\ UNCHANGED <<Table, vault, pending, aux_stray>>

\* Whatever the provider answers to the revocation.
DeletePurge(c) ==
  /\ At(c, "purging")
  /\ vault' = IF calls[c].linked THEN vault \ {Src(c)} ELSE vault
  /\ Goes(c, "purged")
  /\ UNCHANGED <<Table, pending, lock, aux_stray>>

DeletePurgeFails(c) ==
  /\ At(c, "purging") /\ calls[c].linked
  /\ Returns(c)
  /\ UNCHANGED <<Table, vault, pending, aux_stray>>

Removes(c) ==
  /\ \E row \in RemoveRow(rows[Src(c)], calls[c].revision) :
       rows' = [rows EXCEPT ![Src(c)] = row]
  /\ linked' = linked \ {Src(c)}
  /\ video' = [video EXCEPT ![Src(c)] = NoVideo]
  /\ aux_selected' = [aux_selected EXCEPT ![Src(c)] = NoVideo]
  /\ aux_deleted' = aux_deleted \cup {Src(c)}
  /\ stopping' = stopping

DeleteRemove(c) ==
  /\ At(c, "purged")
  /\ Removes(c)
  /\ Call(c, Src(c), "removed")
  /\ UNCHANGED <<vault, pending, lock, aux_stray>>

DeleteConflict(c) ==
  /\ At(c, "purged") \/ At(c, "late_remove")
  /\ RemoveRow(rows[Src(c)], calls[c].revision) = {}
  /\ Returns(c)
  /\ UNCHANGED <<Table, vault, pending, aux_stray>>

\* The pending authorisations are forgotten, one lock after the other.
DeleteForget(c) ==
  \E a \in Adapters :
    /\ At(c, IF a = Twitch THEN "removed" ELSE "forgetting")
    /\ lock[a] = Free
    /\ pending' = IF Adapter[Src(c)] = a THEN [pending EXCEPT ![Src(c)] = "none"] ELSE pending
    /\ IF a = Twitch THEN Goes(c, "forgetting") /\ lock' = lock ELSE Returns(c)
    /\ UNCHANGED <<Table, vault, aux_stray>>

-----------------------------------------------------------------------------
(* The client of a loopback request goes away and the call is dropped at   *)
(* its await.                                                              *)

\* What a worker it has started will still do.
Work(c) ==
  CASE At(c, "identifying") \/ At(c, "refreshing") -> {"late_store"}
    [] At(c, "stored") -> {"late_link"}
    [] At(c, "identified") /\ Selects(c) -> {"late_select"}
    [] At(c, "purging") /\ calls[c].linked -> {"late_purge"}
    [] At(c, "purged") -> {"late_remove"}
    [] OTHER -> {}

LateSteps == {"late_store", "late_link", "late_select", "late_purge", "late_remove"}

\* Its lock is free, and without a worker nothing more comes of it.
Dropped(c) ==
  /\ calls[c] # Idle /\ calls[c].pc \notin LateSteps
  /\ lock' = Released(c)
  /\ \/ /\ calls' = [calls EXCEPT ![c] = Idle]
        /\ aux_stray' = IF At(c, "stored") \/ At(c, "undoing") THEN aux_stray \cup {Src(c)}
                        ELSE aux_stray
     \/ /\ \E pc \in Work(c) : Goes(c, pc)
        /\ aux_stray' = aux_stray
  /\ UNCHANGED <<Table, vault, pending>>

LateStore(c) ==
  /\ At(c, "late_store")
  /\ Stores(Src(c))
  /\ Returns(c)
  /\ UNCHANGED <<Table, pending>>

\* The authorisation stays pending, and a conflict is not undone.
LateLink(c) ==
  /\ At(c, "late_link")
  /\ \/ Links(c) /\ aux_stray' = aux_stray
     \/ /\ UpdateRow(rows[Src(c)], calls[c].revision) = {}
        /\ aux_stray' = aux_stray \cup {Src(c)}
        /\ UNCHANGED Table
  /\ Returns(c)
  /\ UNCHANGED <<vault, pending>>

\* The vault deletes the credential, or fails.
LatePurge(c) ==
  /\ At(c, "late_purge")
  /\ vault' \in {vault, vault \ {Src(c)}}
  /\ Returns(c)
  /\ UNCHANGED <<Table, pending, aux_stray>>

\* The pending authorisations are not forgotten.
LateRemove(c) ==
  /\ At(c, "late_remove")
  /\ Removes(c)
  /\ Returns(c)
  /\ UNCHANGED <<vault, pending, aux_stray>>

-----------------------------------------------------------------------------
\* stop_source keeps the lock of the active sources until a connector and its
\* pump have ended.
StopBegins ==
  /\ ~stopping /\ stopping' = TRUE
  /\ UNCHANGED <<rows, linked, video, vault, pending, lock, calls,
                 aux_selected, aux_stray, aux_deleted>>

StopEnds ==
  /\ stopping /\ stopping' = FALSE
  /\ UNCHANGED <<rows, linked, video, vault, pending, lock, calls,
                 aux_selected, aux_stray, aux_deleted>>

\* The process stops: what is durable stays, and so may a credential that a
\* poll had stored for a row it had not updated.
Crash ==
  /\ \E c \in Calls : calls[c] # Idle
  /\ calls' = [c \in Calls |-> Idle]
  /\ lock' = [a \in Adapters |-> Free] /\ stopping' = FALSE
  /\ pending' = [s \in Sources |-> "none"]
  /\ aux_stray' = aux_stray \cup {Src(c) : c \in
       {d \in Calls : At(d, "stored") \/ At(d, "undoing") \/ At(d, "late_link")}}
  /\ UNCHANGED <<rows, linked, video, vault, aux_selected, aux_deleted>>

\* Steps that wait for a lock, and steps that do not.
Acquires(c) == BeginInsert(c) \/ PollAcquire(c) \/ DeleteCheck(c) \/ DeleteForget(c)

Proceeds(c) ==
  \/ PollUnanswered(c) \/ PollAuthorized(c) \/ PollRead(c) \/ PollRefused(c) \/ PollStore(c)
  \/ PollUpdate(c) \/ PollConflict(c) \/ PollUndo(c)
  \/ RefreshLoad(c) \/ RefreshStore(c) \/ RefreshReturns(c) \/ SelectUpdate(c)
  \/ DeleteRead(c) \/ DeletePurge(c) \/ DeletePurgeFails(c) \/ DeleteRemove(c)
  \/ DeleteConflict(c)
  \/ LateStore(c) \/ LateLink(c) \/ LatePurge(c) \/ LateRemove(c)

Next ==
  \/ \E s \in Sources :
       \/ CreateSource(s)
       \/ \E d \in {"paused", "active"} : Toggle(s, d)
       \/ Callback(s)
       \/ \E c \in Calls : \/ BeginAuthorization(c, s)
                           \/ Poll(c, s)
                           \/ Test(c, s)
                           \/ \E v \in Videos : Select(c, s, v)
                           \/ Delete(c, s)
  \/ \E c \in Calls : Acquires(c) \/ BeginFails(c) \/ Proceeds(c) \/ Dropped(c)
  \/ StopBegins
  \/ StopEnds
  \/ Crash

\* A step that waits for no lock comes: the clients of the providers give up
\* after a timeout, the store and the vault answer.  Locks are given in the
\* order of their requests, so a call that waits for one that is let go of
\* gets its turn.  Nothing makes a stop end.
Fairness == \A c \in Calls : WF_vars(Proceeds(c)) /\ SF_vars(Acquires(c))

Spec == Init /\ [][Next]_vars /\ Fairness

-----------------------------------------------------------------------------
TypeOK ==
  /\ rows \in [Sources -> SourceRow \cup {NoRow}]
  /\ linked \subseteq Existing
  /\ vault \subseteq Sources
  /\ video \in [Sources -> Videos \cup {NoVideo}]
  /\ pending \in [Sources -> PendingStates]
  /\ stopping \in BOOLEAN
  /\ lock \in [Adapters -> Calls \cup {Free}]
  /\ Cardinality(Existing) <= MaxSources
  /\ \A a \in Adapters : lock[a] # Free => calls[lock[a]] # Idle

\* No authorisation leaves a credential in the vault for a source that is
\* gone, or that was never linked to it, once its calls and their workers have
\* ended, in any interleaving of polls and deletions.  What does is named in
\* aux_stray: a store that lands once the row is gone or about to go (a late
\* refresh, the worker of a dropped call), a vault that fails to delete, and a
\* poll that is dropped or cut by a crash between vault and row
\* (poll_*_authorization, delete_source).
CredentialsAreLinked ==
  \A s \in vault : \/ s \in linked
                   \/ s \in aux_stray
                   \/ \E c \in Calls : calls[c] # Idle /\ Src(c) = s /\
                        (At(c, "stored") \/ At(c, "undoing") \/ At(c, "late_link"))

\* A selection that succeeded is never undone by an authorisation that had
\* read the settings before and writes them back, even by the worker of one
\* that was dropped (UpdateSource, update).
SelectionKept == video = aux_selected

\* Every call returns, although a poll holds the lock that other calls wait
\* for across its requests to the provider: all but a deletion that waits for
\* the lock of the active sources behind a stop that never ends.
EveryCallReturns ==
  \A c \in Calls : \/ []<>(calls[c] = Idle)
                   \/ <>[](At(c, "checking") /\ stopping)

\* A source that is linked has its credential, when no call is under way.
\* This does not hold: an authorisation that is repeated and whose update
\* fails deletes the credential the row still refers to, and so does a
\* deletion that conflicts after its purge.
LinkedHasCredential ==
  (\A c \in Calls : calls[c] = Idle) => linked \subseteq vault
=============================================================================
