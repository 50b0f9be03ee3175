-------------------------- MODULE ContextChannels --------------------------
(***************************************************************************)
(* Contexts and trusted channels as the desktop application runs them      *)
(* (apps/desktop/src-tauri, over ContextStore and ContextIndex): channels  *)
(* are verified while contexts are activated, rolled back and edited.      *)
(*                                                                         *)
(* A command on the store holds its mutex: one step.  A verification is an *)
(* asynchronous command: it refreshes the TUF metadata, reads the state of *)
(* the channel, inspects the packages, writes the state, and only then     *)
(* takes the store.  Between two of these steps another verification, of   *)
(* the same channel or not, may run; at each it may fail.  A process that  *)
(* stops is all verifications failing.                                     *)
(***************************************************************************)
EXTENDS ContextStore, ContextIndex

CONSTANTS
  Verifiers,  \* the verifications that are in progress at a time
  Releases,   \* what each channel has published, by TUF version
  MaxHistory  \* bound of the model on the activations

\* What a document says of archives: the identity of each.
Listing == UNION {[archives -> Identities] : archives \in SUBSET Archives}

Release == [sequence : Nat \ {0}, revoked : Listing, listed : Listing]

ASSUME ContextChannelsAssumption ==
  /\ Releases \in [Channels -> Seq(Release)]
  /\ MaxHistory \in Nat

VARIABLES
  store,         \* the context store
  index,         \* revocation-state.json of each channel
  tuf,           \* the highest TUF version in the cache of each channel
  verifications, \* where each verification is, and its locals
  editing,       \* the package whose targets the operator was shown (a set)
  aux_reported   \* identities that a finished verification reported revoked

vars == <<store, index, tuf, verifications, editing, aux_reported>>

Document(release) == [sequence |-> release.sequence, revoked |-> release.revoked]

Idle == [pc |-> "idle"]

TypeOK ==
  /\ StoreOK(store)
  /\ \A c \in Channels :
       /\ index[c] = NoState \/ \E r \in DOMAIN Releases[c] :
            index[c].document = Document(Releases[c][r])
       /\ tuf[c] \in 0..Len(Releases[c])
  /\ \A v \in Verifiers : verifications[v].pc \in {"idle", "refreshed", "prepared", "written"}
  /\ editing \subseteq Packages /\ Cardinality(editing) <= 1
  /\ aux_reported \subseteq Identities

Init ==
  /\ store = EmptyStore
  /\ index = [c \in Channels |-> NoState]
  /\ tuf = [c \in Channels |-> 0]
  /\ verifications = [v \in Verifiers |-> Idle]
  /\ editing = {}
  /\ aux_reported = {}

-----------------------------------------------------------------------------
\* Updater::refresh: versions below those of the cached metadata are refused.
NotOlder(c, r) == r >= tuf[c]

\* verify_context_channel_ipc, up to the refresh of inspect_offline_channel:
\* the directory holds any release that is not older than the cached metadata.
VerifyRefresh(v, c, r) ==
  /\ verifications[v] = Idle
  /\ NotOlder(c, r)
  /\ tuf' = [tuf EXCEPT ![c] = r]
  /\ verifications' = [verifications EXCEPT ![v] =
       [pc |-> "refreshed", channel |-> c, release |-> Releases[c][r]]]
  /\ UNCHANGED <<store, index, editing, aux_reported>>

\* The state is read and the packages are inspected against what it becomes.
VerifyPrepare(v) ==
  /\ verifications[v].pc = "refreshed"
  /\ LET at == verifications[v] IN
     \E next \in Prepared(index[at.channel], Document(at.release)) :
       /\ Consistent(next, at.release.listed)
       /\ verifications' = [verifications EXCEPT ![v] =
            [pc |-> "prepared", channel |-> at.channel, listed |-> at.release.listed,
             basis |-> index[at.channel], next |-> next]]
  /\ UNCHANGED <<store, index, tuf, editing, aux_reported>>

\* write_revocation_state, when prepare_revocation_state has changed it: the
\* file is replaced, whatever was written since it was read.
VerifyWrite(v) ==
  /\ verifications[v].pc = "prepared"
  /\ LET at == verifications[v] IN
     /\ index' = IF at.next = at.basis THEN index
                 ELSE [index EXCEPT ![at.channel] = at.next]
     /\ verifications' = [verifications EXCEPT ![v] =
          [pc |-> "written", channel |-> at.channel,
           list |-> Reported(at.next, at.listed)]]
  /\ UNCHANGED <<store, tuf, editing, aux_reported>>

\* The statuses go to the store, which may quarantine the active context.
VerifyApply(v) ==
  /\ verifications[v].pc = "written"
  /\ LET at == verifications[v] IN
     /\ store' \in ApplyChannelStatuses(store, at.channel, at.list)
     /\ aux_reported' = aux_reported \cup
          {at.list[x].identity : x \in {y \in DOMAIN at.list : at.list[y].revoked}}
  /\ verifications' = [verifications EXCEPT ![v] = Idle]
  /\ UNCHANGED <<index, tuf, editing>>

\* Any error of a verification: it ends, and what it wrote stays.
VerifyFails(v) ==
  /\ verifications[v] # Idle
  /\ verifications' = [verifications EXCEPT ![v] = Idle]
  /\ UNCHANGED <<store, index, tuf, editing, aux_reported>>

-----------------------------------------------------------------------------
\* The commands on the store.
ActivateContext(p) ==
  /\ Len(store.history) < MaxHistory
  /\ store' \in Activate(store, p)
  /\ UNCHANGED <<index, tuf, verifications, editing, aux_reported>>

RollbackContext ==
  /\ store' \in Rollback(store)
  /\ UNCHANGED <<index, tuf, verifications, editing, aux_reported>>

\* find_targets: the operator is shown the targets of the active context.
FindTargets ==
  /\ store.active # 0
  /\ editing' = ActivePackage(store)
  /\ UNCHANGED <<store, index, tuf, verifications, aux_reported>>

\* The commands carry the SHA-256 of the package the operator was shown.
EditTarget(t) ==
  /\ \E p \in editing :
       \/ \E e \in Edits : store' \in SaveTargetDraft(store, p, t, e)
       \/ store' \in DiscardTargetDraft(store, p, t)
  /\ UNCHANGED <<index, tuf, verifications, editing, aux_reported>>

Next ==
  \/ \E v \in Verifiers :
       \/ \E c \in Channels : \E r \in DOMAIN Releases[c] : VerifyRefresh(v, c, r)
       \/ VerifyPrepare(v)
       \/ VerifyWrite(v)
       \/ VerifyApply(v)
       \/ VerifyFails(v)
  \/ \E p \in Packages : ActivateContext(p)
  \/ RollbackContext
  \/ FindTargets
  \/ \E t \in Targets : EditTarget(t)

Spec == Init /\ [][Next]_vars
-----------------------------------------------------------------------------
\* What a verification that succeeded has reported revoked stays revoked for
\* the store, also when verifications that saw an older state are applied
\* after it, when a document omits it or when the index lost it.
ReportedStaysRevoked == aux_reported \subseteq RevokedIdentities(store)

\* A revoked context comes into force by a rollback only: never by an
\* activation, and no application of statuses leaves one in force.
OnlyRollbackRevives ==
  [][ActiveIsRevoked(store') =>
       \/ store'.active = Previous(store)
       \/ store'.active = store.active /\ store'.statuses = store.statuses]_store

\* The state of a channel stands for one release: it has every revocation of
\* the document it names, also when overlapping verifications replace the
\* file of each other.
IndexKnowsItsDocument ==
  \A c \in Channels : index[c] # NoState =>
    \E r \in DOMAIN Releases[c] :
      /\ Document(Releases[c][r]) = index[c].document
      /\ index[c].highest = Releases[c][r].sequence
      /\ DOMAIN Releases[c][r].revoked \subseteq DOMAIN index[c].tombstones

\* Another verification of the channel of v has replaced the state since v
\* has read it.
Overtaken(v) == /\ verifications[v].pc = "prepared"
                /\ verifications[v].basis # index[verifications[v].channel]

\* Tombstones are append-only and sequences do not go back, as long as no
\* verification writes a state that was replaced since it read it.
TombstonesAppendOnly ==
  [][\A c \in Channels :
       (~\E v \in Verifiers : Overtaken(v)) =>
         /\ DOMAIN index[c].tombstones \subseteq DOMAIN index'[c].tombstones
         /\ index[c].highest <= index'[c].highest]_index

\* docs/integration/context-channels.md:63 says the first half without that
\* condition.  This does not hold: the verification that writes last wins.
TombstonesNeverLost ==
  [][\A c \in Channels : DOMAIN index[c].tombstones \subseteq DOMAIN index'[c].tombstones]_index

\* An edit changes drafts of the context whose targets the operator was
\* shown, although another context may have been activated meanwhile.
EditsHitTheContextShown ==
  [][\A k \in DOMAIN store.drafts \cup DOMAIN store'.drafts :
       \/ k[1] \in editing
       \/ /\ k \in DOMAIN store.drafts \cap DOMAIN store'.drafts
          /\ store.drafts[k] = store'.drafts[k]]_store

\* docs/integration/context-channels.md:68: a revoked identity can no more be
\* activated, and one that is active is put in quarantine.
RevokedOutOfForce == ~ActiveIsRevoked(store)
=============================================================================
