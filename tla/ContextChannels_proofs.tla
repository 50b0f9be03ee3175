----------------------- MODULE ContextChannels_proofs -----------------------
(***************************************************************************)
(* Proofs about contexts and trusted channels.  A verification carries what*)
(* it read across its steps; what the proofs need is that whatever it      *)
(* carries, and so whatever it writes, stands for a release of its channel,*)
(* and that a row of the store, once revoked, only ever gets its own       *)
(* identity again.                                                         *)
(***************************************************************************)
EXTENDS ContextChannels, FiniteSetTheorems, TLAPS

Columns == {"versions", "history", "active", "statuses", "drafts"}

StoreInv(s) ==
  /\ DOMAIN s = Columns
  /\ s.history \in Seq([package : Packages, previous : Nat])
  /\ StoreOK(s)

\* A state of a channel has all that a release of the channel revokes.
Known(c, state) ==
  \E r \in DOMAIN Releases[c] :
    /\ Document(Releases[c][r]) = state.document
    /\ state.highest = Releases[c][r].sequence
    /\ DOMAIN Releases[c][r].revoked \subseteq DOMAIN state.tombstones

\* A state that has not lost anything of an earlier one.
Grown(state, next) ==
  /\ DOMAIN state.tombstones \subseteq DOMAIN next.tombstones
  /\ state.highest <= next.highest

Carries(at) ==
  \/ at = Idle
  \/ /\ at.pc = "refreshed"
     /\ at.channel \in Channels
     /\ \E r \in DOMAIN Releases[at.channel] :
          at.release = Releases[at.channel][r]
  \/ /\ at.pc = "prepared"
     /\ at.channel \in Channels
     /\ at.listed \in Listing
     /\ Known(at.channel, at.next)
     /\ Grown(at.basis, at.next)
  \/ /\ at.pc = "written"
     /\ at.channel \in Channels
     /\ DOMAIN at.list \subseteq Archives
     /\ \A x \in DOMAIN at.list : at.list[x] \in Status

ChannelsOK ==
  /\ DOMAIN index = Channels /\ DOMAIN tuf = Channels
  /\ \A c \in Channels : /\ index[c] = NoState \/ Known(c, index[c])
                         /\ tuf[c] \in 0..Len(Releases[c])

VerificationsOK ==
  /\ DOMAIN verifications = Verifiers
  /\ \A v \in Verifiers : Carries(verifications[v])

EditingOK == editing = {} \/ \E p \in Packages : editing = {p}

ChannelInv ==
  /\ StoreInv(store)
  /\ ChannelsOK
  /\ VerificationsOK
  /\ EditingOK
  /\ aux_reported \subseteq Identities
  /\ ReportedStaysRevoked

-----------------------------------------------------------------------------
(* The store.                                                              *)

LEMMA InstalledStore ==
  ASSUME NEW s, StoreInv(s), NEW p \in Packages
  PROVE  /\ StoreInv(Installed(s, p))
         /\ Installed(s, p).statuses = s.statuses
         /\ Installed(s, p).drafts = s.drafts
         /\ ActivePackage(Installed(s, p)) = {p}
<1> DEFINE t == Installed(s, p)
           n == Len(s.history)
           row == [package |-> p, previous |-> s.active]
<1>1. /\ DOMAIN t = Columns /\ t.versions = s.versions \cup {p}
      /\ t.history = Append(s.history, row) /\ t.active = n + 1
      /\ t.statuses = s.statuses /\ t.drafts = s.drafts
  BY DEF Installed, StoreInv, Columns
<1>2. n \in Nat /\ s.active \in 0..n /\ row \in [package : Packages, previous : Nat]
  BY DEF StoreInv, StoreOK
<1>3. t.history \in Seq([package : Packages, previous : Nat])
  BY <1>1, <1>2 DEF StoreInv
<1>4. /\ Len(t.history) = n + 1
      /\ \A i \in 1..n : t.history[i] = s.history[i]
      /\ t.history[n + 1] = row
  BY <1>1, <1>2 DEF StoreInv
<1> HIDE DEF t, n
<1>5. \A i \in DOMAIN t.history : /\ t.history[i] \in Activation(i - 1)
                                  /\ t.history[i].package \in t.versions
  <2> TAKE i \in DOMAIN t.history
  <2>1. i \in 1..n + 1
    BY <1>3, <1>4
  <2>2. CASE i = n + 1
    <3>1. t.history[i] = row /\ i - 1 = n
      BY <1>2, <1>4, <2>2
    <3> QED BY <1>1, <1>2, <3>1 DEF Activation
  <2>3. CASE i \in 1..n
    <3>1. i \in DOMAIN s.history
      BY <2>3 DEF StoreInv, n
    <3> QED BY <1>1, <1>4, <2>3, <3>1 DEF StoreInv, StoreOK
  <2> QED BY <1>2, <2>1, <2>2, <2>3
<1>6. StoreOK(t)
  <2>1. t.active \in 0..Len(t.history)
    BY <1>1, <1>2, <1>4
  <2> QED BY <1>1, <1>5, <2>1 DEF StoreInv, StoreOK
<1>7. ActivePackage(t) = {p}
  BY <1>1, <1>2, <1>4 DEF ActivePackage
<1> QED BY <1>1, <1>3, <1>6, <1>7 DEF StoreInv, t

\* The package in force is installed.
LEMMA ActiveInstalled ==
  ASSUME NEW s, StoreInv(s)
  PROVE  /\ ActivePackage(s) \subseteq s.versions
         /\ ActivePackage(s) = {} \/ \E p \in Packages : ActivePackage(s) = {p}
<1>1. CASE s.active = 0
  BY <1>1 DEF ActivePackage
<1>2. CASE s.active # 0
  <2>1. s.active \in DOMAIN s.history
    BY <1>2 DEF StoreInv, StoreOK
  <2>2. s.history[s.active].package \in s.versions
    BY <2>1 DEF StoreInv, StoreOK
  <2> QED BY <1>2, <2>2 DEF ActivePackage, StoreInv, StoreOK
<1> QED BY <1>1, <1>2

\* Another activation in force, or none.
LEMMA Reactivated ==
  ASSUME NEW s, StoreInv(s), NEW n \in 0..Len(s.history)
  PROVE  /\ StoreInv([s EXCEPT !.active = n])
         /\ [s EXCEPT !.active = n].active = n
         /\ [s EXCEPT !.active = n].statuses = s.statuses
         /\ [s EXCEPT !.active = n].drafts = s.drafts
<1> DEFINE t == [s EXCEPT !.active = n]
<1>1. /\ DOMAIN t = Columns /\ t.versions = s.versions
      /\ t.history = s.history /\ t.active = n
      /\ t.statuses = s.statuses /\ t.drafts = s.drafts
  BY DEF StoreInv, Columns
<1> HIDE DEF t
<1>2. StoreInv(t)
  BY <1>1 DEF StoreInv, StoreOK
<1> QED BY <1>1, <1>2 DEF t

LEMMA PreviousInHistory ==
  ASSUME NEW s, StoreInv(s)
  PROVE  Previous(s) \in 0..Len(s.history)
<1>1. CASE s.active = 0
  BY <1>1 DEF Previous, StoreInv
<1>2. CASE s.active # 0
  <2>1. PICK n \in Nat \ {0} : n = s.active /\ n <= Len(s.history)
    BY <1>2 DEF StoreInv, StoreOK
  <2>2. s.history[n] \in Activation(n - 1)
    BY <2>1 DEF StoreInv, StoreOK
  <2>3. s.history[n].previous \in 0..n - 1
    BY <2>2 DEF Activation
  <2>4. Len(s.history) \in Nat
    BY DEF StoreInv
  <2> QED BY <1>2, <2>1, <2>3, <2>4 DEF Previous
<1> QED BY <1>1, <1>2

\* save_target_draft and discard_target_draft write one row of drafts.
LEMMA DraftSaved ==
  ASSUME NEW s, StoreInv(s), NEW p, NEW t, NEW e \in Edits,
         NEW s2 \in SaveTargetDraft(s, p, t, e)
  PROVE  /\ StoreInv(s2)
         /\ s2.active = s.active /\ s2.history = s.history
         /\ s2.statuses = s.statuses
         /\ \A k \in DOMAIN s.drafts \cup DOMAIN s2.drafts :
              \/ k[1] = p
              \/ /\ k \in DOMAIN s.drafts \cap DOMAIN s2.drafts
                 /\ s.drafts[k] = s2.drafts[k]
<1> DEFINE drafts == Overlay([k \in {<<p, t>>} |-> e], s.drafts)
<1>1. /\ p \in ActivePackage(s) /\ t \in TargetsOf[p]
      /\ s2 = [s EXCEPT !.drafts = drafts]
  BY DEF SaveTargetDraft
<1>2. p \in s.versions
  BY <1>1, ActiveInstalled
<1>3. /\ DOMAIN drafts = DOMAIN s.drafts \cup {<<p, t>>}
      /\ drafts[<<p, t>>] = e
      /\ \A k \in DOMAIN s.drafts : k # <<p, t>> => drafts[k] = s.drafts[k]
  BY DEF Overlay
<1> HIDE DEF drafts
<1>4. /\ DOMAIN s2 = Columns /\ s2.versions = s.versions
      /\ s2.history = s.history /\ s2.active = s.active
      /\ s2.statuses = s.statuses /\ s2.drafts = drafts
  BY <1>1 DEF StoreInv, Columns
<1>5. \A k \in DOMAIN drafts : /\ k[1] \in s.versions
                               /\ k[2] \in TargetsOf[k[1]]
                               /\ drafts[k] \in Edits
  <2>1. \A k \in DOMAIN s.drafts : /\ k[1] \in s.versions
                                   /\ k[2] \in TargetsOf[k[1]]
                                   /\ s.drafts[k] \in Edits
    BY DEF StoreInv, StoreOK
  <2>2. ASSUME NEW k \in DOMAIN drafts, k # <<p, t>>
        PROVE  k \in DOMAIN s.drafts /\ drafts[k] = s.drafts[k]
    BY <1>3, <2>2
  <2>3. <<p, t>>[1] = p /\ <<p, t>>[2] = t
    OBVIOUS
  <2> QED BY <1>1, <1>2, <1>3, <2>1, <2>2, <2>3
<1>6. StoreInv(s2)
  BY <1>4, <1>5 DEF StoreInv, StoreOK
<1> QED BY <1>3, <1>4, <1>6

LEMMA DraftDiscarded ==
  ASSUME NEW s, StoreInv(s), NEW p, NEW t,
         NEW s2 \in DiscardTargetDraft(s, p, t)
  PROVE  /\ StoreInv(s2)
         /\ s2.active = s.active /\ s2.history = s.history
         /\ s2.statuses = s.statuses
         /\ \A k \in DOMAIN s.drafts \cup DOMAIN s2.drafts :
              \/ k[1] = p
              \/ /\ k \in DOMAIN s.drafts \cap DOMAIN s2.drafts
                 /\ s.drafts[k] = s2.drafts[k]
<1> DEFINE drafts == [k \in DOMAIN s.drafts \ {<<p, t>>} |-> s.drafts[k]]
<1>1. s2 = [s EXCEPT !.drafts = drafts]
  BY DEF DiscardTargetDraft, StoreInv, Columns
<1>2. /\ DOMAIN drafts = DOMAIN s.drafts \ {<<p, t>>}
      /\ \A k \in DOMAIN drafts : drafts[k] = s.drafts[k]
  OBVIOUS
<1> HIDE DEF drafts
<1>3. /\ DOMAIN s2 = Columns /\ s2.versions = s.versions
      /\ s2.history = s.history /\ s2.active = s.active
      /\ s2.statuses = s.statuses /\ s2.drafts = drafts
  BY <1>1 DEF StoreInv, Columns
<1>4. StoreInv(s2)
  BY <1>2, <1>3 DEF StoreInv, StoreOK
<1> QED BY <1>2, <1>3, <1>4

\* apply_channel_statuses: a row keeps its identity, and stays revoked.
LEMMA StatusesApplied ==
  ASSUME NEW s, StoreInv(s), NEW c \in Channels, NEW list,
         DOMAIN list \subseteq Archives,
         \A x \in DOMAIN list : list[x] \in Status,
         NEW s2 \in ApplyChannelStatuses(s, c, list)
  PROVE  /\ StoreInv(s2) /\ s2.drafts = s.drafts
         /\ ~ ActiveIsRevoked(s2)
         /\ RevokedIdentities(s) \subseteq RevokedIdentities(s2)
         /\ \A x \in DOMAIN list :
              list[x].revoked => list[x].identity \in RevokedIdentities(s2)
<1> DEFINE keys == {c} \X DOMAIN list
           rows == [k \in keys |-> Upserted(s, k, list[k[2]])]
           statuses == Overlay(rows, s.statuses)
           written == [s EXCEPT !.statuses = statuses]
<1>1. /\ ~ IdentityConflict(s, c, list)
      /\ s2 = Quarantined(written)
  BY DEF ApplyChannelStatuses, StoreInv, Columns
<1>2. /\ DOMAIN statuses = keys \cup DOMAIN s.statuses
      /\ \A k \in keys : statuses[k] = Upserted(s, k, list[k[2]])
      /\ \A k \in DOMAIN s.statuses : k \notin keys => statuses[k] = s.statuses[k]
  BY DEF Overlay
<1>3. ASSUME NEW k \in keys
      PROVE  /\ k[2] \in DOMAIN list /\ k = <<c, k[2]>>
             /\ statuses[k] \in Status
             /\ statuses[k].identity = list[k[2]].identity
             /\ list[k[2]].revoked => statuses[k].revoked
             /\ k \in DOMAIN s.statuses /\ s.statuses[k].revoked
                  => statuses[k].revoked
  <2>1. k[2] \in DOMAIN list /\ k = <<c, k[2]>>
    OBVIOUS
  <2>2. list[k[2]] \in Status /\ statuses[k] = Upserted(s, k, list[k[2]])
    BY <1>2, <2>1
  <2>3. k \in DOMAIN s.statuses => s.statuses[k].revoked \in BOOLEAN
    BY DEF StoreInv, StoreOK, Status
  <2> HIDE DEF statuses
  <2> QED BY <2>1, <2>2, <2>3 DEF Upserted, Status
<1> HIDE DEF keys, rows, statuses
<1>4. /\ DOMAIN written = Columns /\ written.versions = s.versions
      /\ written.history = s.history /\ written.active = s.active
      /\ written.statuses = statuses /\ written.drafts = s.drafts
  BY DEF StoreInv, Columns
<1> HIDE DEF written
<1>5. StoreInv(written)
  <2>1. DOMAIN statuses \subseteq Channels \X Archives
    BY <1>2 DEF keys, StoreInv, StoreOK
  <2>2. \A k \in DOMAIN statuses : statuses[k] \in Status
    BY <1>2, <1>3 DEF StoreInv, StoreOK
  <2> QED BY <1>4, <2>1, <2>2 DEF StoreInv, StoreOK
<1>6. RevokedIdentities(s) \subseteq RevokedIdentities(written)
  <2> SUFFICES ASSUME NEW k \in DOMAIN s.statuses, s.statuses[k].revoked
               PROVE  s.statuses[k].identity \in RevokedIdentities(written)
    BY DEF RevokedIdentities
  <2>1. /\ k \in DOMAIN statuses /\ statuses[k].revoked
        /\ statuses[k].identity = s.statuses[k].identity
    <3>1. CASE k \in keys
      <4>1. k[2] \in DOMAIN list /\ <<c, k[2]>> = k
        BY <1>3, <3>1
      <4>2. s.statuses[k].identity = list[k[2]].identity
        BY <1>1, <4>1 DEF IdentityConflict
      <4> QED BY <1>2, <1>3, <3>1, <4>2
    <3>2. CASE k \notin keys
      BY <1>2, <3>2
    <3> QED BY <3>1, <3>2
  <2> QED BY <1>4, <2>1 DEF RevokedIdentities
<1>7. ASSUME NEW x \in DOMAIN list, list[x].revoked
      PROVE  list[x].identity \in RevokedIdentities(written)
  <2>1. <<c, x>> \in keys
    BY DEF keys
  <2>2. PICK k \in keys : k = <<c, x>>
    BY <2>1
  <2>3. /\ k \in DOMAIN statuses /\ statuses[k].revoked
        /\ statuses[k].identity = list[x].identity
    BY <1>2, <1>3, <1>7, <2>2
  <2> QED BY <1>4, <2>3 DEF RevokedIdentities
<1>8. /\ StoreInv(s2) /\ s2.drafts = s.drafts /\ s2.statuses = statuses
      /\ ~ ActiveIsRevoked(s2)
  <2>1. CASE ActiveIsRevoked(written)
    <3>1. s2 = [written EXCEPT !.active = 0] /\ 0 \in 0..Len(written.history)
      BY <1>1, <1>5, <2>1 DEF Quarantined, StoreInv
    <3>2. /\ StoreInv(s2) /\ s2.active = 0
          /\ s2.statuses = written.statuses /\ s2.drafts = written.drafts
      BY <1>5, <3>1, Reactivated
    <3>3. ~ ActiveIsRevoked(s2)
      BY <3>2 DEF ActiveIsRevoked, ActivePackage
    <3> QED BY <1>4, <3>2, <3>3
  <2>2. CASE ~ ActiveIsRevoked(written)
    BY <1>1, <1>4, <1>5, <2>2 DEF Quarantined
  <2> QED BY <2>1, <2>2
<1>9. RevokedIdentities(s2) = RevokedIdentities(written)
  BY <1>4, <1>8 DEF RevokedIdentities
<1> QED BY <1>6, <1>7, <1>8, <1>9

-----------------------------------------------------------------------------
(* The commands on the store: what each does to it.                        *)

\* What commands other than VerifyApply leave alone.
StatusesKept == store'.statuses = store.statuses

\* A context that is in force is not revoked, or it came by a rollback, or it
\* was in force before.
Revival ==
  ActiveIsRevoked(store') =>
    \/ store'.active = Previous(store)
    \/ store'.active = store.active /\ store'.statuses = store.statuses

\* Drafts change only where the operator was shown the targets.
Edited ==
  \A k \in DOMAIN store.drafts \cup DOMAIN store'.drafts :
    \/ k[1] \in editing
    \/ /\ k \in DOMAIN store.drafts \cap DOMAIN store'.drafts
       /\ store.drafts[k] = store'.drafts[k]

StoreStepOK == StoreInv(store)' /\ Revival /\ Edited

LEMMA ActivateStep ==
  ASSUME StoreInv(store), NEW p \in Packages, store' \in Activate(store, p)
  PROVE  StoreStepOK /\ StatusesKept
<1>1. CASE store' = store
  BY <1>1 DEF StoreStepOK, Revival, Edited, StatusesKept
<1>2. CASE store' # store
  <2>1. /\ IdentityOf[p] \notin RevokedIdentities(store)
        /\ store' = Installed(store, p)
    BY <1>2 DEF Activate
  <2>2. /\ StoreInv(store')
        /\ store'.statuses = store.statuses /\ store'.drafts = store.drafts
        /\ ActivePackage(store') = {p}
    BY <2>1, InstalledStore
  <2>3. ~ ActiveIsRevoked(store')
    BY <2>1, <2>2 DEF ActiveIsRevoked, RevokedIdentities
  <2> QED BY <2>2, <2>3 DEF StoreStepOK, Revival, Edited, StatusesKept
<1> QED BY <1>1, <1>2

LEMMA RollbackStep ==
  ASSUME StoreInv(store), store' \in Rollback(store)
  PROVE  StoreStepOK /\ StatusesKept
<1>1. store' = [store EXCEPT !.active = Previous(store)]
  BY DEF Rollback
<1>2. Previous(store) \in 0..Len(store.history)
  BY PreviousInHistory
<1>3. /\ StoreInv(store') /\ store'.active = Previous(store)
      /\ store'.statuses = store.statuses /\ store'.drafts = store.drafts
  BY <1>1, <1>2, Reactivated
<1> QED BY <1>3 DEF StoreStepOK, Revival, Edited, StatusesKept

LEMMA EditStep ==
  ASSUME StoreInv(store), NEW t \in Targets, EditTarget(t)
  PROVE  StoreStepOK /\ StatusesKept
<1>1. PICK p \in editing :
        \/ \E e \in Edits : store' \in SaveTargetDraft(store, p, t, e)
        \/ store' \in DiscardTargetDraft(store, p, t)
  BY DEF EditTarget
<1>2. /\ StoreInv(store')
      /\ store'.active = store.active /\ store'.statuses = store.statuses
      /\ \A k \in DOMAIN store.drafts \cup DOMAIN store'.drafts :
           \/ k[1] = p
           \/ /\ k \in DOMAIN store.drafts \cap DOMAIN store'.drafts
              /\ store.drafts[k] = store'.drafts[k]
  BY <1>1, DraftSaved, DraftDiscarded
<1> QED BY <1>1, <1>2 DEF StoreStepOK, Revival, Edited, StatusesKept

LEMMA ApplyStep ==
  ASSUME ChannelInv, NEW v \in Verifiers, VerifyApply(v)
  PROVE  /\ StoreStepOK
         /\ aux_reported' \subseteq Identities
         /\ ReportedStaysRevoked'
<1> DEFINE at == verifications[v]
<1>1. /\ at.channel \in Channels
      /\ DOMAIN at.list \subseteq Archives
      /\ \A x \in DOMAIN at.list : at.list[x] \in Status
  BY DEF ChannelInv, VerificationsOK, Carries, VerifyApply, Idle
<1>2. /\ store' \in ApplyChannelStatuses(store, at.channel, at.list)
      /\ aux_reported' = aux_reported \cup
           {at.list[x].identity : x \in {y \in DOMAIN at.list : at.list[y].revoked}}
  BY DEF VerifyApply
<1>3. /\ StoreInv(store') /\ store'.drafts = store.drafts
      /\ ~ ActiveIsRevoked(store')
      /\ RevokedIdentities(store) \subseteq RevokedIdentities(store')
      /\ \A x \in DOMAIN at.list :
           at.list[x].revoked
             => at.list[x].identity \in RevokedIdentities(store')
  <2> HIDE DEF at
  <2> QED BY <1>1, <1>2, StatusesApplied DEF ChannelInv
<1>4. StoreStepOK
  BY <1>3 DEF StoreStepOK, Revival, Edited
<1>5. aux_reported' \subseteq Identities
  BY <1>1, <1>2 DEF ChannelInv, Status
<1>6. ReportedStaysRevoked'
  BY <1>2, <1>3 DEF ChannelInv, ReportedStaysRevoked
<1> QED BY <1>4, <1>5, <1>6

-----------------------------------------------------------------------------
(* The steps of a verification.                                            *)

\* Tombstones of a channel are only added.
Kept ==
  \A c \in Channels :
    (~\E v \in Verifiers : Overtaken(v)) => Grown(index[c], index'[c])

LEMMA ReleaseOf ==
  ASSUME NEW c \in Channels, NEW r \in DOMAIN Releases[c]
  PROVE  /\ Releases[c][r] \in Release
         /\ Releases[c][r].listed \in Listing
         /\ Document(Releases[c][r]).sequence = Releases[c][r].sequence
         /\ Document(Releases[c][r]).revoked = Releases[c][r].revoked
         /\ Releases[c][r].sequence \in Nat \ {0}
<1>1. Releases[c] \in Seq(Release)
  BY ContextChannelsAssumption
<1>2. Releases[c][r] \in Release
  BY <1>1
<1> QED BY <1>2 DEF Release, Document

\* A state that is known can be compared with itself.
LEMMA GrownItself ==
  ASSUME NEW c \in Channels, NEW state, state = NoState \/ Known(c, state)
  PROVE  Grown(state, state)
<1>1. state.highest \in Nat
  BY ReleaseOf DEF Known, NoState
<1> QED BY <1>1 DEF Grown

\* prepare_revocation_state turns a known state into a known one.
LEMMA PreparedKnown ==
  ASSUME NEW c \in Channels, NEW r \in DOMAIN Releases[c],
         NEW state, state = NoState \/ Known(c, state),
         NEW next \in Prepared(state, Document(Releases[c][r]))
  PROVE  Known(c, next) /\ Grown(state, next)
<1> DEFINE document == Document(Releases[c][r])
           merged == Merged(state.tombstones, document.revoked)
<1>1. /\ document.sequence = Releases[c][r].sequence
      /\ document.revoked = Releases[c][r].revoked
      /\ document.sequence \in Nat \ {0}
  BY ReleaseOf
<1>2. CASE document.sequence = state.highest
  <2>1. state # NoState
    BY <1>1, <1>2 DEF NoState
  <2>2. next = state
    BY <1>2 DEF Prepared
  <2> QED BY <2>1, <2>2, GrownItself
<1>3. CASE document.sequence # state.highest
  <2>1. /\ document.sequence > state.highest
        /\ next = [highest |-> document.sequence, document |-> document,
                   tombstones |-> merged]
    BY <1>3 DEF Prepared
  <2>2. DOMAIN merged = DOMAIN state.tombstones \cup DOMAIN document.revoked
    BY DEF Merged
  <2>3. state.highest \in Nat
    BY ReleaseOf DEF Known, NoState
  <2> HIDE DEF merged, document
  <2>4. /\ next.highest = document.sequence /\ next.document = document
        /\ next.tombstones = merged
    BY <2>1
  <2>5. Grown(state, next)
    BY <1>1, <2>1, <2>2, <2>3, <2>4 DEF Grown
  <2> QED BY <1>1, <2>2, <2>4, <2>5 DEF Known, document
<1> QED BY <1>2, <1>3

LEMMA RefreshStep ==
  ASSUME ChannelInv, NEW v \in Verifiers, NEW c \in Channels,
         NEW r \in DOMAIN Releases[c], VerifyRefresh(v, c, r)
  PROVE  ChannelsOK' /\ VerificationsOK'
<1>1. r \in 0..Len(Releases[c])
  <2>1. Releases[c] \in Seq(Release)
    BY ContextChannelsAssumption
  <2> QED BY <2>1
<1>2. ChannelsOK'
  BY <1>1 DEF ChannelInv, ChannelsOK, VerifyRefresh, Known
<1> DEFINE at == [pc |-> "refreshed", channel |-> c, release |-> Releases[c][r]]
<1>3. Carries(at)
  BY DEF Carries
<1>4. verifications' = [verifications EXCEPT ![v] = at]
  BY DEF VerifyRefresh
<1> HIDE DEF at
<1> QED BY <1>2, <1>3, <1>4 DEF ChannelInv, VerificationsOK

LEMMA PrepareStep ==
  ASSUME ChannelInv, NEW v \in Verifiers, VerifyPrepare(v)
  PROVE  VerificationsOK'
<1> DEFINE c == verifications[v].channel
           release == verifications[v].release
<1>1. c \in Channels
  BY DEF ChannelInv, VerificationsOK, Carries, VerifyPrepare, Idle
<1>2. PICK r \in DOMAIN Releases[c] : release = Releases[c][r]
  BY DEF ChannelInv, VerificationsOK, Carries, VerifyPrepare, Idle
<1>3. PICK next \in Prepared(index[c], Document(release)) :
        verifications' = [verifications EXCEPT ![v] =
          [pc |-> "prepared", channel |-> c, listed |-> release.listed,
           basis |-> index[c], next |-> next]]
  BY DEF VerifyPrepare
<1> DEFINE at == [pc |-> "prepared", channel |-> c, listed |-> release.listed,
                  basis |-> index[c], next |-> next]
<1>4. release.listed \in Listing
  BY <1>1, <1>2, ReleaseOf
<1>5. index[c] = NoState \/ Known(c, index[c])
  BY <1>1 DEF ChannelInv, ChannelsOK
<1> HIDE DEF c, release
<1>6. Known(c, next) /\ Grown(index[c], next)
  BY <1>1, <1>2, <1>3, <1>5, PreparedKnown
<1>7. Carries(at)
  BY <1>1, <1>4, <1>6 DEF Carries
<1>8. verifications' = [verifications EXCEPT ![v] = at]
  BY <1>3
<1> HIDE DEF at
<1> QED BY <1>7, <1>8 DEF ChannelInv, VerificationsOK

LEMMA WriteStep ==
  ASSUME ChannelInv, NEW v \in Verifiers, VerifyWrite(v)
  PROVE  ChannelsOK' /\ VerificationsOK' /\ Kept
<1> DEFINE at == verifications[v]
           c == at.channel
           list == Reported(at.next, at.listed)
           written == [pc |-> "written", channel |-> c, list |-> list]
<1>1. /\ c \in Channels /\ at.listed \in Listing
      /\ Known(c, at.next) /\ Grown(at.basis, at.next)
  BY DEF ChannelInv, VerificationsOK, Carries, VerifyWrite, Idle
<1>2. /\ at.pc = "prepared"
      /\ verifications' = [verifications EXCEPT ![v] = written]
      /\ tuf' = tuf
      /\ index' = IF at.next = at.basis THEN index
                  ELSE [index EXCEPT ![c] = at.next]
  BY DEF VerifyWrite
<1>3. Carries(written)
  <2>1. /\ DOMAIN list = DOMAIN at.listed
        /\ \A x \in DOMAIN list :
             list[x] = [identity |-> at.listed[x],
                        revoked |-> x \in DOMAIN at.next.tombstones]
    BY DEF Reported
  <2>2. /\ DOMAIN at.listed \subseteq Archives
        /\ \A x \in DOMAIN at.listed : at.listed[x] \in Identities
    BY <1>1 DEF Listing
  <2>3. ASSUME NEW x \in DOMAIN list
        PROVE  list[x] \in Status
    <3>1. (x \in DOMAIN at.next.tombstones) \in BOOLEAN
      OBVIOUS
    <3>2. PICK b \in BOOLEAN :
            list[x] = [identity |-> at.listed[x], revoked |-> b]
      BY <2>1, <3>1, Zenon
    <3>3. at.listed[x] \in Identities
      BY <2>1, <2>2
    <3> QED BY <3>2, <3>3 DEF Status
  <2> HIDE DEF list
  <2> QED BY <1>1, <2>1, <2>2, <2>3 DEF Carries
<1> HIDE DEF at, c, written
<1>4. VerificationsOK'
  BY <1>2, <1>3 DEF ChannelInv, VerificationsOK
<1>5. ChannelsOK'
  BY <1>1, <1>2 DEF ChannelInv, ChannelsOK
<1>6. Kept
  <2> SUFFICES ASSUME NEW d \in Channels, ~\E w \in Verifiers : Overtaken(w)
               PROVE  Grown(index[d], index'[d])
    BY DEF Kept
  <2>1. CASE index'[d] = index[d]
    BY <2>1, GrownItself DEF ChannelInv, ChannelsOK
  <2>2. CASE index'[d] # index[d]
    <3>1. d = c /\ index'[d] = at.next
      BY <1>1, <1>2, <2>2 DEF ChannelInv, ChannelsOK
    <3>2. at.basis = index[c]
      BY <1>2 DEF Overtaken, at, c
    <3> QED BY <1>1, <3>1, <3>2
  <2> QED BY <2>1, <2>2
<1> QED BY <1>4, <1>5, <1>6

\* A verification that ends carries nothing.
LEMMA EndedStep ==
  ASSUME ChannelInv, NEW v \in Verifiers,
         verifications' = [verifications EXCEPT ![v] = Idle]
  PROVE  VerificationsOK'
BY DEF ChannelInv, VerificationsOK, Carries

-----------------------------------------------------------------------------
(* The theorems.                                                           *)

LEMMA ChannelInit == Init => ChannelInv
<1> SUFFICES ASSUME Init PROVE ChannelInv
  OBVIOUS
<1>1. DOMAIN << >> = {} /\ Len(<< >>) = 0
  OBVIOUS
<1>2. << >> \in Seq([package : Packages, previous : Nat])
  OBVIOUS
<1>3. StoreInv(EmptyStore)
  BY <1>1, <1>2 DEF StoreInv, StoreOK, EmptyStore, Columns
<1>4. \A c \in Channels : 0 \in 0..Len(Releases[c])
  <2>1. \A c \in Channels : Releases[c] \in Seq(Release)
    BY ContextChannelsAssumption
  <2>2. \A c \in Channels : Len(Releases[c]) \in Nat
    BY <2>1
  <2> QED BY <2>2
<1> QED BY <1>3, <1>4 DEF Init, ChannelInv, ChannelsOK, VerificationsOK, Carries,
                         EditingOK, ReportedStaysRevoked

\* What a step of the application does, besides preserving the invariant.
StepOK == StoreStepOK /\ Kept

LEMMA ChannelStep ==
  ASSUME ChannelInv, [Next]_vars
  PROVE  ChannelInv' /\ StepOK
<1> DEFINE Reports == aux_reported' \subseteq Identities /\ ReportedStaysRevoked'
           Quiet == StoreStepOK /\ Reports
<1>1. ASSUME UNCHANGED <<store, aux_reported>>
      PROVE  Quiet
  BY <1>1 DEF ChannelInv, StoreStepOK, Revival, Edited, ReportedStaysRevoked
<1>2. ASSUME StoreStepOK, StatusesKept, UNCHANGED aux_reported
      PROVE  Quiet
  BY <1>2 DEF ChannelInv, ReportedStaysRevoked, RevokedIdentities, StatusesKept
<1>3. ASSUME UNCHANGED <<index, tuf>>
      PROVE  ChannelsOK' /\ Kept
  BY <1>3, GrownItself DEF ChannelInv, ChannelsOK, Kept
<1>4. ASSUME UNCHANGED index PROVE Kept
  BY <1>4, GrownItself DEF ChannelInv, ChannelsOK, Kept
<1>5. ASSUME UNCHANGED verifications PROVE VerificationsOK'
  BY <1>5 DEF ChannelInv, VerificationsOK
<1>6. ASSUME UNCHANGED editing PROVE EditingOK'
  BY <1>6 DEF ChannelInv, EditingOK
<1> DEFINE Done == Quiet /\ ChannelsOK' /\ Kept /\ VerificationsOK' /\ EditingOK'
<1>7. Done => ChannelInv' /\ StepOK
  BY DEF ChannelInv, StepOK, StoreStepOK
<1> HIDE DEF Quiet
<1>8. ASSUME NEW v \in Verifiers, NEW c \in Channels,
             NEW r \in DOMAIN Releases[c], VerifyRefresh(v, c, r)
      PROVE  Done
  <2>1. UNCHANGED <<store, aux_reported>> /\ UNCHANGED index /\ UNCHANGED editing
    BY <1>8 DEF VerifyRefresh
  <2> QED BY <1>1, <1>4, <1>6, <1>8, <2>1, RefreshStep
<1>9. ASSUME NEW v \in Verifiers, VerifyPrepare(v)
      PROVE  Done
  <2>1. /\ UNCHANGED <<store, aux_reported>> /\ UNCHANGED <<index, tuf>>
        /\ UNCHANGED editing
    BY <1>9 DEF VerifyPrepare
  <2> QED BY <1>1, <1>3, <1>6, <1>9, <2>1, PrepareStep
<1>10. ASSUME NEW v \in Verifiers, VerifyWrite(v)
       PROVE  Done
  <2>1. UNCHANGED <<store, aux_reported>> /\ UNCHANGED editing
    BY <1>10 DEF VerifyWrite
  <2> QED BY <1>1, <1>6, <1>10, <2>1, WriteStep
<1>11. ASSUME NEW v \in Verifiers, VerifyApply(v)
       PROVE  Done
  <2>1. /\ UNCHANGED <<index, tuf>> /\ UNCHANGED editing
        /\ verifications' = [verifications EXCEPT ![v] = Idle]
    BY <1>11 DEF VerifyApply
  <2>2. VerificationsOK'
    BY <2>1, EndedStep
  <2> QED BY <1>3, <1>6, <1>11, <2>1, <2>2, ApplyStep DEF Quiet
<1>12. ASSUME NEW v \in Verifiers, VerifyFails(v)
       PROVE  Done
  <2>1. /\ UNCHANGED <<store, aux_reported>> /\ UNCHANGED <<index, tuf>>
        /\ UNCHANGED editing
        /\ verifications' = [verifications EXCEPT ![v] = Idle]
    BY <1>12 DEF VerifyFails
  <2> QED BY <1>1, <1>3, <1>6, <2>1, EndedStep
<1>13. ASSUME NEW p \in Packages, ActivateContext(p)
       PROVE  Done
  <2>1. /\ UNCHANGED <<index, tuf>> /\ UNCHANGED editing
        /\ UNCHANGED verifications /\ UNCHANGED aux_reported
        /\ store' \in Activate(store, p)
    BY <1>13 DEF ActivateContext
  <2>2. StoreStepOK /\ StatusesKept
    BY <2>1, ActivateStep DEF ChannelInv
  <2> QED BY <1>2, <1>3, <1>5, <1>6, <2>1, <2>2
<1>14. ASSUME RollbackContext
       PROVE  Done
  <2>1. /\ UNCHANGED <<index, tuf>> /\ UNCHANGED editing
        /\ UNCHANGED verifications /\ UNCHANGED aux_reported
        /\ store' \in Rollback(store)
    BY <1>14 DEF RollbackContext
  <2>2. StoreStepOK /\ StatusesKept
    BY <2>1, RollbackStep DEF ChannelInv
  <2> QED BY <1>2, <1>3, <1>5, <1>6, <2>1, <2>2
<1>15. ASSUME FindTargets
       PROVE  Done
  <2>1. /\ UNCHANGED <<store, aux_reported>> /\ UNCHANGED <<index, tuf>>
        /\ UNCHANGED verifications
        /\ editing' = ActivePackage(store)
    BY <1>15 DEF FindTargets
  <2>2. EditingOK'
    BY <2>1, ActiveInstalled DEF EditingOK, ChannelInv
  <2> QED BY <1>1, <1>3, <1>5, <2>1, <2>2
<1>16. ASSUME NEW t \in Targets, EditTarget(t)
       PROVE  Done
  <2>1. /\ UNCHANGED <<index, tuf>> /\ UNCHANGED editing
        /\ UNCHANGED verifications /\ UNCHANGED aux_reported
    BY <1>16 DEF EditTarget
  <2>2. StoreStepOK /\ StatusesKept
    BY <1>16, EditStep DEF ChannelInv
  <2> QED BY <1>2, <1>3, <1>5, <1>6, <2>1, <2>2
<1>17. ASSUME UNCHANGED vars
       PROVE  Done
  <2>1. /\ UNCHANGED <<store, aux_reported>> /\ UNCHANGED <<index, tuf>>
        /\ UNCHANGED verifications /\ UNCHANGED editing
    BY <1>17 DEF vars
  <2> QED BY <1>1, <1>3, <1>5, <1>6, <2>1
<1> HIDE DEF Done
<1> QED
  BY <1>7, <1>8, <1>9, <1>10, <1>11, <1>12, <1>13, <1>14, <1>15, <1>16, <1>17
     DEF Next

LEMMA ChannelInvariant == Spec => []ChannelInv
<1>1. ChannelInv /\ [Next]_vars => ChannelInv'
  BY ChannelStep
<1> QED BY <1>1, ChannelInit, PTL DEF Spec

LEMMA ChannelTyped == ChannelInv => TypeOK
<1> SUFFICES ASSUME ChannelInv PROVE TypeOK
  OBVIOUS
<1>1. \A c \in Channels :
        index[c] = NoState \/ \E r \in DOMAIN Releases[c] :
          index[c].document = Document(Releases[c][r])
  BY DEF ChannelInv, ChannelsOK, Known
<1>2. editing \subseteq Packages /\ Cardinality(editing) <= 1
  <2>1. Cardinality({}) = 0 /\ \A p : Cardinality({p}) = 1
    BY FS_EmptySet, FS_Singleton
  <2>2. CASE editing = {}
    BY <2>1, <2>2
  <2>3. ASSUME NEW p \in Packages, editing = {p}
        PROVE  editing \subseteq Packages /\ Cardinality(editing) <= 1
    <3>1. Cardinality(editing) = 1
      BY <2>1, <2>3
    <3> QED BY <2>3, <3>1
  <2> QED BY <2>2, <2>3 DEF ChannelInv, EditingOK
<1>3. \A v \in Verifiers :
        verifications[v].pc \in {"idle", "refreshed", "prepared", "written"}
  BY DEF ChannelInv, VerificationsOK, Carries, Idle
<1> QED BY <1>1, <1>2, <1>3 DEF ChannelInv, ChannelsOK, StoreInv, TypeOK

\* Every reference of the context store resolves, and a verification is always
\* at one of its steps.
THEOREM ChannelsType == Spec => []TypeOK
BY ChannelInvariant, ChannelTyped, PTL

\* A revocation that a verification has reported is never lost, whatever
\* verifications of older releases are applied after it.
THEOREM RevocationsStay == Spec => []ReportedStaysRevoked
<1>1. ChannelInv => ReportedStaysRevoked
  BY DEF ChannelInv
<1> QED BY <1>1, ChannelInvariant, PTL

\* The file of a channel names a document of which it has every revocation,
\* although verifications read, prepare and replace it without a lock.
THEOREM IndexComplete == Spec => []IndexKnowsItsDocument
<1>1. ChannelInv => IndexKnowsItsDocument
  BY DEF ChannelInv, ChannelsOK, Known, IndexKnowsItsDocument
<1> QED BY <1>1, ChannelInvariant, PTL

\* A revoked context comes into force by a rollback and in no other way.
THEOREM RevivedByRollback == Spec => OnlyRollbackRevives
<1>1. ChannelInv /\ [Next]_vars =>
        [ActiveIsRevoked(store') =>
           \/ store'.active = Previous(store)
           \/ store'.active = store.active /\ store'.statuses = store.statuses]_store
  BY ChannelStep DEF StepOK, StoreStepOK, Revival
<1> QED BY <1>1, ChannelInvariant, PTL DEF Spec, OnlyRollbackRevives

\* Without an overtaken verification, a channel never forgets a revocation and
\* its sequence never goes back.
THEOREM TombstonesGrow == Spec => TombstonesAppendOnly
<1>1. ChannelInv /\ [Next]_vars =>
        [\A c \in Channels :
           (~\E v \in Verifiers : Overtaken(v)) =>
             /\ DOMAIN index[c].tombstones \subseteq DOMAIN index'[c].tombstones
             /\ index[c].highest <= index'[c].highest]_index
  BY ChannelStep DEF StepOK, Kept, Grown
<1> QED BY <1>1, ChannelInvariant, PTL DEF Spec, TombstonesAppendOnly

\* An edit never lands in a context that was activated after the operator was
\* shown the targets of another one.
THEOREM EditsStayPut == Spec => EditsHitTheContextShown
<1>1. ChannelInv /\ [Next]_vars =>
        [\A k \in DOMAIN store.drafts \cup DOMAIN store'.drafts :
           \/ k[1] \in editing
           \/ /\ k \in DOMAIN store.drafts \cap DOMAIN store'.drafts
              /\ store.drafts[k] = store'.drafts[k]]_store
  BY ChannelStep DEF StepOK, StoreStepOK, Edited
<1> QED BY <1>1, ChannelInvariant, PTL DEF Spec, EditsHitTheContextShown

=============================================================================
