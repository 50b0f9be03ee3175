---------------------------- MODULE ContextStore ----------------------------
(***************************************************************************)
(* The installed contexts (crates/semantic-engine-context-store).  A store *)
(* is a record: versions, the packages installed (rows of context_versions,*)
(* known by the SHA-256 of their bytes); history, the activations, each    *)
(* with the one it replaced; active, the activation in force (0 is NULL in *)
(* context_state); statuses, what trusted channels said of an archive;     *)
(* drafts, the edited targets.  Every write is one transaction: an operator*)
(* to the set of stores it may commit, empty when it is refused.           *)
(*                                                                         *)
(* A package, an identity (id and version) and a draft's payload are       *)
(* values; the payload of a version, a function of its bytes, is left out. *)
(***************************************************************************)
EXTENDS Integers, Sequences, FiniteSets

CONSTANTS
  Packages,   \* SHA-256 of packages that can be imported
  Identities, \* pairs (package_id, version)
  Channels,   \* SHA-256 of trusted roots
  Archives,   \* SHA-256 of archives that channels list
  Targets,    \* identifiers of answer targets
  Edits,      \* contents of a draft
  IdentityOf, \* the identity a package declares
  TargetsOf   \* the targets a package publishes

ASSUME ContextStoreAssumption ==
  /\ IdentityOf \in [Packages -> Identities]
  /\ TargetsOf \in [Packages -> SUBSET Targets]

Status == [identity : Identities, revoked : BOOLEAN]
Activation(n) == [package : Packages, previous : 0..n]

EmptyStore == [versions |-> {}, history |-> << >>, active |-> 0,
               statuses |-> << >>, drafts |-> << >>]

\* Every reference resolves, as the foreign keys of the tables demand.
StoreOK(s) ==
  /\ s.versions \subseteq Packages
  /\ \A n \in DOMAIN s.history : /\ s.history[n] \in Activation(n - 1)
                                 /\ s.history[n].package \in s.versions
  /\ s.active \in 0..Len(s.history)
  /\ DOMAIN s.statuses \subseteq Channels \X Archives
  /\ \A k \in DOMAIN s.statuses : s.statuses[k] \in Status
  /\ \A k \in DOMAIN s.drafts : /\ k[1] \in s.versions
                                /\ k[2] \in TargetsOf[k[1]]
                                /\ s.drafts[k] \in Edits

\* active_context, current: the package in force, as a set of at most one.
ActivePackage(s) == IF s.active = 0 THEN {} ELSE {s.history[s.active].package}

\* identity_is_revoked: by any channel, under any archive.
RevokedIdentities(s) ==
  {s.statuses[k].identity : k \in {l \in DOMAIN s.statuses : s.statuses[l].revoked}}

ActiveIsRevoked(s) ==
  \E p \in ActivePackage(s) : IdentityOf[p] \in RevokedIdentities(s)

\* The activation that a rollback would return to, 0 when there is none.
Previous(s) == IF s.active = 0 THEN 0 ELSE s.history[s.active].previous

\* Mutant: the activation is recorded without its version.
InstalledUnversioned(s, p) ==
  [s EXCEPT !.history = Append(@, [package |-> p, previous |-> s.active]),
            !.active = Len(s.history) + 1]

Installed(s, p) ==
  [s EXCEPT !.versions = @ \cup {p},
            !.history = Append(@, [package |-> p, previous |-> s.active]),
            !.active = Len(s.history) + 1]

\* Mutant: only the channel status of the active context is consulted.
ActivateRevoked(s, p) ==
  IF p \in ActivePackage(s) THEN {s}
  ELSE IF \E q \in s.versions : IdentityOf[q] = IdentityOf[p] /\ q # p THEN {}
  ELSE {Installed(s, p)}

\* activate: refused for a revoked identity and for other bytes under an
\* installed identity; the active package again only refreshes its payload.
Activate(s, p) ==
  IF IdentityOf[p] \in RevokedIdentities(s) THEN {}
  ELSE IF p \in ActivePackage(s) THEN {s}
  ELSE IF \E q \in s.versions : IdentityOf[q] = IdentityOf[p] /\ q # p THEN {}
  ELSE {Installed(s, p)}

\* rollback: the previous activation is in force again, whatever channels say.
Rollback(s) == IF Previous(s) = 0 THEN {} ELSE {[s EXCEPT !.active = Previous(s)]}

\* An upsert: the rows of `rows' replace those with their primary keys.
Overlay(rows, table) ==
  [k \in DOMAIN rows \cup DOMAIN table |->
     IF k \in DOMAIN rows THEN rows[k] ELSE table[k]]

\* Mutant: the latest report replaces the reason.
UpsertedLatest(s, k, status) == status

\* The upsert of one row: a reason once stored stays (COALESCE).
Upserted(s, k, status) ==
  [status EXCEPT !.revoked = @ \/ (k \in DOMAIN s.statuses /\ s.statuses[k].revoked)]

\* A row whose archive is listed under another identity: the call is refused.
IdentityConflict(s, channel, list) ==
  \E x \in DOMAIN list : /\ <<channel, x>> \in DOMAIN s.statuses
                         /\ s.statuses[<<channel, x>>].identity # list[x].identity

\* The active context is taken out of force when its identity is revoked.
Quarantined(s) == IF ActiveIsRevoked(s) THEN [s EXCEPT !.active = 0] ELSE s

\* apply_channel_statuses: `list' is what one channel says of its archives.
ApplyChannelStatuses(s, channel, list) ==
  LET rows == [k \in {channel} \X DOMAIN list |-> Upserted(s, k, list[k[2]])]
  IN  IF IdentityConflict(s, channel, list) THEN {}
      ELSE {Quarantined([s EXCEPT !.statuses = Overlay(rows, @)])}

\* Mutant: the draft goes to whatever context is active.
SaveTargetDraftAnywhere(s, p, t, e) ==
  {[s EXCEPT !.drafts = Overlay([k \in {<<q, t>>} |-> e], @)] :
     q \in {a \in ActivePackage(s) : t \in TargetsOf[a]}}

\* save_target_draft, discard_target_draft: for the package the caller saw.
SaveTargetDraft(s, p, t, e) ==
  IF p \in ActivePackage(s) /\ t \in TargetsOf[p]
  THEN {[s EXCEPT !.drafts = Overlay([k \in {<<p, t>>} |-> e], @)]} ELSE {}

DiscardTargetDraft(s, p, t) ==
  IF p \in ActivePackage(s)
  THEN {[s EXCEPT !.drafts = [k \in DOMAIN @ \ {<<p, t>>} |-> @[k]]]} ELSE {}
=============================================================================
