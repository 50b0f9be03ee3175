---------------------------- MODULE ContextIndex ----------------------------
(***************************************************************************)
(* What the client of a trusted channel keeps and computes                 *)
(* (crates/semantic-engine-context-index).  A release is what a signed     *)
(* repository says at one TUF version: its revocation document (sequence,  *)
(* revoked, an identity for each archive) and its profile (listed, an      *)
(* identity for each archive).  The state of a channel, the file           *)
(* revocation-state.json, is the highest sequence seen, the document it    *)
(* came from and the tombstones of all documents.                          *)
(*                                                                         *)
(* Releases enumerate documents that pass validate_channel_profile,        *)
(* validate_package and validate_revocations; a document that does not is  *)
(* a verification that fails.  Signatures and expiry are the TUF library's.*)
(***************************************************************************)
EXTENDS Integers, FiniteSets

CONSTANTS
  NoDocument,    \* no document was seen yet
  MaxTombstones  \* MAX_REVOCATION_TOMBSTONES

ASSUME ContextIndexAssumption == MaxTombstones \in Nat

\* The default state when the file does not exist.
NoState == [highest |-> 0, document |-> NoDocument, tombstones |-> << >>]

\* Mutant: a later document replaces the tombstones.
MergedReplacing(tombstones, revoked) == revoked

\* The entries of a document are added; a tombstone that exists is kept.
Merged(tombstones, revoked) ==
  [x \in DOMAIN tombstones \cup DOMAIN revoked |->
     IF x \in DOMAIN tombstones THEN tombstones[x] ELSE revoked[x]]

\* Mutant: the sequence is recorded without the entries of the document.
PreparedEmpty(state, document) ==
  IF document.sequence < state.highest THEN {}
  ELSE {[highest |-> document.sequence, document |-> document,
         tombstones |-> state.tombstones]}

\* prepare_revocation_state: the states to work with; none for a sequence that
\* goes back, another document under the same sequence, or too many tombstones.
Prepared(state, document) ==
  LET merged == Merged(state.tombstones, document.revoked) IN
  IF document.sequence = state.highest
  THEN {s \in {state} : s.document = document}
  ELSE IF document.sequence > state.highest /\ Cardinality(DOMAIN merged) <= MaxTombstones
  THEN {[highest |-> document.sequence, document |-> document, tombstones |-> merged]}
  ELSE {}

\* The loop of inspect_offline_channel over the packages: a tombstone under
\* another identity, one identity twice or no package refuses the channel.
Consistent(state, listed) ==
  /\ DOMAIN listed # {}
  /\ \A x, y \in DOMAIN listed : listed[x] = listed[y] => x = y
  /\ \A x \in DOMAIN listed \cap DOMAIN state.tombstones :
       state.tombstones[x] = listed[x]

\* What the inspection reports of the packages that are listed.
Reported(state, listed) ==
  [x \in DOMAIN listed |->
     [identity |-> listed[x], revoked |-> x \in DOMAIN state.tombstones]]
=============================================================================
