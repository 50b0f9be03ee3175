----------------------------- MODULE AuditStore -----------------------------
(***************************************************************************)
(* The audit of validations and operator resolutions                       *)
(* (crates/semantic-engine-audit-store).  The table audit_validations is   *)
(* the sequence of its rows in the order of their column `sequence'; a row *)
(* carries the resolution that audit_resolutions holds for it.  Every      *)
(* write is one SQLite transaction, so a write is an operator from a table *)
(* to the set of tables it may commit: the empty set when the store        *)
(* answers Conflict or MissingValidation and commits nothing.              *)
(*                                                                         *)
(* A verdict stands for the pair (decision, target_id) of a validation: a  *)
(* target for an acceptance, otherwise the decision itself.  An origin     *)
(* stands for the pair (participant_id, source_sequence).                  *)
(***************************************************************************)
EXTENDS Integers, Sequences

CONSTANTS
  Rounds,        \* identifiers of rounds
  Messages,      \* identifiers of messages
  Origins,       \* who wrote a message, and its position in the source
  Contexts,      \* fingerprints of context packages
  Targets,       \* identifiers of the targets of the rounds
  NoResolution,  \* a row without a row in audit_resolutions
  MaxAudit       \* RetentionPolicy.max_validations

ASSUME AuditAssumption ==
  /\ MaxAudit \in Nat \ {0}
  /\ Targets \cap {"rejected", "abstained"} = {}
  /\ NoResolution \notin Targets \cup {"rejected", "abstained"}

Verdicts == Targets \cup {"rejected", "abstained"}

\* What an operator may decide: accept a target, or reject.
Resolutions == Targets \cup {"rejected"}

Decision(verdict) == IF verdict \in Targets THEN "accepted" ELSE verdict

AuditRow ==
  [round : Rounds, message : Messages, origin : Origins, context : Contexts,
   verdict : Verdicts, resolution : Resolutions \cup {NoResolution}]

\* UNIQUE(round_id, message_id): the rows of one identity (at most one).
RowsOf(rows, round, message) ==
  {i \in DOMAIN rows : rows[i].round = round /\ rows[i].message = message}

Identities(rows) == {<<rows[i].round, rows[i].message>> : i \in DOMAIN rows}

(***************************************************************************)
(* apply_retention, after an insert: rows that are too old go, then all    *)
(* but the newest MaxAudit.  Time is not modelled, so any number of the    *)
(* oldest rows may be too old; the row just inserted never is.             *)
(***************************************************************************)
Retained(rows) ==
  {SubSeq(rows, k, Len(rows)) :
     k \in {k \in 1 .. Len(rows) : Len(rows) - k + 1 <= MaxAudit}}

SamePayload(row, other) ==
  /\ row.origin = other.origin
  /\ row.context = other.context
  /\ row.verdict = other.verdict

\* Mutant: INSERT OR IGNORE, a conflict is taken for a repetition.
RecordValidationIgnoring(rows, row) ==
  IF RowsOf(rows, row.round, row.message) = {}
  THEN Retained(Append(rows, row)) ELSE {rows}

\* Mutant: a different payload becomes a second row of the identity.
RecordValidationTwice(rows, row) ==
  IF \E i \in RowsOf(rows, row.round, row.message) : SamePayload(rows[i], row)
  THEN {rows} ELSE Retained(Append(rows, row))

(***************************************************************************)
(* record_validation: the same payload again is accepted and changes       *)
(* nothing, another payload under the same identity is a Conflict.         *)
(***************************************************************************)
RecordValidation(rows, row) ==
  LET existing == RowsOf(rows, row.round, row.message)
  IN  IF existing = {}
      THEN Retained(Append(rows, row))
      ELSE IF \A i \in existing : SamePayload(rows[i], row) THEN {rows} ELSE {}

\* Mutant: a later resolution replaces an earlier one.
RecordResolutionOver(rows, round, message, origin, verdict, resolution) ==
  {[rows EXCEPT ![i].resolution = resolution] :
     i \in {i \in RowsOf(rows, round, message) : rows[i].origin = origin}}

(***************************************************************************)
(* record_resolution: needs the validation, recorded with the same author  *)
(* and decision, and either no resolution yet or exactly this one.         *)
(***************************************************************************)
RecordResolution(rows, round, message, origin, verdict, resolution) ==
  {[rows EXCEPT ![i].resolution = resolution] :
     i \in {i \in RowsOf(rows, round, message) :
              /\ rows[i].origin = origin
              /\ Decision(rows[i].verdict) = Decision(verdict)
              /\ rows[i].resolution \in {NoResolution, resolution}}}
=============================================================================
