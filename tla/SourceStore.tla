---------------------------- MODULE SourceStore ----------------------------
(***************************************************************************)
(* The table input_sources (crates/semantic-engine-source).  A row is what *)
(* concurrent callers see of a source: whether it should listen, and the   *)
(* revision every write is conditional on.  A write is one statement on    *)
(* one row: an operator from the row to the rows it may leave, the empty   *)
(* set when the store answers Missing, Conflict or MustBePaused.           *)
(***************************************************************************)
EXTENDS Integers

CONSTANT NoRow  \* the source does not exist (any more)

SourceRow == [desired : {"paused", "active"}, revision : Nat \ {0}]

ASSUME NoRowAssumption == NoRow \notin SourceRow

Current(row, expected) == row # NoRow /\ row.revision = expected

\* Mutant: the statement forgets the revision.
UpdateAnyRevision(row, expected) ==
  IF row # NoRow THEN {[row EXCEPT !.revision = @ + 1]} ELSE {}

\* update: the name, the settings or the credential change, at any state.
UpdateRow(row, expected) ==
  IF Current(row, expected) THEN {[row EXCEPT !.revision = @ + 1]} ELSE {}

\* Mutant: the statement keeps the rows it should change.
SetDesiredInverted(row, expected, desired) ==
  IF ~Current(row, expected) THEN {}
  ELSE IF row.desired # desired THEN {row}
  ELSE {[desired |-> desired, revision |-> row.revision + 1]}

\* set_desired_state: a row already in that state, at that revision, is left
\* as it is and the call succeeds.
SetDesiredState(row, expected, desired) ==
  IF ~Current(row, expected) THEN {}
  ELSE IF row.desired = desired THEN {row}
  ELSE {[desired |-> desired, revision |-> row.revision + 1]}

RemoveRow(row, expected) ==
  IF Current(row, expected) /\ row.desired = "paused" THEN {NoRow} ELSE {}
=============================================================================
