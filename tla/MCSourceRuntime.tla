-------------------------- MODULE MCSourceRuntime --------------------------
(***************************************************************************)
(* Small instances of SourceRuntime for TLC.                               *)
(***************************************************************************)
EXTENDS SourceRuntime, TLC

\* Calls and sources are interchangeable (for safety properties only).
Interchangeable == Permutations(Calls) \cup Permutations(Sources)
=============================================================================
