------------------------- MODULE MCContextChannels -------------------------
(***************************************************************************)
(* Small instances of ContextChannels for TLC.                             *)
(***************************************************************************)
EXTENDS ContextChannels, TLC

CONSTANTS p1, p2, p3, i1, i2, c1, x1, x2, t1, v1, v2

\* p3 has other bytes than p1 under the same identity.
Declared == (p1 :> i1) @@ (p2 :> i2) @@ (p3 :> i1)
Published == (p1 :> {t1}) @@ (p2 :> {t1}) @@ (p3 :> {})

Both == (x1 :> i1) @@ (x2 :> i2)

\* First nothing is revoked; then one archive; then a document that omits it
\* and revokes the other; then another document under the same sequence, with
\* an archive under another identity.
PublishedReleases == (c1 :> <<
  [sequence |-> 1, revoked |-> << >>, listed |-> Both],
  [sequence |-> 2, revoked |-> x1 :> i1, listed |-> Both],
  [sequence |-> 3, revoked |-> x2 :> i2, listed |-> Both],
  [sequence |-> 3, revoked |-> << >>, listed |-> x1 :> i2] >>)

Interchangeable == Permutations(Verifiers)
=============================================================================
