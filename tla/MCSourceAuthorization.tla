------------------------ MODULE MCSourceAuthorization ------------------------
(* Instances of SourceAuthorization for TLC: a source of each adapter.      *)
EXTENDS SourceAuthorization

CONSTANTS t, y

MCAdapter == [s \in Sources |-> IF s = t THEN Twitch ELSE YouTube]
=============================================================================
