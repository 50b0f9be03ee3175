-------------------------- MODULE MCSessionService --------------------------
(***************************************************************************)
(* Small instances of SessionService for TLC.                              *)
(***************************************************************************)
EXTENDS SessionService, TLC

CONSTANTS s1, s2, s3, r1, c1, c2, m1, m2, o1, o2, t1, x1, x2

OneDefinition == {[round |-> r1, context |-> c1]}

\* Two contexts for one round: the audit identity (round, message) is shared.
TwoContexts == {[round |-> r1, context |-> c1], [round |-> r1, context |-> c2]}

Say(m, o) == [message |-> m, origin |-> o, text |-> t1]

\* Two messages, one of which may also come back from another origin.
TwoMessages == {Say(m1, o1), Say(m2, o1)}
OneMessage == {Say(m1, o1), Say(m1, o2)}

\* The text matches nothing that is configured, so memory may decide.
Unconfigured == [t \in Texts |-> [verdict |-> "rejected", exact |-> FALSE]]
=============================================================================
