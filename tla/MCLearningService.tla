-------------------------- MODULE MCLearningService --------------------------
(* Instances of LearningService for TLC: a round of three targets, two      *)
(* messages and a text that is as close to each target.  Each message may   *)
(* also come from a participant whose identifier is invalid: with a text of *)
(* its own or, in MCPoisonedRequests, with the same one.                    *)
EXTENDS LearningService

CONSTANTS t1, t2, t3, good, bad, m1, m2

MCRound == [id |-> "r", accept |-> 80, review |-> 60, margin |-> 10,
            targets |-> << [id |-> t1, expressions |-> {"one"}],
                           [id |-> t2, expressions |-> {"two"}],
                           [id |-> t3, expressions |-> {"three"}] >>]

MCTexts == {"one", "two", "three", "alike"}

MCNormalized == [t \in MCTexts |-> t]
MCCompact    == [t \in MCTexts |-> t]
MCLikeness   == [p \in MCTexts \X MCTexts |->
                   IF p[1] = p[2] THEN 100 ELSE IF p[1] = "alike" THEN 85 ELSE 20]

Sent(message, participant, text, context) ==
  [submission |-> [message |-> message, participant |-> participant, text |-> text],
   context |-> context]

MCRequests == {Sent(m, good, "alike", "c") : m \in {m1, m2}}
                \cup {Sent(m, bad, "one", "c") : m \in {m1, m2}}

MCPoisonedRequests == {Sent(m, p, "alike", "c") : m \in {m1, m2}, p \in {good, bad}}

\* The messages are alike, and so are the targets although the round lists
\* them: what it answers to "alike" names none of them.
Symmetry == Permutations({m1, m2}) \cup Permutations({t1, t2, t3})
=============================================================================
