----------------------------- MODULE Recognition -----------------------------
(***************************************************************************)
(* The recogniser (crates/semantic-engine-core): what a round answers to a *)
(* submission, as operators without state.  Strings are abstracted to what *)
(* the code asks of them: their normal form, that form without spaces, and *)
(* the score of two such forms, in hundredths.                             *)
(***************************************************************************)
EXTENDS Integers, Sequences, FiniteSets, FiniteSetsExt

CONSTANTS
  Normalized,  \* normalize_expression, of every text and expression
  Compact,     \* a normal form without its spaces
  Short,       \* the compact forms of less than four characters
  Likeness,    \* fuzzy_score of two compact forms
  LongTexts,   \* texts of more than MAX_SUBMISSION_CHARS
  LongExpressions, \* texts of more than MAX_EXPRESSION_CHARS, or with controls
  BadParticipants, \* identifiers that are empty or too long
  Empty,       \* the normal form of nothing
  NoTarget, NoExpression

\* A round is [id, targets, accept, review, margin]; its targets are a
\* sequence of [id, expressions].  A submission is [message, participant, text].
\* MC modules only hold rounds that the preflight of a session accepts.

\* The field `matched' is the matched_expression of the evidence.
Answer(decision, target, score, evidence, matched) ==
  [decision |-> decision, target |-> target, score |-> score,
   evidence |-> evidence, matched |-> matched, issue |-> FALSE]

Rejected(score) == Answer("rejected", NoTarget, score, "none", NoExpression)

\* validation_issue, for a round that is valid.
Issue(submission) ==
  submission.participant \in BadParticipants \/ submission.text \in LongTexts

Form(text) == Compact[Normalized[text]]

\* The expressions of a target that equal the text, but for spaces.
Equals(target, text) == {e \in target.expressions : Form(e) = Form(text)}

\* The targets with such an expression.
ExactMatches(round, text) ==
  {i \in DOMAIN round.targets :
     /\ Normalized[text] # Empty
     /\ Equals(round.targets[i], text) # {}}

Score(round, text, i) ==
  Max({Likeness[<<Form(text), Form(e)>>] : e \in round.targets[i].expressions})

\* The expressions of target i that come closest to the text.
Closest(round, text, i) ==
  {e \in round.targets[i].expressions :
     Likeness[<<Form(text), Form(e)>>] = Score(round, text, i)}

\* The stable sort of the candidates: i comes before j.
Before(round, text, i, j) ==
  LET a == Score(round, text, i) b == Score(round, text, j)
  IN  a > b \/ (a = b /\ i < j)

FirstOf(round, text, candidates) ==
  CHOOSE i \in candidates :
    \A j \in candidates \ {i} : Before(round, text, i, j)

\* Mutant: the best candidate wins whatever comes second.
AmbiguousNever(round, text, best, others) == FALSE

Ambiguous(round, text, best, others) ==
  /\ others # {}
  /\ LET runnerUp == Score(round, text, FirstOf(round, text, others))
     IN  /\ runnerUp >= round.review
         /\ Score(round, text, best) - runnerUp < round.margin

ValidateFuzzy(round, text) ==
  LET best   == FirstOf(round, text, DOMAIN round.targets)
      score  == Score(round, text, best)
      unsure == Ambiguous(round, text, best, DOMAIN round.targets \ {best})
  IN  IF Form(text) \in Short THEN Rejected(0)
      ELSE IF score < round.review THEN Rejected(score)
      ELSE Answer(IF score >= round.accept /\ ~unsure THEN "accepted" ELSE "abstained",
                  IF unsure THEN NoTarget ELSE round.targets[best].id,
                  score, IF unsure THEN "ambiguous" ELSE "fuzzy",
                  CHOOSE e \in Closest(round, text, best) : TRUE)

\* Validator::validate.
Validate(round, submission) ==
  LET exact == ExactMatches(round, submission.text)
  IN  IF Issue(submission) THEN [Rejected(0) EXCEPT !.issue = TRUE]
      ELSE IF exact = {} THEN ValidateFuzzy(round, submission.text)
      ELSE IF Cardinality(exact) = 1
           THEN LET target == round.targets[Max(exact)]
                IN  Answer("accepted", target.id, 100, "configured",
                           CHOOSE e \in Equals(target, submission.text) : TRUE)
           ELSE Answer("abstained", NoTarget, 100, "ambiguous", submission.text)

\* resolve_validation: an accepting resolution names a target of the round.
Acceptable(round, target) == \E i \in DOMAIN round.targets : round.targets[i].id = target
=============================================================================
