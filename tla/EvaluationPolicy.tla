-------------------------- MODULE EvaluationPolicy --------------------------
(***************************************************************************)
(* Policy v1: from the questions of a content version and the snapshot of  *)
(* a submission to the outcome of every question and the evidence for      *)
(* every objective, and from the evaluations of an assignment to what its  *)
(* teacher is shown.  A question carries the text of its answer; TrueTexts *)
(* and FalseTexts are the texts that, stripped and lowered, say true and   *)
(* false.  A snapshot is a function from the questions that were answered  *)
(* to responses; that the length of texts is limited has no counterpart.   *)
(***************************************************************************)
EXTENDS Naturals, Sequences, FiniteSets, Functions

CONSTANTS TrueTexts, FalseTexts

ASSUME TruthAssumption == TrueTexts \cap FalseTexts = {}

\* QUESTION_TYPE_TO_RESPONSE_KIND; a type of no policy has no kind.
KindOf(type) ==
    CASE type = "multiple_choice" -> "MULTIPLE_CHOICE"
      [] type = "true_false"      -> "TRUE_FALSE"
      [] type = "short_answer"    -> "SHORT_ANSWER"
      [] OTHER                    -> "NONE"

\* The values of responses are texts or truth values.
Text(t) == [text |-> t]
Truth(b) == [bool |-> b]
IsText(value) == DOMAIN value = {"text"}

Item(question, outcome) == [outcome |-> outcome, objectives |-> question.objectives]
Unanswered(question) == Item(question, "UNANSWERED")
PolicyReject(question) == Item(question, "UNEVALUATED_POLICY_REJECT")
Graded(question, right) == Item(question, IF right THEN "CORRECT" ELSE "INCORRECT")

MultipleChoice(question, value) ==
    IF IsText(value) /\ {value.text, question.answer} \subseteq question.options
    THEN Graded(question, value.text = question.answer)
    ELSE PolicyReject(question)

TrueFalse(question, value) ==
    IF ~ IsText(value) /\ question.answer \in TrueTexts \cup FalseTexts
    THEN Graded(question, value.bool <=> question.answer \in TrueTexts)
    ELSE PolicyReject(question)

ShortAnswer(question, value) ==
    IF IsText(value) THEN Item(question, "OPEN_RESPONSE_UNEVALUATED") ELSE PolicyReject(question)

EvaluateQuestion(question, responses) ==
    IF question.id \notin DOMAIN responses THEN Unanswered(question)
    ELSE LET response == responses[question.id]
         IN IF response.kind # KindOf(question.type) THEN PolicyReject(question)
            ELSE CASE question.type = "multiple_choice" -> MultipleChoice(question, response.value)
                   [] question.type = "true_false"      -> TrueFalse(question, response.value)
                   [] question.type = "short_answer"    -> ShortAnswer(question, response.value)

Authoritative == {"CORRECT", "INCORRECT"}

\* Mutant: a question without an answer does not count.
RollupOfGraded(outcomes) ==
    LET graded == outcomes \cap Authoritative
    IN CASE graded = {}            -> "INSUFFICIENT_EVIDENCE"
         [] graded = {"CORRECT"}   -> "DEMONSTRATED_ON_SUBMITTED_ITEMS"
         [] graded = {"INCORRECT"} -> "NOT_YET_DEMONSTRATED_ON_SUBMITTED_ITEMS"
         [] OTHER                  -> "MIXED_ON_SUBMITTED_ITEMS"
Rollup(outcomes) ==
    CASE ~ outcomes \subseteq Authoritative -> "INSUFFICIENT_EVIDENCE"
      [] outcomes = {"CORRECT"}             -> "DEMONSTRATED_ON_SUBMITTED_ITEMS"
      [] outcomes = {"INCORRECT"}           -> "NOT_YET_DEMONSTRATED_ON_SUBMITTED_ITEMS"
      [] outcomes = Authoritative           -> "MIXED_ON_SUBMITTED_ITEMS"

ObjectiveEvidence(items) ==
    [o \in UNION {item.objectives : item \in Range(items)} |->
        Rollup({item.outcome : item \in {i \in Range(items) : o \in i.objectives}})]

\* LearnerAssessmentEvaluationRequest: every question once, every response to
\* a question of the version.
RequestValid(exam, responses) ==
    /\ \A i, k \in DOMAIN exam : exam[i].id = exam[k].id => i = k
    /\ DOMAIN responses \subseteq {exam[i].id : i \in DOMAIN exam}

Evaluate(exam, responses) ==
    LET items == [id \in {exam[i].id : i \in DOMAIN exam} |->
                    EvaluateQuestion(CHOOSE q \in Range(exam) : q.id = id, responses)]
    IN [items |-> items, evidence |-> ObjectiveEvidence(items)]

(***************************************************************************)
(* What a teacher is shown of an assignment: of every submission listed    *)
(* its evaluation, if there is one, and counts over the evaluations.       *)
(***************************************************************************)
CurrentOf(submission, evaluations) == {e \in evaluations : e.submission = submission}
LearnerProjection(submission, evaluations) ==
    IF CurrentOf(submission, evaluations) = {}
    THEN [state |-> "NOT_EVALUATED", items |-> <<>>, evidence |-> <<>>]
    ELSE LET current == CHOOSE e \in CurrentOf(submission, evaluations) : TRUE
         IN [state |-> "CURRENT", items |-> current.result.items, evidence |-> current.result.evidence]

QuestionIdsOf(evaluations) == UNION {DOMAIN e.result.items : e \in evaluations}
CountOf(question, outcome, evaluations) ==
    Cardinality({e \in evaluations : /\ question \in DOMAIN e.result.items
                                     /\ e.result.items[question].outcome = outcome})

\* Mutant: a question that was left open is missed.
MissedOrOpen(evaluations) ==
    LET missed(q) == CountOf(q, "INCORRECT", evaluations) + CountOf(q, "UNANSWERED", evaluations)
    IN [q \in {i \in QuestionIdsOf(evaluations) : missed(i) > 0} |-> missed(q)]
FrequentlyMissed(evaluations) ==
    LET missed(q) == CountOf(q, "INCORRECT", evaluations)
    IN [q \in {i \in QuestionIdsOf(evaluations) : missed(i) > 0} |-> missed(q)]

ObjectiveRollups(evaluations) ==
    [o \in UNION {DOMAIN e.result.evidence : e \in evaluations} |->
        [r \in {"INSUFFICIENT_EVIDENCE", "DEMONSTRATED_ON_SUBMITTED_ITEMS",
                "MIXED_ON_SUBMITTED_ITEMS", "NOT_YET_DEMONSTRATED_ON_SUBMITTED_ITEMS"} |->
            Cardinality({e \in evaluations : /\ o \in DOMAIN e.result.evidence
                                             /\ e.result.evidence[o] = r})]]

Report(listed, evaluations) ==
    [learners |-> [s \in listed |-> LearnerProjection(s, evaluations)],
     evaluated |-> Cardinality(evaluations),
     missed |-> FrequentlyMissed(evaluations),
     objectives |-> ObjectiveRollups(evaluations)]
=============================================================================
