---------------------------- MODULE MCEvaluations ----------------------------
EXTENDS Evaluations, TLC

Q(id, type, options, answer, objectives) ==
    [id |-> id, type |-> type, options |-> options, answer |-> answer, objectives |-> objectives]

\* One version with a question of every kind on two objectives, and one whose
\* answers do not fit its questions.
MCExams ==
    {<<Q("q1", "multiple_choice", {"a", "b"}, "a", {"o1"}),
       Q("q2", "true_false", {}, "true", {"o1", "o2"}),
       Q("q3", "short_answer", {}, "a", {"o3"})>>,
     <<Q("q1", "multiple_choice", {"b"}, "a", {"o1"}),
       Q("q2", "true_false", {}, "a", {"o2"})>>}

Choice(t) == [kind |-> "MULTIPLE_CHOICE", value |-> Text(t)]
Says(b) == [kind |-> "TRUE_FALSE", value |-> Truth(b)]
Writes(t) == [kind |-> "SHORT_ANSWER", value |-> Text(t)]

\* All right; one wrong and one open; one open and one of the wrong kind.
MCSnapshots ==
    {("q1" :> Choice("a")) @@ ("q2" :> Says(TRUE)) @@ ("q3" :> Writes("b")),
     ("q1" :> Choice("b")) @@ ("q2" :> Says(TRUE)),
     ("q2" :> Says(FALSE)) @@ ("q3" :> Choice("a"))}

Symmetric == Permutations(Jobs) \cup Permutations(Keys)
=============================================================================
