-------------------------- MODULE MCPreparationRun --------------------------
\* Three requests with two keys; kits of two questions to a worksheet, one of
\* them good, the others each with a flaw.
EXTENDS PreparationRun, TLC

Symmetric == Permutations(Requests) \cup Permutations(Keys)

Ask1 == [id |-> "i1", objectives |-> {"o1"}, answer |-> "a1", bloom |-> "apply", difficulty |-> "easy"]
Ask2 == [id |-> "i2", objectives |-> {"o1"}, answer |-> "a2", bloom |-> "remember",
         difficulty |-> "hard"]
Good == [objectives |-> <<"o1">>, lesson |-> {"o1"}, sections |-> <<{"o1"}>>,
         worksheet |-> <<Ask1, Ask2>>, quiz |-> <<Ask2>>, homework |-> <<Ask1>>, claim |-> FALSE]
Kits == <<Good,
          [Good EXCEPT !.homework = <<Ask1, Ask1>>],
          [Good EXCEPT !.quiz[1].objectives = {"o2"}],
          [Good EXCEPT !.worksheet = <<Ask1>>],
          [Good EXCEPT !.worksheet[2].bloom = "apply"],
          [Good EXCEPT !.claim = TRUE]>>
=============================================================================
