------------------------- MODULE MCLearningAttempts -------------------------
\* LearningAttempts with model values; request slots and keys are
\* interchangeable.
EXTENDS LearningAttempts, TLC

Symmetric == Permutations(Txns) \cup Permutations(Keys)
=============================================================================
