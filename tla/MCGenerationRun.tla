--------------------------- MODULE MCGenerationRun ---------------------------
\* GenerationRun with model values; requests and keys are interchangeable.
EXTENDS GenerationRun, TLC

Symmetric == Permutations(Requests) \cup Permutations(Keys)
==============================================================================
