-------------------------- MODULE MCReviewWorkflow --------------------------
\* ReviewWorkflow with model values; processes are interchangeable.
EXTENDS ReviewWorkflow, TLC

Symmetric == Permutations(Procs)
=============================================================================
