------------------------- MODULE MCContentLifecycle -------------------------
\* ContentLifecycle with model values; request slots, keys and contents are
\* interchangeable.
EXTENDS ContentLifecycle, TLC

Symmetric == Permutations(Txns) \cup Permutations(Keys)
=============================================================================
