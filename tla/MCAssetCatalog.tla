--------------------------- MODULE MCAssetCatalog ---------------------------
\* Three callers; two revisions at most, on two of three keys.
EXTENDS AssetCatalog, TLC

Symmetric == Permutations(Clients) \cup Permutations(Keys) \cup Permutations(RevisionIds)
=============================================================================
