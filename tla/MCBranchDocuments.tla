------------------------- MODULE MCBranchDocuments -------------------------
\* BranchDocuments with a symmetry set for TLC.
EXTENDS BranchDocuments, TLC

Symmetry == Permutations(Docs) \cup Permutations(Calls)
=============================================================================
