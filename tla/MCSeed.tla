------------------------------- MODULE MCSeed -------------------------------
\* Seed with a symmetry set for TLC.
EXTENDS Seed, TLC

Symmetry == Permutations(Runs) \cup Permutations(Apps)
=============================================================================
