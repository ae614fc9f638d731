------------------------------ MODULE MCScreens ------------------------------
\* Screens with a symmetry set for TLC. In the beginning there are two records,
\* to select between, or none, to create two from one draft.
EXTENDS Screens, TLC

Symmetry == Permutations(Ids) \cup Permutations(Calls)
MCInit == Init /\ \A i, j \in Ids : Live(i) => Live(j)
MCSpec == MCInit /\ [][Next]_vars
=============================================================================
