---------------------------- MODULE MCSendClient ----------------------------
\* SendClient with symmetry sets for TLC.
EXTENDS SendClient, TLC

Symmetry == Permutations(Calls) \cup Permutations(Keys)
            \cup Permutations(Bodies) \cup Permutations(Users)
=============================================================================
