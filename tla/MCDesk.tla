------------------------------- MODULE MCDesk -------------------------------
\* The desk for TLC: two of everything, each branch with one port.
EXTENDS Desk, TLC

CONSTANTS s1, s2, b1, b2, p1, p2

MCBranchOf == (p1 :> b1) @@ (p2 :> b2)
Swapped == (b1 :> b2) @@ (b2 :> b1) @@ (p1 :> p2) @@ (p2 :> p1)
MCSymmetry == Permutations(Tries) \cup {Swapped}

\* The members of a group and a file come to a letter one after the other: neither
\* looks at the other.
OneByOne == drawer # Null /\ drawer.file # "none" => resolving = Null
=============================================================================
