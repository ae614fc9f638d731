----------------------------- MODULE MCPortCall -----------------------------
(***************************************************************************)
(* PortCall for TLC: the calls are interchangeable, and in the beginning   *)
(* the lay days are one day or undecided; an update makes them differ.     *)
(***************************************************************************)
EXTENDS PortCall, TLC

Interchangeable == Permutations(Calls)
MCInit == Init /\ row.first = row.last
MCSpec == MCInit /\ [][Next]_vars
=============================================================================
