---------------------------- MODULE MCShDocument ----------------------------
(***************************************************************************)
(* ShDocument for TLC: editors, sends and keys are interchangeable. The    *)
(* properties of the runs are invariants and action properties, for which  *)
(* symmetry is sound.                                                      *)
(***************************************************************************)
EXTENDS ShDocument, TLC

Interchangeable ==
  Permutations(Editors) \cup Permutations(Sends) \cup Permutations(Keys)
=============================================================================
