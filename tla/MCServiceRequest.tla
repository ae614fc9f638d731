--------------------------- MODULE MCServiceRequest ---------------------------
(***************************************************************************)
(* ServiceRequest for TLC: the calls are interchangeable, which is sound   *)
(* for invariants and action properties.                                   *)
(***************************************************************************)
EXTENDS ServiceRequest, TLC

Interchangeable == Permutations(Calls)
=============================================================================
