---------------------------- MODULE MCAttachments ----------------------------
(***************************************************************************)
(* Attachments for TLC: files, requests, calls and sends are each          *)
(* interchangeable, which is sound for invariants and action properties.   *)
(***************************************************************************)
EXTENDS Attachments, TLC

Interchangeable ==
  Permutations(Files) \cup Permutations(Requests) \cup Permutations(Calls)
    \cup Permutations(Sends)
=============================================================================
