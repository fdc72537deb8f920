----------------------------- MODULE MCHandover ----------------------------
(***************************************************************************)
(* Small instances of Handover.                                            *)
(***************************************************************************)
EXTENDS Handover, TLC

CONSTANTS s1, s2, r1, r2

Interchangeable == Permutations(Requests)
=============================================================================
