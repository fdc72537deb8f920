------------------------------ MODULE MCProxy ------------------------------
(***************************************************************************)
(* Small instances of Proxy: two or three requests at a time on one or     *)
(* two servers.                                                            *)
(***************************************************************************)
EXTENDS Proxy, TLC

CONSTANTS s1, s2, r1, r2, r3

OneSlot == <<s1>>
TwoSlots == <<s1, s2>>
WeightedSlots == <<s1, s1, s2>>

\* Requests are told apart by nothing; no liveness property is checked with it.
Interchangeable == Permutations(Requests)
=============================================================================
