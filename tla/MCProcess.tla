------------------------------ MODULE MCProcess ----------------------------
(***************************************************************************)
(* Process for TLC: the instances are in MCProcess_*.cfg.                  *)
(***************************************************************************)
EXTENDS Process

CONSTANTS r1, r2, r3, s1, s2

=============================================================================
