------------------------------ MODULE MCGossip -----------------------------
\* A cluster of two for TLC.
EXTENDS Gossip

CONSTANTS n1, n2, s1
=============================================================================
