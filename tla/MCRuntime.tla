----------------------------- MODULE MCRuntime -----------------------------
(***************************************************************************)
(* Small instances of Runtime.                                             *)
(***************************************************************************)
EXTENDS Runtime

CONSTANTS s1, s2, s3

Nothing == <<>>
NoListings == {}
Orders == {<<s2>>, <<s1, s2>>, <<s2, s1>>}
Third == {<<s3>>}
=============================================================================
