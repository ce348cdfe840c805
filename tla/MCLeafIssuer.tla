----------------------------- MODULE MCLeafIssuer -----------------------------
(* LeafIssuer for TLC. *)
EXTENDS LeafIssuer
=============================================================================
