--------------------------- MODULE MCSharedConfig ---------------------------
(* Instances of SharedConfig for TLC. *)
EXTENDS SharedConfig

CONSTANTS w1, w2, v1, v2
=============================================================================
