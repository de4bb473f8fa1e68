-------------------------- MODULE MCSecureCounters --------------------------
(* Instances of SecureCounters for TLC. *)
EXTENDS SecureCounters, TLC

CONSTANTS a1, a2

Symmetry == Permutations(Agent)
=============================================================================
