-------------------------- MODULE MCRequestProtocol --------------------------
(* Instances of RequestProtocol for TLC. *)
EXTENDS RequestProtocol, TLC

CONSTANTS r1, r2, c1, c2, h1

\* Requests and counters are interchangeable.
Symmetry == Permutations(Request) \union Permutations(Counter)

\* All requests have ended: the threads wait for the next ones.
Idle ==
  /\ \A r \in Request : pc[r] \in {"done", "rejected"}
  /\ UNCHANGED pvars

NextOrIdle == ProtocolNext \/ Idle
MCSpec == ProtocolInit /\ [][NextOrIdle]_pvars
=============================================================================
