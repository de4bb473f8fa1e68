-------------------------- MODULE MCRemotedRequest --------------------------
(* Instances of RemotedRequest for TLC. *)
EXTENDS RemotedRequest, TLC

CONSTANTS r1, r2, r3, c1, c2, h1, h2

\* Requests, counters and handlers are interchangeable.
Symmetry == Permutations(Request) \union Permutations(Counter) \union Permutations(Handler)

\* All requests have ended: the threads wait for the next ones.
Idle ==
  /\ \A r \in Request : pc[r] \in {"done", "rejected"}
  /\ UNCHANGED vars

NextOrIdle == Next \/ Idle
MCSpec == Init /\ [][NextOrIdle]_vars
=============================================================================
