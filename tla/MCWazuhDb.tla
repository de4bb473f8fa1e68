------------------------------ MODULE MCWazuhDb ------------------------------
(* Instances of WazuhDb for TLC. *)
EXTENDS WazuhDb

CONSTANTS a1, a2, w1, w2

\* Two idle workers are alike: w2 takes a query when w1 is busy.
Dequeue == th[w2].pc = "idle" /\ th'[w2].pc # "idle" => th[w1].pc # "idle"

\* The process has ended.
Ended == running = "down" /\ UNCHANGED vars

\* The agents are listed and have their files.
MCInit == Init /\ agents = Agent /\ file = Agent

MCSpec == MCInit /\ [][(Next /\ Dequeue) \/ Ended]_vars
MCFairSpec == MCSpec /\ Fairness
=============================================================================
