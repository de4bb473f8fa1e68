---------------------------- MODULE MCAgentBuffer ----------------------------
(* Instances of AgentBuffer for TLC. *)
EXTENDS AgentBuffer

CONSTANTS p1, p2, m1, m2

\* In each behaviour either both threads append events that are alike, or one
\* thread appends events of which one in the ring may differ, to an agent that
\* stays connected and does not reach the level of a flood.
VARIABLE load

Load ==
  /\ load = "threads" => \A p \in Producer : msg'[p] # m2
  /\ load = "events" => /\ pc'[p2] = "idle" /\ ~wait_lock' /\ age' = 0
                        /\ msg'[p1] = m2 /\ msg[p1] # m2 => \A s \in Slot : buffer[s] # m2
  /\ UNCHANGED load

MCInit == Init /\ load \in {"threads", "events"}

MCSpec == MCInit /\ [][Next /\ Load]_<<vars, load>>
MCFairSpec == MCSpec /\ Fairness
=============================================================================
