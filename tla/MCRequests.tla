----------------------------- MODULE MCRequests -----------------------------
(* RequestEnds for TLC: each end of the request protocol on its own, against  *)
(* every message the other could send.                                        *)
EXTENDS RequestEnds

CONSTANTS r1, r2, c1, c2, c3, h1, h2

VARIABLE end  \* the end that is explored in this behaviour

RequestsInit == Init /\ A!AInit /\ end \in {"manager", "agent"}

\* All requests of the manager have ended: the threads wait for the next ones.
Idle ==
  /\ \A r \in Request : pc[r] \in {"done", "rejected"}
  /\ UNCHANGED vars

\* The other end has received nothing and does nothing.
RequestsNext ==
  \/ end = "manager" /\ (Next \/ Idle) /\ UNCHANGED <<avars, end>>
  \/ end = "agent" /\ A!ANext /\ UNCHANGED <<vars, end>>

RequestsSpec ==
  /\ RequestsInit
  /\ [][RequestsNext]_<<vars, avars, end>>
  /\ Fairness
  /\ A!AFairness
=============================================================================
