----------------------------- MODULE RequestEnds -----------------------------
(***************************************************************************)
(* The two ends of a remote request side by side: RemotedRequest, the      *)
(* manager's, and an instance of AgentRequest, the agent's.  Both programs *)
(* have a req_table and a request_pool; the agent's are a_table and        *)
(* ring_size here.                                                         *)
(***************************************************************************)
EXTENDS RemotedRequest

CONSTANTS
  Sent,           \* the counters of the requests that reach the agent
  ring_size,      \* request_pool of the agent, read from its own options
  agent_attempts  \* max_attempts of the agent

VARIABLES
  a_table, data, req_pool, pool_i, pool_j, push_ack, rpc, node, response, tries, executed

A == INSTANCE AgentRequest WITH
       Counter <- Sent, request_pool <- ring_size, max_attempts <- agent_attempts,
       req_table <- a_table

ASSUME AgentEndAssumption == A!AgentAssumption

avars == <<a_table, data, req_pool, pool_i, pool_j, push_ack, rpc, node, response, tries,
           executed>>

TableMatchesRing == A!TableMatchesRing

\* Neither req_save at the manager nor req_push at the agent works on a node that the
\* thread of the request has freed.
NodesAlive == SavedNodeAlive /\ A!AckedNodeAlive

RequestsLeave == A!RequestsLeave
=============================================================================
