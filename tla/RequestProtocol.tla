--------------------------- MODULE RequestProtocol ---------------------------
(***************************************************************************)
(* The request protocol between wazuh-remoted (RemotedRequest) and an      *)
(* agent (AgentRequest) over UDP.  A message that was sent may be lost,    *)
(* delayed, duplicated and overtaken.  Every request draws a counter of    *)
(* its own: a repetition of os_random's 32 bits while old messages are     *)
(* around is left to RemotedRequest.                                       *)
(***************************************************************************)
EXTENDS RequestEnds

ASSUME ProtocolAssumption ==
  /\ Sent = Counter
  /\ Protocol = {"udp"}
  /\ Response = {"result", "refusal", "garbage"}

VARIABLES
  toAgent,   \* what the manager has sent: [counter, kind]
  toManager  \* what the agent has sent

net == <<toAgent, toManager>>
pvars == <<vars, avars, net>>

Msg(c, k) == [counter |-> c, kind |-> k]

ProtocolInit == Init /\ A!AInit /\ toAgent = {} /\ toManager = {}

(***************************************************************************)
(* The manager                                                             *)
(***************************************************************************)

\* os_random gives a counter that no request had before.
ReceiveFresh(r) ==
  \E c \in Counter : (\A s \in Request : counter[s] # c) /\ Receive(r, c)

ManagerSends(r, k) == toAgent' = toAgent \union {Msg(counter[r], k)} /\ UNCHANGED toManager

SendRequest(r) == Send(r) /\ ManagerSends(r, "request") /\ UNCHANGED avars

\* Mutant: the manager acknowledges as soon as it has the agent's ACK.
TakeAck_early(r) == AckArrived(r) /\ ManagerSends(r, "ack") /\ UNCHANGED avars

TakeAck(r) == AckArrived(r) /\ UNCHANGED <<avars, net>>

\* The response is acknowledged before it goes to the peer; send_msg may fail.
DeliverResponse(r) ==
  /\ Deliver(r)
  /\ ManagerSends(r, "ack") \/ UNCHANGED net
  /\ UNCHANGED avars

\* What the manager does without sending.
ManagerLocal(r) ==
  /\ \/ ReceiveFresh(r) \/ AddNode(r)
     \/ PoolTake(r) \/ PoolBlock(r) \/ PoolWake(r) \/ PoolTimeout(r)
     \/ Start(r, "udp") \/ StartError(r) \/ SendError(r) \/ AckTimeout(r)
     \/ ResponseWake(r) \/ ResponseTimeout(r) \/ Delete(r) \/ Free(r)
  /\ UNCHANGED <<avars, net>>

\* A handler stores a message of the agent.
ManagerSaves(h) ==
  /\ \/ \E m \in toManager : SaveLookup(h, m.counter, m.kind)
     \/ SaveUpdate(h)
  /\ UNCHANGED <<avars, net>>

(***************************************************************************)
(* The agent                                                               *)
(***************************************************************************)
AgentSends(c, ks) ==
  /\ toManager' = toManager \union {Msg(c, k) : k \in ks}
  /\ UNCHANGED <<toAgent, vars>>

\* A request arrives: the ACK goes out before the node is made.
GetRequest(c) ==
  /\ Msg(c, "request") \in toAgent
  /\ \/ (A!PushRequest(c) \/ A!PushDuplicate(c)) /\ AgentSends(c, {"ack"})
     \/ A!PushFull(c) /\ AgentSends(c, {"ack", "refusal"})
     \/ A!PushNoTarget(c) /\ AgentSends(c, {"refusal"})

GetAck(c) ==
  /\ Msg(c, "ack") \in toAgent
  /\ A!PushAckLookup(c)
  /\ UNCHANGED <<vars, net>>

\* Mutant: the response is sent before the request is executed.
SendResponse_early ==
  /\ A!Pop
  /\ AgentSends(req_pool[pool_j], {"result"})

SendResponse == A!SendUDP /\ AgentSends(node, {response})

AgentLocal ==
  /\ \/ A!PushAckUpdate \/ A!Pop \/ A!Dispatch \/ A!SendFails
     \/ A!Acknowledged \/ A!NotAcknowledged \/ A!Delete
  /\ UNCHANGED <<vars, net>>

ProtocolNext ==
  \/ \E r \in Request : SendRequest(r) \/ TakeAck(r) \/ DeliverResponse(r) \/ ManagerLocal(r)
  \/ \E h \in Handler : ManagerSaves(h)
  \/ \E c \in Counter : GetRequest(c) \/ GetAck(c)
  \/ SendResponse
  \/ AgentLocal

ProtocolSpec == ProtocolInit /\ [][ProtocolNext]_pvars

(***************************************************************************)
(* Properties                                                              *)
(***************************************************************************)

\* What the dispatcher hands to the local peer as the result of its request is
\* the result of an execution at the agent, for all losses, retransmissions and
\* reorderings between req_dispatch and req_receiver.  The answer to an ACK that
\* was executed as a request never reaches it.
ResultWasExecuted ==
  \A r \in Request : reply[r] # "garbage" /\ (reply[r] = "result" => counter[r] \in executed)

\* req_push overwrites the text of a queued request with an ACK when a copy of
\* the request was queued again, or was refused, before the ACK came.  It never
\* does so to a request that the local peer still waits for.
PendingRequestKept ==
  \A r \in Request : counter[r] # None /\ data[counter[r]] = "ack" => reply[r] \in {"result", "refusal"}
=============================================================================
