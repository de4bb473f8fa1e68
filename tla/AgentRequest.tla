---------------------------- MODULE AgentRequest ----------------------------
(***************************************************************************)
(* The agent's side of remote requests (src/src/client-agent/request.c).   *)
(* The thread that receives the manager's messages puts each request into  *)
(* req_table and into a ring of nodes (req_push), and stores the manager's *)
(* ACKs in the nodes.  One thread, req_receiver, takes the nodes in order, *)
(* executes each and sends the response until it is acknowledged.          *)
(*                                                                         *)
(* A counter is in the table at most once, so a node is named by its       *)
(* counter.  The two critical sections of req_push for a request (OSHash_  *)
(* Add, and the ring) are one step: between them the other thread can only *)
(* make room in the ring, which it may as well do before.                  *)
(***************************************************************************)
EXTENDS Integers

CONSTANTS
  Counter,      \* the counters of the manager's requests
  request_pool, \* length of the ring
  max_attempts, \* attempts to send a response
  None

AgentAssumption ==
  /\ request_pool \in Nat \ {0}
  /\ max_attempts \in Nat \ {0}
  /\ None \notin Counter

VARIABLES
  req_table, \* the counters that have a node
  data,      \* node->buffer: the request's text, or the manager's ACK
  req_pool,  \* the ring
  pool_i,    \* next slot to fill
  pool_j,    \* next slot to take
  push_ack,  \* the node whose mutex req_push waits for, with mutex_table held
  rpc,       \* where req_receiver is
  node,      \* the node it works on
  response,  \* what it sends: the result of the request, or "garbage", the
             \* answer to an ACK that was executed as if it were a request
  tries,     \* attempts of the current response
  executed   \* history: the counters whose request has been executed

avars == <<req_table, data, req_pool, pool_i, pool_j, push_ack, rpc, node, response, tries, executed>>

Slot == 0..(request_pool - 1)

forward(x) == (x + 1) % request_pool
full == forward(pool_i) = pool_j
empty == pool_i = pool_j

AInit ==
  /\ req_table = {}
  /\ data = [c \in Counter |-> "none"]
  /\ req_pool = [s \in Slot |-> None]
  /\ pool_i = 0
  /\ pool_j = 0
  /\ push_ack = None
  /\ rpc = "idle"
  /\ node = None
  /\ response = "none"
  /\ tries = 0
  /\ executed = {}

(***************************************************************************)
(* req_push, in the receiving thread, which is busy while push_ack is set. *)
(***************************************************************************)

\* Mutant: the duplicate of a request that is in the table is queued too.
PushRequest_duplicate(c) ==
  /\ push_ack = None
  /\ ~full
  /\ req_table' = req_table \union {c}
  /\ data' = [data EXCEPT ![c] = "request"]
  /\ req_pool' = [req_pool EXCEPT ![pool_i] = c]
  /\ pool_i' = forward(pool_i)
  /\ UNCHANGED <<pool_j, push_ack, rpc, node, response, tries, executed>>

\* A request with room in the ring.  The ACK has been sent before.
PushRequest(c) ==
  /\ push_ack = None
  /\ c \notin req_table
  /\ ~full
  /\ req_table' = req_table \union {c}
  /\ data' = [data EXCEPT ![c] = "request"]
  /\ req_pool' = [req_pool EXCEPT ![pool_i] = c]
  /\ pool_i' = forward(pool_i)
  /\ UNCHANGED <<pool_j, push_ack, rpc, node, response, tries, executed>>

\* The ACK is sent, the request is a duplicate and is dropped.
PushDuplicate(c) ==
  /\ push_ack = None
  /\ c \in req_table
  /\ UNCHANGED avars

\* The ring is full: the node leaves the table again, an error is sent.
PushFull(c) ==
  /\ push_ack = None
  /\ c \notin req_table
  /\ full
  /\ UNCHANGED avars

\* The target's socket refuses: an error is sent and no node is made.
PushNoTarget(c) ==
  /\ push_ack = None
  /\ UNCHANGED avars

\* An ACK of the manager: under mutex_table its node is found.
PushAckLookup(c) ==
  /\ push_ack = None
  /\ c \in req_table
  /\ push_ack' = c
  /\ UNCHANGED <<req_table, data, req_pool, pool_i, pool_j, rpc, node, response, tries, executed>>

\* The ACK of an unknown counter is dropped.
PushAckUnknown(c) ==
  /\ push_ack = None
  /\ c \notin req_table
  /\ UNCHANGED avars

\* Mutant: req_receiver keeps the node's mutex while it deletes the node.
HoldsNode_cleanup == {"send", "cleanup"}

\* The states in which req_receiver holds the mutex of its node.
HoldsNode == {"send"}

\* req_update, once the node's mutex is free.
PushAckUpdate ==
  /\ push_ack # None
  /\ ~(node = push_ack /\ rpc \in HoldsNode)
  /\ data' = [data EXCEPT ![push_ack] = "ack"]
  /\ push_ack' = None
  /\ UNCHANGED <<req_table, req_pool, pool_i, pool_j, rpc, node, response, tries, executed>>

(***************************************************************************)
(* req_receiver                                                            *)
(***************************************************************************)
Pop ==
  /\ rpc = "idle"
  /\ ~empty
  /\ node' = req_pool[pool_j]
  /\ req_pool' = [req_pool EXCEPT ![pool_j] = None]
  /\ pool_j' = forward(pool_j)
  /\ rpc' = "dispatch"
  /\ UNCHANGED <<req_table, data, pool_i, push_ack, response, tries, executed>>

\* Under the node's mutex: what the node holds is executed and the response,
\* which may be an error, is built.
Dispatch ==
  /\ rpc = "dispatch"
  /\ response' = IF data[node] = "request" THEN "result" ELSE "garbage"
  /\ executed' = IF data[node] = "request" THEN executed \union {node} ELSE executed
  /\ rpc' = "send"
  /\ UNCHANGED <<req_table, data, req_pool, pool_i, pool_j, push_ack, node, tries>>

\* Under UDP the thread waits for the manager's ACK after it has sent.
SendUDP ==
  /\ rpc = "send"
  /\ rpc' = "wait"
  /\ UNCHANGED <<req_table, data, req_pool, pool_i, pool_j, push_ack, node, response, tries, executed>>

SendTCP ==
  /\ rpc = "send"
  /\ rpc' = "cleanup"
  /\ UNCHANGED <<req_table, data, req_pool, pool_i, pool_j, push_ack, node, response, tries, executed>>

SendFails ==
  /\ rpc = "send"
  /\ rpc' = "cleanup"
  /\ UNCHANGED <<req_table, data, req_pool, pool_i, pool_j, push_ack, node, response, tries, executed>>

Acknowledged ==
  /\ rpc = "wait"
  /\ data[node] = "ack"
  /\ rpc' = "cleanup"
  /\ UNCHANGED <<req_table, data, req_pool, pool_i, pool_j, push_ack, node, response, tries, executed>>

\* The wait times out (or wakes up without an ACK): the response is sent again.
NotAcknowledged ==
  /\ rpc = "wait"
  /\ tries' = tries + 1
  /\ rpc' = IF tries + 1 < max_attempts THEN "send" ELSE "cleanup"
  /\ UNCHANGED <<req_table, data, req_pool, pool_i, pool_j, push_ack, node, response, executed>>

\* The node leaves the table, under mutex_table, and is freed.
Delete ==
  /\ rpc = "cleanup"
  /\ push_ack = None
  /\ req_table' = req_table \ {node}
  /\ data' = [data EXCEPT ![node] = "none"]
  /\ node' = None
  /\ response' = "none"
  /\ tries' = 0
  /\ rpc' = "idle"
  /\ UNCHANGED <<req_pool, pool_i, pool_j, push_ack, executed>>

ANext ==
  \/ \E c \in Counter : \/ PushRequest(c) \/ PushDuplicate(c) \/ PushFull(c) \/ PushNoTarget(c)
                         \/ PushAckLookup(c) \/ PushAckUnknown(c)
  \/ PushAckUpdate
  \/ Pop \/ Dispatch \/ SendUDP \/ SendTCP \/ SendFails
  \/ Acknowledged \/ NotAcknowledged \/ Delete

ASpec == AInit /\ [][ANext]_avars

req_receiver ==
  Pop \/ Dispatch \/ SendUDP \/ SendTCP \/ SendFails \/ Acknowledged \/ NotAcknowledged

\* Both threads go on while they can; the timed wait ends; req_receiver gets
\* mutex_table if it is released again and again.
AFairness == WF_avars(req_receiver) /\ SF_avars(Delete) /\ WF_avars(PushAckUpdate)

AFairSpec == ASpec /\ AFairness

(***************************************************************************)
(* Properties                                                              *)
(***************************************************************************)
ATypeOK ==
  /\ req_table \subseteq Counter
  /\ data \in [Counter -> {"none", "request", "ack"}]
  /\ req_pool \in [Slot -> Counter \union {None}]
  /\ pool_i \in Slot
  /\ pool_j \in Slot
  /\ push_ack \in Counter \union {None}
  /\ rpc \in {"idle", "dispatch", "send", "wait", "cleanup"}
  /\ node \in Counter \union {None}
  /\ response \in {"none", "result", "garbage"}
  /\ tries \in 0..max_attempts
  /\ executed \subseteq Counter

\* The slots from pool_j up to pool_i.
Occupied == {s \in Slot : IF pool_j <= pool_i THEN pool_j <= s /\ s < pool_i
                                              ELSE pool_j <= s \/ s < pool_i}

\* Every variable keeps its type.  The table holds exactly the nodes that wait in
\* the ring and the one that req_receiver works on, each once: no request is
\* executed by two nodes at a time, and none is left in the table with nobody to
\* free it.
TableMatchesRing ==
  /\ ATypeOK
  /\ \A s \in Slot : req_pool[s] # None <=> s \in Occupied
  /\ \A s, t \in Occupied : req_pool[s] = req_pool[t] => s = t
  /\ \A s \in Occupied : req_pool[s] # node
  /\ req_table = {req_pool[s] : s \in Occupied} \union ({node} \ {None})

\* The node that req_push is about to mark as acknowledged is in the table:
\* req_receiver does not free it under the hands of the other thread.
AckedNodeAlive == push_ack # None => push_ack \in req_table

\* Every request in the table is worked on and leaves it: neither thread waits
\* for ever for mutex_table or the mutex of a node.
RequestsLeave == \A c \in Counter : c \in req_table ~> c \notin req_table
=============================================================================
