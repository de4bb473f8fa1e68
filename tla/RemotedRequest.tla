--------------------------- MODULE RemotedRequest ---------------------------
(***************************************************************************)
(* The manager's side of remote requests (src/src/remoted/request.c).      *)
(* The local-request thread (remcom) reads a request from a local peer,    *)
(* puts a node under a random counter into req_table, waits for a slot of  *)
(* the pool and starts a dispatcher thread.  The dispatcher sends the      *)
(* request to the agent and waits on the node's condition variable for the *)
(* ACK and the response, which the message handlers store with req_save.   *)
(*                                                                         *)
(* The dispatcher holds the node's mutex except while it waits; a handler  *)
(* holds mutex_table while it waits for that mutex.  What the handlers     *)
(* store is arbitrary here; RequestProtocol joins this module to the agent.*)
(* Left out: OSHash_Add failing for lack of memory.                        *)
(***************************************************************************)
EXTENDS Integers, FiniteSets

CONSTANTS
  Request,      \* the requests of the local peers
  Counter,      \* the values os_random may give
  Handler,      \* the threads that handle the agents' messages
  Response,     \* what an agent may answer, errors included
  Protocol,     \* the protocols of the agents, of {"udp", "tcp"}
  PoolSize,     \* remoted.request_pool
  max_attempts, \* remoted.max_attempts
  None

ASSUME RequestAssumption ==
  /\ IsFiniteSet(Request)
  /\ Protocol \subseteq {"udp", "tcp"}
  /\ PoolSize \in Nat \ {0}
  /\ max_attempts \in Nat \ {0}
  /\ None \notin Request \union Counter \union Handler
  /\ Response \intersect {None, "null", "request", "ack", "internal_error", "send_error",
                           "attempt_error", "timeout_error"} = {}

VARIABLES
  pc,           \* where the thread that works on each request is
  remcom,       \* the request in req_sender, or None
  counter,      \* node->counter
  protocol,     \* the agent's protocol, as the dispatcher read it
  buffer,       \* node->buffer
  attempts,     \* of the dispatcher; 0 when it is not read again
  reply,        \* what was written to the local peer, or None
  req_table,    \* the node under each counter, or None
  table_lock,   \* the handler that holds mutex_table, or None
  saving,       \* the node and the data a handler is about to store
  request_pool  \* free slots of the pool

vars == <<pc, remcom, counter, protocol, buffer, attempts, reply,
          req_table, table_lock, saving, request_pool>>

Data == {"ack"} \union Response

\* Mutant: the dispatcher keeps the node's mutex while it deletes the node.
HoldsNode_cleanup == {"send", "deliver", "cleanup"}

\* The states in which the dispatcher holds the mutex of its node.
HoldsNode == {"send", "deliver"}
\* The states in which a slot of the pool is taken.
InPool == {"start", "send", "wait_ack", "wait_resp", "deliver", "cleanup", "free"}
\* The states in which the request's node is in the table.
InTable == {"pool", "pool_wait", "rejected"} \union (InPool \ {"free"})

Init ==
  /\ pc = [r \in Request |-> "idle"]
  /\ remcom = None
  /\ counter = [r \in Request |-> None]
  /\ protocol = [r \in Request |-> None]
  /\ buffer = [r \in Request |-> "null"]
  /\ attempts = [r \in Request |-> 0]
  /\ reply = [r \in Request |-> None]
  /\ req_table = [c \in Counter |-> None]
  /\ table_lock = None
  /\ saving = [h \in Handler |-> None]
  /\ request_pool = PoolSize

Goto(r, l) == pc' = [pc EXCEPT ![r] = l]
Answer(r, m) == reply' = [reply EXCEPT ![r] = m]

(***************************************************************************)
(* req_sender, in the one local-request thread.                            *)
(***************************************************************************)

\* A request arrives and draws its counter.
Receive(r, c) ==
  /\ remcom = None
  /\ pc[r] = "idle"
  /\ remcom' = r
  /\ counter' = [counter EXCEPT ![r] = c]
  /\ buffer' = [buffer EXCEPT ![r] = "request"]
  /\ Goto(r, "add")
  /\ UNCHANGED <<protocol, attempts, reply, req_table, table_lock, saving, request_pool>>

\* Mutant: the node replaces the one that has the counter.
AddNode_replace(r) ==
  /\ pc[r] = "add"
  /\ table_lock = None
  /\ req_table' = [req_table EXCEPT ![counter[r]] = r]
  /\ Goto(r, "pool")
  /\ UNCHANGED <<remcom, counter, protocol, buffer, attempts, reply, table_lock, saving,
                 request_pool>>

AddNode(r) ==
  /\ pc[r] = "add"
  /\ table_lock = None
  /\ req_table[counter[r]] = None
  /\ req_table' = [req_table EXCEPT ![counter[r]] = r]
  /\ Goto(r, "pool")
  /\ UNCHANGED <<remcom, counter, protocol, buffer, attempts, reply, table_lock, saving,
                 request_pool>>

\* The counter is taken.  req_free closes the peer's socket before the error
\* is written to it, so the peer gets no reply.
AddDuplicate(r) ==
  /\ pc[r] = "add"
  /\ table_lock = None
  /\ req_table[counter[r]] # None
  /\ buffer' = [buffer EXCEPT ![r] = "null"]
  /\ remcom' = None
  /\ Goto(r, "done")
  /\ UNCHANGED <<counter, protocol, attempts, reply, req_table, table_lock, saving,
                 request_pool>>

\* Mutant: the slot is not taken.
PoolTake_keep(r) ==
  /\ pc[r] = "pool"
  /\ request_pool > 0
  /\ remcom' = None
  /\ Goto(r, "start")
  /\ UNCHANGED <<counter, protocol, buffer, attempts, reply, req_table, table_lock, saving,
                 request_pool>>

\* req_pool_wait finds a free slot.
PoolTake(r) ==
  /\ pc[r] = "pool"
  /\ request_pool > 0
  /\ request_pool' = request_pool - 1
  /\ remcom' = None
  /\ Goto(r, "start")
  /\ UNCHANGED <<counter, protocol, buffer, attempts, reply, req_table, table_lock, saving>>

PoolBlock(r) ==
  /\ pc[r] = "pool"
  /\ request_pool = 0
  /\ Goto(r, "pool_wait")
  /\ UNCHANGED <<remcom, counter, protocol, buffer, attempts, reply, req_table, table_lock,
                 saving, request_pool>>

\* pool_available is signalled.  A spurious wake-up only starts the wait again.
PoolWake(r) ==
  /\ pc[r] = "pool_wait"
  /\ request_pool > 0
  /\ Goto(r, "pool")
  /\ UNCHANGED <<remcom, counter, protocol, buffer, attempts, reply, req_table, table_lock,
                 saving, request_pool>>

\* The wait times out.  A dispatcher may have given its slot back before the
\* thread got mutex_pool again: the slot is taken although the request is
\* rejected.  The node stays in the table.
PoolTimeout(r) ==
  /\ pc[r] = "pool_wait"
  /\ request_pool' = IF request_pool > 0 THEN request_pool - 1 ELSE request_pool
  /\ remcom' = None
  /\ Answer(r, "internal_error")
  /\ Goto(r, "rejected")
  /\ UNCHANGED <<counter, protocol, buffer, attempts, req_table, table_lock, saving>>

req_sender(r) ==
  \/ \E c \in Counter : Receive(r, c)
  \/ AddNode(r) \/ AddDuplicate(r)
  \/ PoolTake(r) \/ PoolBlock(r) \/ PoolWake(r) \/ PoolTimeout(r)

(***************************************************************************)
(* req_dispatch, in a thread per request.                                  *)
(***************************************************************************)

\* The request names an agent that is known: its text is drained.
Start(r, p) ==
  /\ pc[r] = "start"
  /\ buffer[r] = "request"
  /\ protocol' = [protocol EXCEPT ![r] = p]
  /\ buffer' = [buffer EXCEPT ![r] = "null"]
  /\ Goto(r, "send")
  /\ UNCHANGED <<remcom, counter, attempts, reply, req_table, table_lock, saving, request_pool>>

\* It has no agent id (so has a node that was overwritten before the thread
\* locked it) or the agent is unknown: nothing is written to the peer.
StartError(r) ==
  /\ pc[r] = "start"
  /\ Goto(r, "cleanup")
  /\ UNCHANGED <<remcom, counter, protocol, buffer, attempts, reply, req_table, table_lock,
                 saving, request_pool>>

\* The head of the second loop and what follows it, for n attempts made.
AwaitResponse(r, n) ==
  \/ /\ n < max_attempts /\ buffer[r] \notin Response
     /\ attempts' = [attempts EXCEPT ![r] = n]
     /\ Goto(r, "wait_resp")
     /\ UNCHANGED reply
  \/ /\ n < max_attempts /\ buffer[r] \in Response
     /\ attempts' = [attempts EXCEPT ![r] = 0]
     /\ Goto(r, "deliver")
     /\ UNCHANGED reply
  \/ /\ n = max_attempts
     /\ attempts' = [attempts EXCEPT ![r] = 0]
     /\ Answer(r, "attempt_error")
     /\ Goto(r, "cleanup")

SendError(r) ==
  /\ pc[r] = "send"
  /\ attempts' = [attempts EXCEPT ![r] = 0]
  /\ Answer(r, "send_error")
  /\ Goto(r, "cleanup")
  /\ UNCHANGED <<remcom, counter, protocol, buffer, req_table, table_lock, saving, request_pool>>

\* send_msg succeeds.  Under UDP the dispatcher waits for the ACK.
Send(r) ==
  /\ pc[r] = "send"
  /\ \/ /\ protocol[r] = "udp"
        /\ Goto(r, "wait_ack")
        /\ UNCHANGED <<attempts, reply>>
     \/ protocol[r] = "tcp" /\ AwaitResponse(r, 0)
  /\ UNCHANGED <<remcom, counter, protocol, buffer, req_table, table_lock, saving, request_pool>>

\* The wait for the ACK returns 0 and there is something in the buffer.
AckArrived(r) ==
  /\ pc[r] = "wait_ack"
  /\ buffer[r] # "null"
  /\ AwaitResponse(r, 0)
  /\ UNCHANGED <<remcom, counter, protocol, buffer, req_table, table_lock, saving, request_pool>>

\* The wait times out, whatever the buffer, or wakes up with no data.
AckTimeout(r) ==
  /\ pc[r] = "wait_ack"
  /\ \/ /\ attempts[r] + 1 < max_attempts
        /\ attempts' = [attempts EXCEPT ![r] = @ + 1]
        /\ Goto(r, "send")
        /\ UNCHANGED reply
     \/ /\ attempts[r] + 1 = max_attempts
        /\ attempts' = [attempts EXCEPT ![r] = 0]
        /\ Answer(r, "attempt_error")
        /\ Goto(r, "cleanup")
  /\ UNCHANGED <<remcom, counter, protocol, buffer, req_table, table_lock, saving, request_pool>>

\* The wait for the response returns 0.
ResponseWake(r) ==
  /\ pc[r] = "wait_resp"
  /\ AwaitResponse(r, attempts[r] + 1)
  /\ UNCHANGED <<remcom, counter, protocol, buffer, req_table, table_lock, saving, request_pool>>

ResponseTimeout(r) ==
  /\ pc[r] = "wait_resp"
  /\ attempts' = [attempts EXCEPT ![r] = 0]
  /\ Answer(r, "timeout_error")
  /\ Goto(r, "cleanup")
  /\ UNCHANGED <<remcom, counter, protocol, buffer, req_table, table_lock, saving, request_pool>>

\* The dispatcher acknowledges the response (UDP) and hands it to the peer.
Deliver(r) ==
  /\ pc[r] = "deliver"
  /\ Answer(r, buffer[r])
  /\ Goto(r, "cleanup")
  /\ UNCHANGED <<remcom, counter, protocol, buffer, attempts, req_table, table_lock, saving,
                 request_pool>>

\* Mutant: the node is deleted from the table without mutex_table.
Delete_unlocked(r) ==
  /\ pc[r] = "cleanup"
  /\ req_table' = [req_table EXCEPT ![counter[r]] = None]
  /\ Goto(r, "free")
  /\ UNCHANGED <<remcom, counter, protocol, buffer, attempts, reply, table_lock, saving,
                 request_pool>>

\* With the node's mutex released, the node leaves the table.
Delete(r) ==
  /\ pc[r] = "cleanup"
  /\ table_lock = None
  /\ req_table' = [req_table EXCEPT ![counter[r]] = None]
  /\ Goto(r, "free")
  /\ UNCHANGED <<remcom, counter, protocol, buffer, attempts, reply, table_lock, saving,
                 request_pool>>

\* req_free, req_pool_post, and the thread ends.
Free(r) ==
  /\ pc[r] = "free"
  /\ buffer' = [buffer EXCEPT ![r] = "null"]
  /\ protocol' = [protocol EXCEPT ![r] = None]
  /\ request_pool' = request_pool + 1
  /\ Goto(r, "done")
  /\ UNCHANGED <<remcom, counter, attempts, reply, req_table, table_lock, saving>>

req_dispatch(r) ==
  \/ \E p \in Protocol : Start(r, p)
  \/ StartError(r) \/ SendError(r) \/ Send(r) \/ AckArrived(r) \/ AckTimeout(r)
  \/ ResponseWake(r) \/ ResponseTimeout(r) \/ Deliver(r) \/ Delete(r) \/ Free(r)

(***************************************************************************)
(* req_save, in a message handler.                                         *)
(***************************************************************************)

\* Under mutex_table the handler finds the node; a counter that is not in the
\* table changes nothing.
SaveLookup(h, c, d) ==
  /\ table_lock = None
  /\ req_table[c] # None
  /\ table_lock' = h
  /\ saving' = [saving EXCEPT ![h] = [node |-> req_table[c], data |-> d]]
  /\ UNCHANGED <<pc, remcom, counter, protocol, buffer, attempts, reply, req_table, request_pool>>

\* req_update, once the node's mutex is free; then both are released.
SaveUpdate(h) ==
  /\ saving[h] # None
  /\ pc[saving[h].node] \notin HoldsNode
  /\ buffer' = [buffer EXCEPT ![saving[h].node] = saving[h].data]
  /\ saving' = [saving EXCEPT ![h] = None]
  /\ table_lock' = None
  /\ UNCHANGED <<pc, remcom, counter, protocol, attempts, reply, req_table, request_pool>>

req_save(h) == SaveUpdate(h) \/ \E c \in Counter, d \in Data : SaveLookup(h, c, d)

Next ==
  \/ \E r \in Request : req_sender(r) \/ req_dispatch(r)
  \/ \E h \in Handler : req_save(h)

Spec == Init /\ [][Next]_vars

\* Every thread goes on while it can; a thread that waits for mutex_table gets
\* it if it is released again and again; the timed waits end.
Fairness ==
  /\ \A r \in Request :
       /\ WF_vars(PoolTake(r) \/ PoolBlock(r) \/ PoolWake(r) \/ PoolTimeout(r))
       /\ WF_vars(req_dispatch(r))
       /\ SF_vars(AddNode(r) \/ AddDuplicate(r))
       /\ SF_vars(Delete(r))
  /\ \A h \in Handler : WF_vars(SaveUpdate(h))

FairSpec == Spec /\ Fairness

(***************************************************************************)
(* Properties                                                              *)
(***************************************************************************)
Running == {r \in Request : pc[r] \in InPool}

TypeOK ==
  /\ pc \in [Request -> {"idle", "add", "done"} \union InTable \union InPool]
  /\ remcom \in Request \union {None}
  /\ counter \in [Request -> Counter \union {None}]
  /\ protocol \in [Request -> Protocol \union {None}]
  /\ buffer \in [Request -> {"null", "request"} \union Data]
  /\ attempts \in [Request -> 0..(max_attempts - 1)]
  /\ reply \in [Request -> {None, "internal_error", "send_error", "attempt_error",
                             "timeout_error"} \union Response]
  /\ req_table \in [Counter -> Request \union {None}]
  /\ table_lock \in Handler \union {None}
  /\ saving \in [Handler -> [node : Request, data : Data] \union {None}]
  /\ request_pool \in 0..PoolSize

\* Every variable keeps its type.  A request that waits for a slot or runs is in
\* the table under its counter, so that req_save finds it, and no other request
\* has that counter.
CounterIdentifiesNode ==
  /\ TypeOK
  /\ \A r \in Request : pc[r] \in InTable => req_table[counter[r]] = r
  /\ \A c \in Counter : req_table[c] # None => counter[req_table[c]] = c
                                             /\ pc[req_table[c]] \in InTable

\* A handler in req_save works on a node that is in the table and not freed,
\* although it waits for the node's mutex while the dispatcher finishes.
SavedNodeAlive ==
  \A h \in Handler : saving[h] # None =>
    pc[saving[h].node] \in InTable /\ req_table[counter[saving[h].node]] = saving[h].node

\* There are never more dispatchers than remoted.request_pool, and the free
\* slots with the running dispatchers never exceed it.
PoolRespected == Cardinality(Running) + request_pool <= PoolSize

\* Every request that was received ends, and its node's dispatcher with it:
\* no thread waits for ever for mutex_table, a node's mutex or the pool.
Finishes == \A r \in Request : pc[r] = "add" ~> pc[r] \in {"done", "rejected"}

\* A request that is rejected because "Request pool is full" takes no slot:
\* req_pool_wait gives every slot either to the pool or to a dispatcher.
SlotsConserved == Cardinality(Running) + request_pool = PoolSize
=============================================================================
