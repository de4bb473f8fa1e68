---------------------------- MODULE RequestProofs ----------------------------
(***************************************************************************)
(* The safety of remote requests, for any number of requests, counters and *)
(* handlers, any size of the pool and of the ring and any number of        *)
(* attempts: of the manager's side (RemotedRequest) whatever the handlers  *)
(* store, of the agent's side (AgentRequest) whatever the manager sends,   *)
(* and of the two over a network that loses, repeats and reorders          *)
(* (RequestProtocol).                                                      *)
(***************************************************************************)
EXTENDS RequestProtocol, FiniteSetTheorems, TLAPS

(***************************************************************************)
(* The manager                                                             *)
(***************************************************************************)

\* A request that has drawn its counter has one.
CounterDrawn == \A r \in Request : pc[r] \in {"add"} \union InTable => counter[r] \in Counter

\* A handler that is about to store data holds mutex_table.
SaverHoldsTable == \A h \in Handler : saving[h] # None => table_lock = h

\* The dispatcher hands over nothing but a response.
DeliversResponse == \A r \in Request : pc[r] = "deliver" => buffer[r] \in Response

\* A request in the table is there under its counter, and every entry is such a request.
TableInv ==
  /\ \A r \in Request : pc[r] \in InTable => req_table[counter[r]] = r
  /\ \A c \in Counter : req_table[c] # None => counter[req_table[c]] = c
                                             /\ pc[req_table[c]] \in InTable

\* The inductive invariant of the manager.
ManagerInv ==
  /\ TypeOK /\ TableInv /\ SavedNodeAlive /\ PoolRespected
  /\ CounterDrawn /\ SaverHoldsTable /\ DeliversResponse

\* What req_save holds between its look-up and its update is a node and its data.
LEMMA SavedFields ==
  \A x, n, d : x = [node |-> n, data |-> d] => x.node = n /\ x.data = d
BY SMTT(30), Z3T(30)

\* The running dispatchers can be counted.
LEMMA RunningFinite == IsFiniteSet(Running) /\ Cardinality(Running) \in Nat
<1>1. Running \subseteq Request
  BY DEF Running
<1> QED BY <1>1, RequestAssumption, FS_Subset, FS_CardinalityType

\* A request that neither enters nor leaves the pool leaves their number.
LEMMA RunningSame ==
  ASSUME TypeOK, NEW r \in Request, NEW l, Goto(r, l), pc[r] \in InPool <=> l \in InPool
  PROVE  Running' = Running
BY DEF Running, Goto, TypeOK

\* One that enters the pool adds one.
LEMMA RunningMore ==
  ASSUME TypeOK, NEW r \in Request, NEW l, Goto(r, l), pc[r] \notin InPool, l \in InPool
  PROVE  Cardinality(Running') = Cardinality(Running) + 1
<1>1. Running' = Running \union {r} /\ r \notin Running
  BY DEF Running, Goto, TypeOK
<1> QED BY <1>1, RunningFinite, FS_AddElement, ZenonT(30)

\* One that leaves it takes one.
LEMMA RunningLess ==
  ASSUME TypeOK, NEW r \in Request, NEW l, Goto(r, l), pc[r] \in InPool, l \notin InPool
  PROVE  Cardinality(Running') = Cardinality(Running) - 1 /\ Cardinality(Running) > 0
<1>1. Running' = Running \ {r} /\ r \in Running
  BY DEF Running, Goto, TypeOK
<1>2. Cardinality(Running) # 0
  BY <1>1, RunningFinite, FS_EmptySet
<1>3. Cardinality(Running') = Cardinality(Running) - 1
  BY <1>1, RunningFinite, FS_RemoveElement, ZenonT(30)
<1> QED BY <1>2, <1>3, RunningFinite, SMTT(30), Z3T(30)

\* No request is under way.
LEMMA ManagerInit == Init => ManagerInv
<1> SUFFICES ASSUME Init PROVE ManagerInv
  OBVIOUS
<1>1. TypeOK
  BY RequestAssumption, SMTT(30), Z3T(30) DEF Init, TypeOK, InTable, InPool, Data
<1>2. TableInv /\ SavedNodeAlive /\ CounterDrawn /\ SaverHoldsTable /\ DeliversResponse
  BY DEF Init, TableInv, SavedNodeAlive, CounterDrawn, SaverHoldsTable, DeliversResponse,
         InTable, InPool
<1>3. Running = {}
  BY DEF Init, Running, InPool
<1>4. PoolRespected
  BY <1>3, FS_EmptySet, RequestAssumption, SMTT(30), Z3T(30) DEF Init, PoolRespected
<1> QED BY <1>1, <1>2, <1>4 DEF ManagerInv

\* The thread of a request goes on while its node stays in the table.
LEMMA MoveInTable ==
  ASSUME ManagerInv, NEW r \in Request, NEW l \in InTable, Goto(r, l), pc[r] \in InTable,
         UNCHANGED <<counter, req_table, table_lock, saving>>
  PROVE  TableInv' /\ SavedNodeAlive' /\ CounterDrawn' /\ SaverHoldsTable'
<1>1. \A s \in Request : pc'[s] = IF s = r THEN l ELSE pc[s]
  BY DEF ManagerInv, TypeOK, Goto
<1> QED BY <1>1, SMTT(30), Z3T(30) DEF ManagerInv, TypeOK, TableInv, SavedNodeAlive, CounterDrawn, SaverHoldsTable

\* The dispatcher of a request goes on: its node stays in the table, its slot taken.
LEMMA DispatchMoves ==
  ASSUME ManagerInv, NEW r \in Request, NEW l \in InTable \intersect InPool, Goto(r, l),
         pc[r] \in InTable \intersect InPool,
         UNCHANGED <<remcom, counter, req_table, table_lock, saving, request_pool>>,
         protocol' \in [Request -> Protocol \union {None}],
         buffer' \in [Request -> {"null", "request"} \union Data],
         attempts' \in [Request -> 0..(max_attempts - 1)],
         reply' \in [Request -> {None, "internal_error", "send_error", "attempt_error",
                                  "timeout_error"} \union Response],
         \A s \in Request : s # r => buffer'[s] = buffer[s],
         l = "deliver" => buffer'[r] \in Response
  PROVE  ManagerInv'
<1>1. TypeOK
  BY DEF ManagerInv
<1>2. TypeOK'
  BY <1>1 DEF TypeOK, Goto
<1>3. TableInv' /\ SavedNodeAlive' /\ CounterDrawn' /\ SaverHoldsTable'
  BY MoveInTable
<1>4. DeliversResponse'
  BY DEF ManagerInv, TypeOK, DeliversResponse, Goto
<1>5. Running' = Running
  BY <1>1, RunningSame
<1>6. PoolRespected'
  BY <1>5 DEF ManagerInv, PoolRespected
<1> QED BY <1>2, <1>3, <1>4, <1>6 DEF ManagerInv

\* The head of the second loop of req_dispatch.
LEMMA AwaitMoves ==
  ASSUME ManagerInv, NEW r \in Request, NEW n \in 0..max_attempts, AwaitResponse(r, n),
         pc[r] \in InTable \intersect InPool,
         UNCHANGED <<remcom, counter, protocol, buffer, req_table, table_lock, saving,
                     request_pool>>
  PROVE  ManagerInv'
<1> USE RequestAssumption
<1>1. CASE n < max_attempts /\ buffer[r] \notin Response
  <2>1. attempts' = [attempts EXCEPT ![r] = n] /\ Goto(r, "wait_resp") /\ reply' = reply
    BY <1>1, SMTT(30), Z3T(30) DEF AwaitResponse
  <2>2. attempts' \in [Request -> 0..(max_attempts - 1)]
    BY <1>1, <2>1, SMTT(30), Z3T(30) DEF ManagerInv, TypeOK
  <2> QED BY <2>1, <2>2, DispatchMoves DEF ManagerInv, TypeOK, InTable, InPool
<1>2. CASE n < max_attempts /\ buffer[r] \in Response
  <2>1. attempts' = [attempts EXCEPT ![r] = 0] /\ Goto(r, "deliver") /\ reply' = reply
    BY <1>2, SMTT(30), Z3T(30) DEF AwaitResponse
  <2>2. attempts' \in [Request -> 0..(max_attempts - 1)]
    BY <2>1, SMTT(30), Z3T(30) DEF ManagerInv, TypeOK
  <2> QED BY <1>2, <2>1, <2>2, DispatchMoves DEF ManagerInv, TypeOK, InTable, InPool
<1>3. CASE n = max_attempts
  <2>1. /\ attempts' = [attempts EXCEPT ![r] = 0] /\ Goto(r, "cleanup")
        /\ reply' = [reply EXCEPT ![r] = "attempt_error"]
    BY <1>3, SMTT(30), Z3T(30) DEF AwaitResponse, Answer
  <2>2. attempts' \in [Request -> 0..(max_attempts - 1)]
    BY <2>1, SMTT(30), Z3T(30) DEF ManagerInv, TypeOK
  <2> QED BY <2>1, <2>2, DispatchMoves DEF ManagerInv, TypeOK, InTable, InPool
<1> QED BY <1>1, <1>2, <1>3, SMTT(30), Z3T(30)

(***************************************************************************)
(* The manager: one lemma per function                                     *)
(***************************************************************************)

\* The steps of req_dispatch.
LEMMA DispatchInv ==
  ASSUME ManagerInv, NEW r \in Request, req_dispatch(r)
  PROVE  ManagerInv'
<1> USE RequestAssumption
<1>1. ASSUME NEW p \in Protocol, Start(r, p) PROVE ManagerInv'
  BY <1>1, DispatchMoves, ZenonT(30) DEF Start, ManagerInv, TypeOK, InTable, InPool
<1>2. CASE StartError(r)
  BY <1>2, DispatchMoves, ZenonT(30) DEF StartError, ManagerInv, TypeOK, InTable, InPool
<1>3. CASE SendError(r)
  BY <1>3, DispatchMoves, SMTT(30), Z3T(30) DEF SendError, Answer, ManagerInv, TypeOK, InTable, InPool
<1>4. CASE Send(r)
  <2>1. CASE protocol[r] = "udp" /\ Goto(r, "wait_ack") /\ UNCHANGED <<attempts, reply>>
    BY <1>4, <2>1, DispatchMoves DEF Send, ManagerInv, TypeOK, InTable, InPool
  <2>2. CASE AwaitResponse(r, 0)
    BY <1>4, <2>2, AwaitMoves, SMTT(30), Z3T(30) DEF Send, InTable, InPool
  <2> QED BY <1>4, <2>1, <2>2, ZenonT(30) DEF Send
<1>5. CASE AckArrived(r)
  BY <1>5, AwaitMoves, SMTT(30), Z3T(30) DEF AckArrived, InTable, InPool
<1>6. CASE AckTimeout(r)
  <2>1. CASE /\ attempts[r] + 1 < max_attempts /\ attempts' = [attempts EXCEPT ![r] = @ + 1]
             /\ Goto(r, "send") /\ UNCHANGED reply
    <3>1. attempts' \in [Request -> 0..(max_attempts - 1)]
      BY <2>1, SMTT(30), Z3T(30) DEF ManagerInv, TypeOK
    <3> QED BY <1>6, <2>1, <3>1, DispatchMoves DEF AckTimeout, ManagerInv, TypeOK, InTable, InPool
  <2>2. CASE /\ attempts' = [attempts EXCEPT ![r] = 0] /\ Answer(r, "attempt_error")
             /\ Goto(r, "cleanup")
    BY <1>6, <2>2, DispatchMoves, SMTT(30), Z3T(30) DEF AckTimeout, Answer, ManagerInv, TypeOK, InTable, InPool
  <2> QED BY <1>6, <2>1, <2>2, ZenonT(30) DEF AckTimeout
<1>7. CASE ResponseWake(r)
  <2>1. attempts[r] + 1 \in 0..max_attempts
    BY SMTT(30), Z3T(30) DEF ManagerInv, TypeOK
  <2> QED BY <1>7, <2>1, AwaitMoves DEF ResponseWake, InTable, InPool
<1>8. CASE ResponseTimeout(r)
  BY <1>8, DispatchMoves, SMTT(30), Z3T(30) DEF ResponseTimeout, Answer, ManagerInv, TypeOK, InTable, InPool
<1>9. CASE Deliver(r)
  BY <1>9, DispatchMoves DEF Deliver, Answer, ManagerInv, TypeOK, InTable, InPool, DeliversResponse
<1>10. CASE Delete(r)
  <2>1. ManagerInv /\ TypeOK /\ pc[r] \in InTable
    BY <1>10 DEF Delete, ManagerInv, InTable, InPool
  <2>2. counter[r] \in Counter /\ req_table[counter[r]] = r
    BY <2>1 DEF ManagerInv, CounterDrawn, TableInv
  <2>3. \A s \in Request : pc'[s] = IF s = r THEN "free" ELSE pc[s]
    BY <1>10 DEF Delete, Goto, ManagerInv, TypeOK
  <2>4. TypeOK'
    BY <1>10, <2>1, <2>2 DEF Delete, Goto, TypeOK, InTable, InPool
  <2>5. saving' = saving /\ \A h \in Handler : saving[h] = None
    BY <1>10 DEF Delete, ManagerInv, SaverHoldsTable
  <2>6. SavedNodeAlive' /\ SaverHoldsTable'
    BY <2>5 DEF SavedNodeAlive, SaverHoldsTable
  <2>7. CounterDrawn' /\ DeliversResponse'
    BY <1>10, <2>3 DEF Delete, ManagerInv, CounterDrawn, DeliversResponse, InTable, InPool
  <2>8. "free" \notin InTable
    BY ZenonT(30) DEF InTable, InPool
  <2>9. TableInv'
    <3>1. \A c \in Counter : req_table'[c] = IF c = counter[r] THEN None ELSE req_table[c]
      BY <1>10 DEF Delete, ManagerInv, TypeOK
    <3>2. counter' = counter
      BY <1>10 DEF Delete
    <3> QED BY <2>1, <2>2, <2>3, <2>8, <3>1, <3>2, SMTT(30), Z3T(30) DEF ManagerInv, TypeOK, TableInv, CounterDrawn
  <2>10. Running' = Running
    BY <1>10, <2>1, RunningSame DEF Delete, InPool
  <2>11. PoolRespected'
    BY <1>10, <2>10 DEF Delete, ManagerInv, PoolRespected
  <2> QED BY <2>4, <2>6, <2>7, <2>9, <2>11 DEF ManagerInv
<1>11. CASE Free(r)
  <2>1. TypeOK /\ Goto(r, "done") /\ pc[r] \in InPool /\ "done" \notin InPool
    BY <1>11 DEF Free, ManagerInv, InPool
  <2>2. Cardinality(Running') = Cardinality(Running) - 1 /\ Cardinality(Running) > 0
    BY <2>1, RunningLess
  <2>3. request_pool' = request_pool + 1 /\ request_pool \in 0..PoolSize
    BY <1>11 DEF Free, ManagerInv, TypeOK
  <2>4. PoolRespected' /\ request_pool' \in 0..PoolSize
    BY <2>2, <2>3, RunningFinite, SMTT(30), Z3T(30) DEF ManagerInv, PoolRespected
  <2>5. TypeOK'
    BY <1>11, <2>1, <2>4 DEF Free, Goto, TypeOK
  <2>6. \A s \in Request : pc'[s] = IF s = r THEN "done" ELSE pc[s]
    BY <2>1 DEF Goto, TypeOK
  <2>7. pc[r] \notin InTable /\ "done" \notin InTable
    BY <1>11, ZenonT(30) DEF Free, InTable, InPool
  <2>8. TableInv' /\ SavedNodeAlive' /\ CounterDrawn' /\ SaverHoldsTable'
    BY <1>11, <2>1, <2>6, <2>7, SMTT(30), Z3T(30) DEF Free, ManagerInv, TypeOK, TableInv, SavedNodeAlive, CounterDrawn,
       SaverHoldsTable
  <2>9. DeliversResponse'
    BY <1>11, <2>1, <2>6 DEF Free, ManagerInv, TypeOK, DeliversResponse
  <2> QED BY <2>4, <2>5, <2>8, <2>9 DEF ManagerInv
<1> QED BY <1>1, <1>2, <1>3, <1>4, <1>5, <1>6, <1>7, <1>8, <1>9, <1>10, <1>11, ZenonT(30) DEF req_dispatch

\* The steps of req_sender before it dispatches.
LEMMA SenderInv ==
  ASSUME ManagerInv, NEW r \in Request, req_sender(r)
  PROVE  ManagerInv'
<1> USE RequestAssumption
<1>1. ASSUME NEW c \in Counter, Receive(r, c) PROVE ManagerInv'
  <2>1. TypeOK /\ pc[r] = "idle" /\ Goto(r, "add")
    BY <1>1 DEF Receive, ManagerInv
  <2>2. TypeOK'
    BY <1>1, <2>1 DEF Receive, Goto, TypeOK
  <2>3. /\ \A s \in Request : pc'[s] = IF s = r THEN "add" ELSE pc[s]
        /\ \A s \in Request : counter'[s] = IF s = r THEN c ELSE counter[s]
    BY <1>1, <2>1 DEF Receive, Goto, TypeOK
  <2>4. "idle" \notin InTable /\ "add" \notin InTable
    BY ZenonT(30) DEF InTable, InPool
  <2>5. TableInv' /\ SavedNodeAlive' /\ CounterDrawn' /\ SaverHoldsTable'
    BY <1>1, <2>1, <2>3, <2>4, SMTT(30), Z3T(30) DEF Receive, ManagerInv, TypeOK, TableInv, SavedNodeAlive,
       CounterDrawn, SaverHoldsTable
  <2>6. DeliversResponse'
    BY <1>1, <2>1, <2>3 DEF Receive, ManagerInv, TypeOK, DeliversResponse
  <2>7. Running' = Running
    BY <2>1, RunningSame DEF InPool
  <2>8. PoolRespected'
    BY <1>1, <2>7 DEF Receive, ManagerInv, PoolRespected
  <2> QED BY <2>2, <2>5, <2>6, <2>8 DEF ManagerInv
<1>2. CASE AddNode(r)
  <2>1. TypeOK /\ pc[r] = "add" /\ Goto(r, "pool") /\ counter[r] \in Counter
    BY <1>2 DEF AddNode, ManagerInv, CounterDrawn
  <2>2. TypeOK'
    BY <1>2, <2>1 DEF AddNode, Goto, TypeOK, InTable
  <2>3. /\ \A s \in Request : pc'[s] = IF s = r THEN "pool" ELSE pc[s]
        /\ \A c \in Counter : req_table'[c] = IF c = counter[r] THEN r ELSE req_table[c]
    BY <1>2, <2>1 DEF AddNode, Goto, TypeOK
  <2>4. "add" \notin InTable /\ "pool" \in InTable /\ r # None
    BY ZenonT(30) DEF InTable, InPool
  <2>5. TableInv'
    BY <1>2, <2>1, <2>3, <2>4, SMTT(30), Z3T(30) DEF AddNode, ManagerInv, TypeOK, TableInv, CounterDrawn
  <2>6. saving' = saving /\ \A h \in Handler : saving[h] = None
    BY <1>2 DEF AddNode, ManagerInv, SaverHoldsTable
  <2>7. SavedNodeAlive' /\ SaverHoldsTable'
    BY <2>6 DEF SavedNodeAlive, SaverHoldsTable
  <2>8. CounterDrawn' /\ DeliversResponse'
    BY <1>2, <2>1, <2>3 DEF AddNode, ManagerInv, CounterDrawn, DeliversResponse
  <2>9. Running' = Running
    BY <2>1, RunningSame DEF InPool
  <2>10. PoolRespected'
    BY <1>2, <2>9 DEF AddNode, ManagerInv, PoolRespected
  <2> QED BY <2>2, <2>5, <2>7, <2>8, <2>10 DEF ManagerInv
<1>3. CASE AddDuplicate(r)
  <2>1. TypeOK /\ pc[r] = "add" /\ Goto(r, "done")
    BY <1>3 DEF AddDuplicate, ManagerInv
  <2>2. TypeOK'
    BY <1>3, <2>1, SMTT(30), Z3T(30) DEF AddDuplicate, Goto, TypeOK
  <2>3. \A s \in Request : /\ pc'[s] = IF s = r THEN "done" ELSE pc[s]
                          /\ buffer'[s] = IF s = r THEN "null" ELSE buffer[s]
    BY <1>3, <2>1 DEF AddDuplicate, Goto, TypeOK
  <2>4. "add" \notin InTable /\ "done" \notin InTable
    BY ZenonT(30) DEF InTable, InPool
  <2>5. TableInv' /\ SavedNodeAlive' /\ CounterDrawn' /\ SaverHoldsTable'
    BY <1>3, <2>1, <2>3, <2>4, SMTT(30), Z3T(30) DEF AddDuplicate, ManagerInv, TypeOK, TableInv, SavedNodeAlive,
       CounterDrawn, SaverHoldsTable
  <2>6. DeliversResponse'
    BY <2>3 DEF ManagerInv, DeliversResponse
  <2>7. Running' = Running
    BY <2>1, RunningSame DEF InPool
  <2>8. PoolRespected'
    BY <1>3, <2>7 DEF AddDuplicate, ManagerInv, PoolRespected
  <2> QED BY <2>2, <2>5, <2>6, <2>8 DEF ManagerInv
<1>4. CASE PoolTake(r)
  <2>1. /\ TypeOK /\ pc[r] = "pool" /\ Goto(r, "start") /\ pc[r] \in InTable
        /\ "start" \in InTable /\ "start" \in InPool /\ pc[r] \notin InPool
    BY <1>4 DEF PoolTake, ManagerInv, InTable, InPool
  <2>2. TypeOK'
    BY <1>4, <2>1, SMTT(30), Z3T(30) DEF PoolTake, Goto, TypeOK
  <2>3. TableInv' /\ SavedNodeAlive' /\ CounterDrawn' /\ SaverHoldsTable'
    BY <1>4, <2>1, MoveInTable DEF PoolTake
  <2>4. DeliversResponse'
    BY <1>4, <2>1 DEF PoolTake, Goto, ManagerInv, TypeOK, DeliversResponse
  <2>5. Cardinality(Running') = Cardinality(Running) + 1
    BY <2>1, RunningMore, ZenonT(30)
  <2>6. PoolRespected'
    BY <1>4, <2>1, <2>5, RunningFinite, SMTT(30), Z3T(30) DEF PoolTake, ManagerInv, TypeOK, PoolRespected
  <2> QED BY <2>2, <2>3, <2>4, <2>6 DEF ManagerInv
<1>5. ASSUME NEW l \in {"pool", "pool_wait", "rejected"}, Goto(r, l),
             pc[r] \in {"pool", "pool_wait"},
             UNCHANGED <<counter, protocol, buffer, attempts, req_table, table_lock, saving>>,
             remcom' \in {remcom, None},
             reply' = reply \/ Answer(r, "internal_error"),
             request_pool' \in 0..request_pool
      PROVE  ManagerInv'
  <2>1. /\ TypeOK /\ pc[r] \in InTable /\ l \in InTable
        /\ pc[r] \notin InPool /\ l \notin InPool /\ l # "deliver"
    BY <1>5 DEF ManagerInv, InTable, InPool
  <2>2. TypeOK'
    BY <1>5, <2>1, SMTT(30), Z3T(30) DEF Goto, Answer, TypeOK
  <2>3. TableInv' /\ SavedNodeAlive' /\ CounterDrawn' /\ SaverHoldsTable'
    BY <1>5, <2>1, MoveInTable, ZenonT(30)
  <2>4. DeliversResponse'
    BY <1>5, <2>1 DEF Goto, ManagerInv, TypeOK, DeliversResponse
  <2>5. Running' = Running
    BY <1>5, <2>1, RunningSame, ZenonT(30)
  <2>6. PoolRespected'
    BY <1>5, <2>1, <2>5, RunningFinite, SMTT(30), Z3T(30) DEF ManagerInv, TypeOK, PoolRespected
  <2> QED BY <2>2, <2>3, <2>4, <2>6 DEF ManagerInv
<1>6. request_pool \in Nat
  BY SMTT(30), Z3T(30) DEF ManagerInv, TypeOK
<1>7. CASE PoolBlock(r)
  BY <1>5, <1>6, <1>7, SMTT(30), Z3T(30) DEF PoolBlock
<1>8. CASE PoolWake(r)
  BY <1>5, <1>6, <1>8, SMTT(30), Z3T(30) DEF PoolWake
<1>9. CASE PoolTimeout(r)
  BY <1>5, <1>6, <1>9, SMTT(30), Z3T(30) DEF PoolTimeout
<1> QED BY <1>1, <1>2, <1>3, <1>4, <1>7, <1>8, <1>9 DEF req_sender

\* The steps of req_save.
LEMMA SaveInv ==
  ASSUME ManagerInv, NEW h \in Handler, req_save(h)
  PROVE  ManagerInv'
<1> USE RequestAssumption
<1>1. ASSUME NEW c \in Counter, NEW d \in Data, SaveLookup(h, c, d) PROVE ManagerInv'
  <2>1. TypeOK /\ req_table[c] \in Request
    BY <1>1 DEF SaveLookup, ManagerInv, TypeOK
  <2>2. TypeOK'
    BY <1>1, <2>1, ZenonT(30) DEF SaveLookup, TypeOK
  <2>3. \A g \in Handler : g # h => saving'[g] = None
    BY <1>1, <2>1 DEF SaveLookup, ManagerInv, SaverHoldsTable, TypeOK
  <2>4. saving'[h] = [node |-> req_table[c], data |-> d] /\ table_lock' = h
    BY <1>1, <2>1, ZenonT(30) DEF SaveLookup, TypeOK
  <2>5. SaverHoldsTable'
    BY <2>3, <2>4, ZenonT(30) DEF SaverHoldsTable
  <2>6. SavedNodeAlive'
    BY <1>1, <2>1, <2>3, <2>4, SMTT(30), Z3T(30) DEF SaveLookup, ManagerInv, SavedNodeAlive, TableInv
  <2>7. TableInv' /\ CounterDrawn' /\ DeliversResponse' /\ PoolRespected'
    BY <1>1, SMTT(30), Z3T(30) DEF SaveLookup, ManagerInv, TableInv, CounterDrawn, DeliversResponse, PoolRespected, Running
  <2> QED BY <2>2, <2>5, <2>6, <2>7, ZenonT(30) DEF ManagerInv
<1>2. CASE SaveUpdate(h)
  <2>1. TypeOK /\ saving[h] \in [node : Request, data : Data]
    BY <1>2 DEF SaveUpdate, ManagerInv, TypeOK
  <2>2. TypeOK'
    BY <1>2, <2>1, ZenonT(30) DEF SaveUpdate, TypeOK
  <2>3. \A g \in Handler : saving'[g] = None
    BY <1>2, <2>1, ZenonT(30) DEF SaveUpdate, ManagerInv, SaverHoldsTable, TypeOK
  <2>4. SavedNodeAlive' /\ SaverHoldsTable'
    BY <2>3, ZenonT(30) DEF SavedNodeAlive, SaverHoldsTable
  <2>5. DeliversResponse'
    BY <1>2, <2>1, ZenonT(30) DEF SaveUpdate, HoldsNode, ManagerInv, DeliversResponse, TypeOK
  <2>6. TableInv' /\ CounterDrawn' /\ PoolRespected'
    BY <1>2, SMTT(30), Z3T(30) DEF SaveUpdate, ManagerInv, TableInv, CounterDrawn, PoolRespected, Running
  <2> QED BY <2>2, <2>4, <2>5, <2>6 DEF ManagerInv
<1> QED BY <1>1, <1>2 DEF req_save

\* Every step of the specification keeps the invariant.
LEMMA ManagerNext == ManagerInv /\ [Next]_vars => ManagerInv'
<1> SUFFICES ASSUME ManagerInv, [Next]_vars PROVE ManagerInv'
  BY ZenonT(30)
<1>1. CASE UNCHANGED vars
  BY <1>1, SMTT(30), Z3T(30) DEF vars, ManagerInv, TypeOK, TableInv, SavedNodeAlive, PoolRespected, Running, CounterDrawn,
     SaverHoldsTable, DeliversResponse
<1>2. CASE Next
  BY <1>2, SenderInv, DispatchInv, SaveInv DEF Next
<1> QED BY <1>1, <1>2

\* The invariant holds throughout.
LEMMA ManagerInductive == Spec => []ManagerInv
BY ManagerInit, ManagerNext, PTL DEF Spec

\* A request that waits for a slot or runs is in the table under its counter, so that
\* req_save finds it, and no other request has that counter.
THEOREM CountersUnique == Spec => []CounterIdentifiesNode
<1>1. ManagerInv => CounterIdentifiesNode
  BY DEF ManagerInv, TableInv, CounterIdentifiesNode
<1> QED BY <1>1, ManagerInductive, PTL

\* req_save works on a node that is in the table and not freed, although it waits for the
\* mutex of the node while the dispatcher finishes.
THEOREM SavedAlive == Spec => []SavedNodeAlive
<1>1. ManagerInv => SavedNodeAlive
  BY DEF ManagerInv
<1> QED BY <1>1, ManagerInductive, PTL

\* The free slots with the running dispatchers never exceed remoted.request_pool.
THEOREM PoolKept == Spec => []PoolRespected
<1>1. ManagerInv => PoolRespected
  BY DEF ManagerInv
<1> QED BY <1>1, ManagerInductive, PTL

\* The slots that are free or with a dispatcher.
Slots == Cardinality(Running) + request_pool

\* The wait of req_pool_wait times out and a slot is free when it has mutex_pool again.
LateSlot == \E r \in Request : PoolTimeout(r) /\ request_pool > 0

\* A slot is lost only where req_pool_wait times out and finds one free, and then just
\* that one: every other step leaves the slots that are free or in use as many as before.
SlotsLostLate == [][Slots' = IF LateSlot THEN Slots - 1 ELSE Slots]_vars

\* A dispatcher under way keeps its slot, and frees it at its end.
LEMMA DispatchSlots ==
  ASSUME TypeOK, NEW r \in Request, req_dispatch(r)
  PROVE  Slots' = Slots
<1>1. Cardinality(Running) \in Nat /\ request_pool \in Nat
  BY RunningFinite, RequestAssumption, SMTT(30), Z3T(30) DEF TypeOK
<1>2. CASE Free(r)
  <2>1. Goto(r, "done") /\ pc[r] = "free" /\ request_pool' = request_pool + 1
    BY <1>2, ZenonT(30) DEF Free
  <2>2. "free" \in InPool /\ "done" \notin InPool
    BY DEF InPool
  <2>3. Cardinality(Running') = Cardinality(Running) - 1
    BY <2>1, <2>2, RunningLess, ZenonT(30)
  <2> QED BY <1>1, <2>1, <2>3, SMTT(30), Z3T(30) DEF Slots
<1>3. CASE ~Free(r)
  <2>1. /\ pc[r] \in InPool /\ request_pool' = request_pool
        /\ \E l \in InPool : Goto(r, l)
    BY <1>3, ZenonT(30) DEF req_dispatch, Start, StartError, SendError, Send, AckArrived, AckTimeout,
              ResponseWake, ResponseTimeout, AwaitResponse, Deliver, Delete, InPool
  <2>2. Running' = Running
    BY <2>1, RunningSame, ZenonT(30)
  <2> QED BY <2>1, <2>2, ZenonT(30) DEF Slots
<1> QED BY <1>2, <1>3, ZenonT(30)

\* Of the steps of req_sender, one takes a slot for a dispatcher and one may lose it.
LEMMA SenderSlots ==
  ASSUME TypeOK, NEW r \in Request, req_sender(r)
  PROVE  Slots' = IF PoolTimeout(r) /\ request_pool > 0 THEN Slots - 1 ELSE Slots
<1>1. Cardinality(Running) \in Nat /\ request_pool \in Nat
  BY RunningFinite, RequestAssumption, SMTT(30), Z3T(30) DEF TypeOK
<1>2. CASE PoolTake(r)
  <2>1. Goto(r, "start") /\ pc[r] = "pool" /\ request_pool' = request_pool - 1
    BY <1>2, ZenonT(30) DEF PoolTake
  <2>2. "start" \in InPool /\ "pool" \notin InPool /\ "pool" # "pool_wait"
    BY DEF InPool
  <2>3. Cardinality(Running') = Cardinality(Running) + 1
    BY <2>1, <2>2, RunningMore, ZenonT(30)
  <2>4. ~PoolTimeout(r)
    BY <2>1, <2>2, ZenonT(30) DEF PoolTimeout
  <2> QED BY <1>1, <2>1, <2>3, <2>4, SMTT(30), Z3T(30) DEF Slots
<1>3. CASE ~PoolTake(r)
  <2>1. /\ pc[r] \notin InPool
        /\ \E l : l \notin InPool /\ Goto(r, l)
    BY <1>3, ZenonT(30) DEF req_sender, Receive, AddNode, AddDuplicate, PoolBlock, PoolWake, PoolTimeout,
              InPool
  <2>2. Running' = Running
    BY <2>1, RunningSame, ZenonT(30)
  <2>3. CASE PoolTimeout(r)
    <3>1. request_pool' = IF request_pool > 0 THEN request_pool - 1 ELSE request_pool
      BY <2>3, ZenonT(30) DEF PoolTimeout
    <3> QED BY <1>1, <2>2, <2>3, <3>1, SMTT(30), Z3T(30) DEF Slots
  <2>4. CASE ~PoolTimeout(r)
    <3>1. request_pool' = request_pool
      BY <1>3, <2>4, ZenonT(30) DEF req_sender, Receive, AddNode, AddDuplicate, PoolBlock, PoolWake
    <3> QED BY <2>2, <2>4, <3>1, ZenonT(30) DEF Slots
  <2> QED BY <2>3, <2>4, ZenonT(30)
<1> QED BY <1>2, <1>3, ZenonT(30)

\* Only req_sender times out: no step of a dispatcher or of req_save is a late slot.
LEMMA TimeoutMoves ==
  ASSUME TypeOK, NEW r \in Request, PoolTimeout(r)
  PROVE  pc[r] = "pool_wait" /\ pc'[r] = "rejected"
BY DEF PoolTimeout, Goto, TypeOK

\* The pool that SlotsConserved is about shrinks at the timeout of req_pool_wait and
\* nowhere else: whatever dispatchers, handlers and requests do, a slot that is taken
\* otherwise is given back.
THEOREM SlotLoss == Spec => SlotsLostLate
<1>1. ManagerInv /\ [Next]_vars => [Slots' = IF LateSlot THEN Slots - 1 ELSE Slots]_vars
  <2> SUFFICES ASSUME TypeOK, Next PROVE Slots' = IF LateSlot THEN Slots - 1 ELSE Slots
    BY ZenonT(30) DEF ManagerInv
  <2>1. ASSUME NEW r \in Request, req_sender(r)
        PROVE  Slots' = IF LateSlot THEN Slots - 1 ELSE Slots
    <3>1. CASE PoolTimeout(r) /\ request_pool > 0
      BY <2>1, <3>1, SenderSlots, ZenonT(30) DEF LateSlot
    <3>2. CASE request_pool > 0 /\ ~PoolTimeout(r)
      <4>1. ~LateSlot
        <5> SUFFICES ASSUME NEW s \in Request, PoolTimeout(s) PROVE FALSE
          BY ZenonT(30) DEF LateSlot
        <5>1. s # r /\ pc[s] = "pool_wait" /\ pc'[s] = "rejected"
          BY <3>2, TimeoutMoves, ZenonT(30)
        <5>2. \E l : Goto(r, l)
          BY <2>1, ZenonT(30) DEF req_sender, Receive, AddNode, AddDuplicate, PoolTake, PoolBlock,
                         PoolWake, PoolTimeout
        <5>3. pc'[s] = pc[s]
          BY <5>1, <5>2, ZenonT(30) DEF Goto, TypeOK
        <5> QED BY <5>1, <5>3
      <4> QED BY <2>1, <3>2, <4>1, SenderSlots, ZenonT(30)
    <3>3. CASE ~(request_pool > 0)
      BY <2>1, <3>3, SenderSlots, ZenonT(30) DEF LateSlot
    <3> QED BY <3>1, <3>2, <3>3, ZenonT(30)
  <2>2. ASSUME NEW r \in Request, req_dispatch(r)
        PROVE  Slots' = IF LateSlot THEN Slots - 1 ELSE Slots
    <3>1. ~LateSlot
      <4> SUFFICES ASSUME NEW s \in Request, PoolTimeout(s) PROVE FALSE
        BY ZenonT(30) DEF LateSlot
      <4>1. pc[s] = "pool_wait" /\ pc'[s] = "rejected"
        BY TimeoutMoves, ZenonT(30)
      <4>2. \E l : l # "rejected" /\ Goto(r, l)
        BY <2>2, ZenonT(30) DEF req_dispatch, Start, StartError, SendError, Send, AckArrived, AckTimeout,
              ResponseWake, ResponseTimeout, AwaitResponse, Deliver, Delete, Free
      <4> QED BY <4>1, <4>2, ZenonT(30) DEF Goto, TypeOK
    <3> QED BY <2>2, <3>1, DispatchSlots, ZenonT(30)
  <2>3. ASSUME NEW h \in Handler, req_save(h)
        PROVE  Slots' = IF LateSlot THEN Slots - 1 ELSE Slots
    <3>1. pc' = pc /\ request_pool' = request_pool
      BY <2>3, ZenonT(30) DEF req_save, SaveLookup, SaveUpdate
    <3>2. ~LateSlot
      BY <3>1, TimeoutMoves DEF LateSlot
    <3>3. Running' = Running
      BY <3>1, ZenonT(30) DEF Running
    <3> QED BY <3>1, <3>2, <3>3, ZenonT(30) DEF Slots
  <2> QED BY <2>1, <2>2, <2>3, ZenonT(30) DEF Next
<1> QED BY <1>1, ManagerInductive, PTL DEF Spec, SlotsLostLate

(***************************************************************************)
(* The agent.  Its invariant adds to the two properties where req_receiver *)
(* has a node, and that it has attempts left while it sends.               *)
(***************************************************************************)
ReceiverInv ==
  /\ rpc = "idle" <=> node = None
  /\ rpc # "cleanup" => tries < agent_attempts

AgentInv == TableMatchesRing /\ A!AckedNodeAlive /\ ReceiverInv

\* The next slot after the last one is the first.
LEMMA RingForward ==
  ASSUME NEW x \in A!Slot
  PROVE  /\ A!forward(x) \in A!Slot
         /\ A!forward(x) = IF x = ring_size - 1 THEN 0 ELSE x + 1
<1>1. ring_size \in Nat /\ ring_size > 0 /\ x \in Nat /\ x <= ring_size - 1
  BY AgentEndAssumption, SMTT(30), Z3T(30) DEF A!AgentAssumption, A!Slot
<1>2. CASE x = ring_size - 1
  <2>1. x + 1 = ring_size
    BY <1>1, <1>2, SMTT(30), Z3T(30)
  <2>2. ring_size % ring_size = 0
    BY <1>1, SMTT(30), Z3T(30)
  <2> QED BY <1>1, <1>2, <2>1, <2>2, SMTT(30), Z3T(30) DEF A!forward, A!Slot
<1>3. CASE x # ring_size - 1
  <2>1. x + 1 \in Nat /\ x + 1 < ring_size
    BY <1>1, <1>3, SMTT(30), Z3T(30)
  <2>2. (x + 1) % ring_size = x + 1
    BY <1>1, <2>1, SMTT(30), Z3T(30)
  <2> QED BY <1>1, <1>3, <2>1, <2>2, SMTT(30), Z3T(30) DEF A!forward, A!Slot
<1> QED BY <1>2, <1>3

\* The slots between two indices.
Between(b, a) == {s \in A!Slot : IF b <= a THEN b <= s /\ s < a ELSE b <= s \/ s < a}

\* The slot that req_push fills was free and is occupied then.
LEMMA RingPush ==
  ASSUME NEW a \in A!Slot, NEW b \in A!Slot, A!forward(a) # b
  PROVE  Between(b, A!forward(a)) = Between(b, a) \union {a} /\ a \notin Between(b, a)
<1>1. ring_size \in Nat /\ ring_size > 0 /\ A!Slot = 0..(ring_size - 1)
  BY AgentEndAssumption, SMTT(30), Z3T(30) DEF A!AgentAssumption, A!Slot
<1>2. A!forward(a) \in A!Slot /\ A!forward(a) = IF a = ring_size - 1 THEN 0 ELSE a + 1
  BY RingForward
<1>3. \A s \in A!Slot : s \in Between(b, A!forward(a)) <=> s \in Between(b, a) \/ s = a
  BY <1>1, <1>2, SMTT(30), Z3T(30) DEF Between
<1>4. a \notin Between(b, a)
  BY <1>1, SMTT(30), Z3T(30) DEF Between
<1> QED BY <1>3, <1>4 DEF Between

\* The slot that req_receiver takes was occupied and is free then.
LEMMA RingPop ==
  ASSUME NEW a \in A!Slot, NEW b \in A!Slot, a # b
  PROVE  Between(A!forward(b), a) = Between(b, a) \ {b} /\ b \in Between(b, a)
<1>1. ring_size \in Nat /\ ring_size > 0 /\ A!Slot = 0..(ring_size - 1)
  BY AgentEndAssumption, SMTT(30), Z3T(30) DEF A!AgentAssumption, A!Slot
<1>2. A!forward(b) \in A!Slot /\ A!forward(b) = IF b = ring_size - 1 THEN 0 ELSE b + 1
  BY RingForward
<1>3. \A s \in A!Slot : s \in Between(A!forward(b), a) <=> s \in Between(b, a) /\ s # b
  BY <1>1, <1>2, SMTT(30), Z3T(30) DEF Between
<1>4. b \in Between(b, a)
  BY <1>1, SMTT(30), Z3T(30) DEF Between
<1> QED BY <1>3, <1>4 DEF Between

\* The part of TableMatchesRing beyond the types, for a table, a ring, its occupied
\* slots and the node of req_receiver.
Matches(table, pool, occ, n) ==
  /\ \A s \in A!Slot : pool[s] # None <=> s \in occ
  /\ \A s, t \in occ : pool[s] = pool[t] => s = t
  /\ \A s \in occ : pool[s] # n
  /\ table = {pool[s] : s \in occ} \union ({n} \ {None})

\* TableMatchesRing in these terms, in a state and in the next one.
LEMMA TableMatches ==
  /\ TableMatchesRing <=> A!ATypeOK /\ Matches(a_table, req_pool, Between(pool_j, pool_i), node)
  /\ TableMatchesRing' <=> A!ATypeOK' /\ Matches(a_table', req_pool', Between(pool_j', pool_i'), node')
<1>1. A!Occupied = Between(pool_j, pool_i) /\ A!Occupied' = Between(pool_j', pool_i')
  BY DEF A!Occupied, Between
<1> QED BY <1>1 DEF TableMatchesRing, A!TableMatchesRing, Matches, A!Slot

\* A new counter in a free slot.
LEMMA MatchesPush ==
  ASSUME NEW table, NEW pool, NEW occ, NEW n, NEW c \in Sent, NEW a \in A!Slot, c \notin table,
         occ \subseteq A!Slot, a \notin occ, DOMAIN pool = A!Slot, Matches(table, pool, occ, n)
  PROVE  Matches(table \union {c}, [pool EXCEPT ![a] = c], occ \union {a}, n)
<1> DEFINE q == [pool EXCEPT ![a] = c]
<1>1. c # None
  BY AgentEndAssumption DEF A!AgentAssumption
<1>2. \A s \in A!Slot : q[s] = IF s = a THEN c ELSE pool[s]
  OBVIOUS
<1>3. \A s \in occ : pool[s] # c /\ q[s] = pool[s]
  BY <1>2 DEF Matches
<1>4. q[a] = c
  BY <1>2
<1> HIDE DEF q
<1>5. c # n
  BY <1>1 DEF Matches
<1>6. {q[s] : s \in occ \union {a}} = {pool[s] : s \in occ} \union {c}
  BY <1>3, <1>4
<1>7. Matches(table \union {c}, q, occ \union {a}, n)
  BY <1>1, <1>2, <1>3, <1>4, <1>5, <1>6 DEF Matches
<1> QED BY <1>7 DEF q

\* req_receiver takes the node of an occupied slot.
LEMMA MatchesPop ==
  ASSUME NEW table, NEW pool, NEW occ, NEW b \in occ, occ \subseteq A!Slot,
         DOMAIN pool = A!Slot, Matches(table, pool, occ, None)
  PROVE  Matches(table, [pool EXCEPT ![b] = None], occ \ {b}, pool[b]) /\ pool[b] # None
<1> DEFINE q == [pool EXCEPT ![b] = None]
<1>1. \A s \in A!Slot : q[s] = IF s = b THEN None ELSE pool[s]
  OBVIOUS
<1>2. pool[b] # None
  BY DEF Matches
<1>3. \A s \in occ \ {b} : q[s] = pool[s] /\ q[s] # pool[b]
  BY <1>1 DEF Matches
<1> HIDE DEF q
<1>4. {pool[s] : s \in occ} = {q[s] : s \in occ \ {b}} \union {pool[b]}
  BY <1>3, SMTT(30), Z3T(30)
<1>5. Matches(table, q, occ \ {b}, pool[b])
  BY <1>1, <1>2, <1>3, <1>4 DEF Matches
<1> QED BY <1>2, <1>5 DEF q

\* The node that leaves the table is in no slot.
LEMMA MatchesDelete ==
  ASSUME NEW table, NEW pool, NEW occ, NEW n, occ \subseteq A!Slot, Matches(table, pool, occ, n)
  PROVE  Matches(table \ {n}, pool, occ, None)
<1>1. \A s \in occ : pool[s] # n /\ pool[s] # None
  BY DEF Matches
<1> QED BY <1>1 DEF Matches

\* Between its ends the agent's invariant does not look at the response or the history.
LEMMA AgentMoves ==
  ASSUME AgentInv, UNCHANGED <<a_table, req_pool, pool_i, pool_j, node>>, A!ATypeOK',
         A!AckedNodeAlive', ReceiverInv'
  PROVE  AgentInv'
<1>1. Matches(a_table, req_pool, Between(pool_j, pool_i), node)
  BY TableMatches DEF AgentInv
<1>2. TableMatchesRing'
  BY <1>1, TableMatches
<1> QED BY <1>2 DEF AgentInv

\* No request has reached the agent.
LEMMA AgentInit == A!AInit => AgentInv
<1> SUFFICES ASSUME A!AInit PROVE AgentInv
  OBVIOUS
<1> USE AgentEndAssumption DEF A!AgentAssumption
<1>1. A!ATypeOK
  BY SMTT(30), Z3T(30) DEF A!AInit, A!ATypeOK, A!Slot
<1>2. Between(pool_j, pool_i) = {}
  BY SMTT(30), Z3T(30) DEF A!AInit, Between, A!Slot
<1>3. Matches(a_table, req_pool, {}, node)
  BY DEF A!AInit, Matches
<1>4. TableMatchesRing
  BY <1>1, <1>2, <1>3, TableMatches
<1>5. A!AckedNodeAlive /\ ReceiverInv
  BY SMTT(30), Z3T(30) DEF A!AInit, A!AckedNodeAlive, ReceiverInv
<1> QED BY <1>4, <1>5 DEF AgentInv

\* Every step of the agent keeps its invariant.
LEMMA AgentNext == AgentInv /\ [A!ANext]_avars => AgentInv'
<1> SUFFICES ASSUME AgentInv, [A!ANext]_avars PROVE AgentInv'
  OBVIOUS
<1> USE AgentEndAssumption DEF A!AgentAssumption
<1>0. /\ A!ATypeOK /\ ReceiverInv /\ A!AckedNodeAlive
      /\ Matches(a_table, req_pool, Between(pool_j, pool_i), node)
  BY TableMatches DEF AgentInv
<1>1. /\ Between(pool_j, pool_i) \subseteq A!Slot /\ DOMAIN req_pool = A!Slot
      /\ pool_i \in A!Slot /\ pool_j \in A!Slot
  BY <1>0 DEF Between, A!ATypeOK
<1>2. ASSUME NEW c \in Sent, A!PushRequest(c) PROVE AgentInv'
  <2>1. A!forward(pool_i) # pool_j /\ A!forward(pool_i) \in A!Slot
    BY <1>1, <1>2, RingForward DEF A!PushRequest, A!full
  <2>2. /\ Between(pool_j, A!forward(pool_i)) = Between(pool_j, pool_i) \union {pool_i}
        /\ pool_i \notin Between(pool_j, pool_i)
    BY <1>1, <2>1, RingPush
  <2>3. c \notin a_table
    BY <1>2 DEF A!PushRequest
  <2>4. Matches(a_table \union {c}, [req_pool EXCEPT ![pool_i] = c], Between(pool_j, pool_i) \union {pool_i}, node)
    BY <1>0, <1>1, <2>2, <2>3, MatchesPush, ZenonT(30)
  <2>5. A!ATypeOK'
    BY <1>0, <1>2, <2>1 DEF A!PushRequest, A!ATypeOK
  <2>6. TableMatchesRing'
    BY <1>2, <2>2, <2>4, <2>5, TableMatches DEF A!PushRequest
  <2>7. A!AckedNodeAlive' /\ ReceiverInv'
    BY <1>0, <1>2 DEF A!PushRequest, A!AckedNodeAlive, ReceiverInv
  <2> QED BY <2>6, <2>7 DEF AgentInv
<1>3. ASSUME NEW c \in Sent, A!PushAckLookup(c) PROVE AgentInv'
  <2>1. A!ATypeOK' /\ A!AckedNodeAlive' /\ ReceiverInv'
    BY <1>0, <1>3 DEF A!PushAckLookup, A!ATypeOK, A!AckedNodeAlive, ReceiverInv
  <2> QED BY <1>3, <2>1, AgentMoves, ZenonT(30) DEF A!PushAckLookup
<1>4. CASE A!PushAckUpdate
  <2>1. A!ATypeOK' /\ A!AckedNodeAlive' /\ ReceiverInv'
    BY <1>0, <1>4 DEF A!PushAckUpdate, A!ATypeOK, A!AckedNodeAlive, ReceiverInv
  <2> QED BY <1>4, <2>1, AgentMoves, ZenonT(30) DEF A!PushAckUpdate
<1>5. CASE A!Pop
  <2>1. pool_i # pool_j /\ A!forward(pool_j) \in A!Slot /\ node = None
    BY <1>0, <1>1, <1>5, RingForward DEF A!Pop, A!empty, ReceiverInv
  <2>2. /\ Between(A!forward(pool_j), pool_i) = Between(pool_j, pool_i) \ {pool_j}
        /\ pool_j \in Between(pool_j, pool_i)
    BY <1>1, <2>1, RingPop
  <2>3. /\ Matches(a_table, [req_pool EXCEPT ![pool_j] = None], Between(pool_j, pool_i) \ {pool_j}, req_pool[pool_j])
        /\ req_pool[pool_j] # None
    BY <1>0, <1>1, <2>1, <2>2, MatchesPop, ZenonT(30)
  <2>4. A!ATypeOK'
    BY <1>0, <1>1, <1>5, <2>1, ZenonT(30) DEF A!Pop, A!ATypeOK
  <2>5. TableMatchesRing'
    BY <1>5, <2>2, <2>3, <2>4, TableMatches DEF A!Pop
  <2>6. A!AckedNodeAlive' /\ ReceiverInv'
    BY <1>0, <1>5, <2>3 DEF A!Pop, A!AckedNodeAlive, ReceiverInv
  <2> QED BY <2>5, <2>6 DEF AgentInv
<1>6. CASE A!Dispatch
  <2>1. node \in Sent
    BY <1>0, <1>6, ZenonT(30) DEF A!Dispatch, ReceiverInv, A!ATypeOK
  <2>2. A!ATypeOK' /\ A!AckedNodeAlive' /\ ReceiverInv'
    BY <1>0, <1>6, <2>1, ZenonT(30) DEF A!Dispatch, A!ATypeOK, A!AckedNodeAlive, ReceiverInv
  <2> QED BY <1>6, <2>2, AgentMoves, ZenonT(30) DEF A!Dispatch
<1>7. CASE A!SendUDP \/ A!SendTCP \/ A!SendFails \/ A!Acknowledged
  <2>1. A!ATypeOK' /\ A!AckedNodeAlive' /\ ReceiverInv'
    BY <1>0, <1>7 DEF A!SendUDP, A!SendTCP, A!SendFails, A!Acknowledged, A!ATypeOK,
       A!AckedNodeAlive, ReceiverInv
  <2> QED BY <1>7, <2>1, AgentMoves, ZenonT(30) DEF A!SendUDP, A!SendTCP, A!SendFails, A!Acknowledged
<1>8. CASE A!NotAcknowledged
  <2>1. tries \in Nat /\ tries < agent_attempts /\ agent_attempts \in Nat
    BY <1>0, <1>8, SMTT(30), Z3T(30) DEF A!NotAcknowledged, ReceiverInv, A!ATypeOK
  <2>2. tries + 1 \in 0..agent_attempts
    BY <2>1, SMTT(30), Z3T(30)
  <2>3. A!ATypeOK' /\ A!AckedNodeAlive' /\ ReceiverInv'
    BY <1>0, <1>8, <2>1, <2>2, ZenonT(30) DEF A!NotAcknowledged, A!ATypeOK, A!AckedNodeAlive, ReceiverInv
  <2> QED BY <1>8, <2>3, AgentMoves, ZenonT(30) DEF A!NotAcknowledged
<1>9. CASE A!Delete
  <2>1. Matches(a_table \ {node}, req_pool, Between(pool_j, pool_i), None)
    BY <1>0, <1>1, MatchesDelete, ZenonT(30)
  <2>2. A!ATypeOK'
    <3>1. node \in Sent /\ data \in [Sent -> {"none", "request", "ack"}]
      BY <1>0, <1>9 DEF A!Delete, A!ATypeOK, ReceiverInv
    <3>2. data' \in [Sent -> {"none", "request", "ack"}]
      BY <1>9, <3>1 DEF A!Delete
    <3>3. a_table' \subseteq Sent /\ tries' \in 0..agent_attempts
      BY <1>0, <1>9, SMTT(30), Z3T(30) DEF A!Delete, A!ATypeOK
    <3> QED BY <1>0, <1>9, <3>2, <3>3, ZenonT(30) DEF A!Delete, A!ATypeOK
  <2>3. TableMatchesRing'
    BY <1>9, <2>1, <2>2, TableMatches DEF A!Delete
  <2>4. A!AckedNodeAlive' /\ ReceiverInv'
    BY <1>0, <1>9, SMTT(30), Z3T(30) DEF A!Delete, A!AckedNodeAlive, ReceiverInv
  <2> QED BY <2>3, <2>4 DEF AgentInv
<1>10. CASE UNCHANGED avars
  <2>1. A!ATypeOK' /\ A!AckedNodeAlive' /\ ReceiverInv'
    BY <1>0, <1>10 DEF avars, A!ATypeOK, A!AckedNodeAlive, ReceiverInv
  <2> QED BY <1>10, <2>1, AgentMoves, ZenonT(30) DEF avars
<1>11. ASSUME NEW c \in Sent, A!PushDuplicate(c) \/ A!PushFull(c) \/ A!PushNoTarget(c) \/ A!PushAckUnknown(c)
       PROVE  AgentInv'
  BY <1>10, <1>11 DEF A!PushDuplicate, A!PushFull, A!PushNoTarget, A!PushAckUnknown, A!avars, avars
<1> QED BY <1>2, <1>3, <1>4, <1>5, <1>6, <1>7, <1>8, <1>9, <1>10, <1>11 DEF A!ANext

\* The agent's invariant holds throughout.
LEMMA AgentInductive == A!ASpec => []AgentInv
<1>1. A!avars = avars
  BY DEF A!avars, avars
<1>2. AgentInv /\ [A!ANext]_(A!avars) => AgentInv'
  BY <1>1, AgentNext DEF A!avars, avars
<1> QED BY <1>2, AgentInit, PTL DEF A!ASpec

\* At the agent the table holds exactly the nodes that wait in the ring and the one
\* that req_receiver works on, each once, whatever requests and ACKs req_push gets.
THEOREM RingMatchesTable == A!ASpec => []TableMatchesRing
<1>1. AgentInv => TableMatchesRing
  BY DEF AgentInv
<1> QED BY <1>1, AgentInductive, PTL

\* Neither end works on a freed node: req_save at the manager and req_push at the
\* agent hold mutex_table from the look-up to the update, and the node is deleted
\* under it.
THEOREM AliveNodes == Spec /\ A!ASpec => []NodesAlive
<1>1. ManagerInv /\ AgentInv => NodesAlive
  BY DEF ManagerInv, AgentInv, NodesAlive
<1> QED BY <1>1, ManagerInductive, AgentInductive, PTL

(***************************************************************************)
(* The protocol.  What is on its way is backed: a result by an execution,  *)
(* and the answer to an ACK that was executed as a request, like the ACK   *)
(* itself, by the reply that the local peer already has.                   *)
(***************************************************************************)

\* The request with this counter has its reply.
Answered(c, cnt, rep) == \E r \in Request : cnt[r] = c /\ rep[r] \in {"result", "refusal"}

\* What a message, a buffer or a response with this counter may hold.
Backed(c, d, cnt, rep, exe) ==
  /\ d = "result" => c \in exe
  /\ d = "garbage" => Answered(c, cnt, rep)

\* The messages on their way.
NetInv ==
  /\ toAgent \subseteq [counter : Counter, kind : {"request", "ack"}]
  /\ toManager \subseteq [counter : Counter, kind : Data]
  /\ \A m \in toAgent : m.kind = "ack" => Answered(m.counter, counter, reply)
  /\ \A m \in toManager : Backed(m.counter, m.kind, counter, reply, executed)

\* The nodes of the agent.
AgentEnd ==
  /\ \A c \in Counter : data[c] = "ack" => Answered(c, counter, reply)
  /\ \A c \in a_table : data[c] # "none"
  /\ push_ack # None => Answered(push_ack, counter, reply)
  /\ response = "none" <=> rpc \in {"idle", "dispatch"}
  /\ node # None => Backed(node, response, counter, reply, executed)

\* The states of a request that is over.
Ended == {"cleanup", "free", "done"}

\* The nodes of the manager.
ManagerEnd ==
  /\ \A h \in Handler : saving[h] # None =>
       Backed(counter[saving[h].node], saving[h].data, counter, reply, executed)
  /\ \A r \in Request : Backed(counter[r], buffer[r], counter, reply, executed)
  /\ \A r \in Request : reply[r] \in Response => pc[r] \in Ended
  /\ \A r \in Request : counter[r] = None <=> pc[r] = "idle"
  /\ \A r, s \in Request : counter[r] = counter[s] /\ counter[r] # None => r = s

ProtocolInv == NetInv /\ AgentEnd /\ ManagerEnd /\ ResultWasExecuted

\* A step takes no reply back and no execution.
Kept ==
  /\ \A c \in Counter : Answered(c, counter, reply) => Answered(c, counter', reply')
  /\ executed \subseteq executed'

\* What is backed stays backed.
LEMMA BackedKept ==
  ASSUME Kept, NEW c \in Counter, NEW d, Backed(c, d, counter, reply, executed)
  PROVE  Backed(c, d, counter', reply', executed')
BY DEF Kept, Backed

\* No message is sent, no request under way.
LEMMA ProtocolInitInv == ProtocolInit => ProtocolInv
<1> SUFFICES ASSUME ProtocolInit PROVE ProtocolInv
  OBVIOUS
<1> USE RequestAssumption, ProtocolAssumption
<1>1. NetInv
  BY ZenonT(30) DEF ProtocolInit, NetInv
<1>2. AgentEnd
  BY DEF ProtocolInit, A!AInit, AgentEnd
<1>3. ManagerEnd
  BY ZenonT(30) DEF ProtocolInit, Init, ManagerEnd, Backed
<1>4. ResultWasExecuted
  BY ZenonT(30) DEF ProtocolInit, Init, ResultWasExecuted
<1> QED BY <1>1, <1>2, <1>3, <1>4 DEF ProtocolInv

\* A step of the protocol is a step of the manager or leaves it alone: what the agent
\* sends is what a handler may store.
LEMMA ManagerProjects ==
  ASSUME NetInv, [ProtocolNext]_pvars
  PROVE  [Next]_vars
<1> USE ProtocolAssumption
<1>1. ASSUME NEW r \in Request, SendRequest(r) \/ TakeAck(r) \/ DeliverResponse(r)
      PROVE  Next
  BY <1>1 DEF SendRequest, TakeAck, DeliverResponse, Next, req_dispatch
<1>2. ASSUME NEW r \in Request, ManagerLocal(r)
      PROVE  Next
  BY <1>2 DEF ManagerLocal, ReceiveFresh, Next, req_dispatch, req_sender
<1>3. ASSUME NEW h \in Handler, ManagerSaves(h)
      PROVE  Next
  <2>1. \A m \in toManager : m.counter \in Counter /\ m.kind \in Data
    BY DEF NetInv
  <2> QED BY <1>3, <2>1 DEF ManagerSaves, Next, req_save
<1>4. ASSUME (\E c \in Counter : GetRequest(c) \/ GetAck(c)) \/ SendResponse \/ AgentLocal \/ UNCHANGED pvars
      PROVE  UNCHANGED vars
  BY <1>4 DEF GetRequest, GetAck, SendResponse, AgentLocal, AgentSends, pvars
<1> QED BY <1>1, <1>2, <1>3, <1>4 DEF ProtocolNext

\* It is a step of the agent or leaves it alone.
LEMMA AgentProjects ==
  ASSUME [ProtocolNext]_pvars
  PROVE  [A!ANext]_avars
<1> USE ProtocolAssumption
<1>1. ASSUME NEW c \in Counter, GetRequest(c) \/ GetAck(c)
      PROVE  A!ANext
  BY <1>1 DEF GetRequest, GetAck, A!ANext
<1>2. ASSUME SendResponse \/ AgentLocal
      PROVE  A!ANext
  BY <1>2 DEF SendResponse, AgentLocal, A!ANext
<1>3. ASSUME NEW r \in Request, SendRequest(r) \/ TakeAck(r) \/ DeliverResponse(r) \/ ManagerLocal(r)
      PROVE  UNCHANGED avars
  BY <1>3 DEF SendRequest, TakeAck, DeliverResponse, ManagerLocal
<1>4. ASSUME NEW h \in Handler, ManagerSaves(h)
      PROVE  UNCHANGED avars
  BY <1>4 DEF ManagerSaves
<1>5. ASSUME UNCHANGED pvars
      PROVE  UNCHANGED avars
  BY <1>5 DEF pvars
<1> QED BY <1>1, <1>2, <1>3, <1>4, <1>5 DEF ProtocolNext

\* A step of the manager that keeps the replies given leaves the agent and what is on
\* its way backed.
LEMMA OthersKept ==
  ASSUME NetInv, AgentEnd, AgentInv, Kept, UNCHANGED avars
  PROVE  /\ AgentEnd'
         /\ UNCHANGED net => NetInv'
<1> USE ProtocolAssumption
<1>1. push_ack \in Counter \union {None} /\ node \in Counter \union {None}
  BY ZenonT(30) DEF AgentInv, TableMatchesRing, A!TableMatchesRing, A!ATypeOK
<1>2. AgentEnd'
  <2>1. \A c \in Counter : data'[c] = "ack" => Answered(c, counter', reply')
    BY DEF AgentEnd, Kept, avars
  <2>2. push_ack' # None => Answered(push_ack', counter', reply')
    BY <1>1 DEF AgentEnd, Kept, avars
  <2>3. node' # None => Backed(node', response', counter', reply', executed')
    BY <1>1, BackedKept DEF AgentEnd, avars
  <2> QED BY <2>1, <2>2, <2>3, ZenonT(30) DEF AgentEnd, avars
<1>3. ASSUME UNCHANGED net PROVE NetInv'
  <2>1. \A m \in toAgent : m.counter \in Counter
    BY DEF NetInv
  <2>2. \A m \in toManager : m.counter \in Counter
    BY DEF NetInv
  <2>3. \A m \in toAgent : m.kind = "ack" => Answered(m.counter, counter', reply')
    BY <2>1 DEF NetInv, Kept
  <2>4. \A m \in toManager : Backed(m.counter, m.kind, counter', reply', executed')
    BY <2>2, BackedKept, ZenonT(30) DEF NetInv
  <2> QED BY <1>3, <2>3, <2>4 DEF NetInv, net
<1> QED BY <1>2, <1>3, ZenonT(30)

\* The errors that req_sender and req_dispatch write to the peer.
Errors == {"internal_error", "send_error", "attempt_error", "timeout_error"}

\* A step of a request that draws no counter, stores nothing in its node and delivers
\* no response.
LEMMA QuietStep ==
  ASSUME ManagerInv, ManagerEnd, ResultWasExecuted, NEW r \in Request, NEW l, Goto(r, l),
         UNCHANGED <<counter, saving, executed>>,
         pc[r] # "idle", l # "idle", pc[r] \in Ended => l \in Ended,
         buffer' = buffer \/ buffer' = [buffer EXCEPT ![r] = "null"],
         reply' = reply \/ (pc[r] \notin Ended /\ \E e \in Errors : Answer(r, e))
  PROVE  Kept /\ ManagerEnd' /\ ResultWasExecuted'
<1> USE RequestAssumption, ProtocolAssumption
<1>1. TypeOK
  BY ZenonT(30) DEF ManagerInv
<1>2. \A s \in Request : reply'[s] = reply[s] \/ (s = r /\ reply'[s] \in Errors /\ reply[s] \notin Response)
  BY <1>1 DEF ManagerEnd, Answer, TypeOK
<1>3. Errors \intersect Response = {}
  BY DEF Errors
<1>4. Kept
  BY <1>2, ZenonT(30) DEF Kept, Answered
<1>5. ResultWasExecuted'
  BY <1>2, <1>3, ZenonT(30) DEF ResultWasExecuted
<1>6. \A s \in Request : pc'[s] = IF s = r THEN l ELSE pc[s]
  BY <1>1, ZenonT(30) DEF Goto, TypeOK
<1>7. /\ \A s \in Request : reply'[s] \in Response => pc'[s] \in Ended
      /\ \A s \in Request : counter'[s] = None <=> pc'[s] = "idle"
      /\ \A s, t \in Request : counter'[s] = counter'[t] /\ counter'[s] # None => s = t
  BY <1>2, <1>3, <1>6, ZenonT(30) DEF ManagerEnd
<1>8. ASSUME NEW s \in Request
      PROVE  Backed(counter'[s], buffer'[s], counter', reply', executed')
  <2>1. buffer'[s] = buffer[s] \/ buffer'[s] = "null"
    BY <1>1 DEF TypeOK
  <2>2. CASE buffer'[s] = "null"
    BY <2>2, ZenonT(30) DEF Backed
  <2>3. CASE buffer'[s] = buffer[s] /\ counter[s] \in Counter
    BY <1>4, <2>3, BackedKept, ZenonT(30) DEF ManagerEnd
  <2>4. CASE buffer'[s] = buffer[s] /\ counter[s] = None
    <3>1. Backed(None, buffer[s], counter, reply, executed)
      BY <2>4, ZenonT(30) DEF ManagerEnd
    <3>2. executed' = executed
      OBVIOUS
    <3>3. Answered(None, counter, reply) => Answered(None, counter', reply')
      BY <1>2, ZenonT(30) DEF Answered
    <3> QED BY <2>4, <3>1, <3>2, <3>3, ZenonT(30) DEF Backed
  <2> QED BY <1>1, <2>1, <2>2, <2>3, <2>4, ZenonT(30) DEF TypeOK
<1>9. ASSUME NEW h \in Handler, saving'[h] # None
      PROVE  Backed(counter'[saving'[h].node], saving'[h].data, counter', reply', executed')
  <2>1. saving[h] \in [node : Request, data : Data] /\ saving' = saving /\ counter' = counter
    BY <1>1, <1>9, ZenonT(30) DEF TypeOK
  <2>2. pc[saving[h].node] \in InTable
    BY <1>9, <2>1, ZenonT(30) DEF ManagerInv, SavedNodeAlive
  <2>3. counter[saving[h].node] \in Counter
    BY <2>1, <2>2 DEF ManagerInv, CounterDrawn
  <2> QED BY <1>4, <1>9, <2>1, <2>3, BackedKept, ZenonT(30) DEF ManagerEnd
<1> QED BY <1>4, <1>5, <1>7, <1>8, <1>9, ZenonT(30) DEF ManagerEnd

\* The head of the second loop of req_dispatch delivers nothing yet.
LEMMA AwaitQuiet ==
  ASSUME ManagerInv, ManagerEnd, ResultWasExecuted, NEW r \in Request, NEW n, AwaitResponse(r, n),
         pc[r] \notin Ended, pc[r] # "idle", UNCHANGED <<counter, saving, executed, buffer>>
  PROVE  Kept /\ ManagerEnd' /\ ResultWasExecuted'
<1>1. PICK l \in {"wait_resp", "deliver", "cleanup"} :
        Goto(r, l) /\ (reply' = reply \/ Answer(r, "attempt_error"))
  BY DEF AwaitResponse
<1>2. \E e \in Errors : e = "attempt_error"
  BY ZenonT(30) DEF Errors
<1> QED BY <1>1, <1>2, QuietStep, ZenonT(30)

\* The steps of the manager that neither receive nor deliver.
LEMMA ManagerQuiet ==
  ASSUME ManagerInv, ManagerEnd, ResultWasExecuted, NEW r \in Request, executed' = executed,
         \/ AddNode(r) \/ PoolTake(r) \/ PoolBlock(r) \/ PoolWake(r) \/ PoolTimeout(r)
         \/ Start(r, "udp") \/ StartError(r) \/ Send(r) \/ SendError(r) \/ AckArrived(r)
         \/ AckTimeout(r) \/ ResponseWake(r) \/ ResponseTimeout(r) \/ Delete(r) \/ Free(r)
  PROVE  Kept /\ ManagerEnd' /\ ResultWasExecuted'
<1>1. CASE AddNode(r)
  BY <1>1, QuietStep, ZenonT(30) DEF AddNode, Ended
<1>2. CASE PoolTake(r)
  BY <1>2, QuietStep, ZenonT(30) DEF PoolTake, Ended
<1>3. CASE PoolBlock(r) \/ PoolWake(r)
  BY <1>3, QuietStep, ZenonT(30) DEF PoolBlock, PoolWake, Ended
<1>4. CASE PoolTimeout(r)
  BY <1>4, QuietStep, ZenonT(30) DEF PoolTimeout, Ended, Errors
<1>5. CASE Start(r, "udp")
  BY <1>5, QuietStep, ZenonT(30) DEF Start, Ended
<1>6. CASE StartError(r)
  BY <1>6, QuietStep DEF StartError, Ended
<1>7. CASE Send(r)
  <2>1. CASE Goto(r, "wait_ack") /\ UNCHANGED <<attempts, reply>>
    BY <1>7, <2>1, QuietStep, ZenonT(30) DEF Send, Ended
  <2>2. CASE AwaitResponse(r, 0)
    BY <1>7, <2>2, AwaitQuiet, ZenonT(30) DEF Send, Ended
  <2> QED BY <1>7, <2>1, <2>2, ZenonT(30) DEF Send
<1>8. CASE SendError(r)
  BY <1>8, QuietStep, ZenonT(30) DEF SendError, Ended, Errors
<1>9. CASE AckArrived(r)
  BY <1>9, AwaitQuiet, ZenonT(30) DEF AckArrived, Ended
<1>10. CASE AckTimeout(r)
  <2>1. CASE Goto(r, "send") /\ UNCHANGED reply
    BY <1>10, <2>1, QuietStep, ZenonT(30) DEF AckTimeout, Ended
  <2>2. CASE Answer(r, "attempt_error") /\ Goto(r, "cleanup")
    BY <1>10, <2>2, QuietStep, ZenonT(30) DEF AckTimeout, Ended, Errors
  <2> QED BY <1>10, <2>1, <2>2, ZenonT(30) DEF AckTimeout
<1>11. CASE ResponseWake(r)
  BY <1>11, AwaitQuiet, ZenonT(30) DEF ResponseWake, Ended
<1>12. CASE ResponseTimeout(r)
  BY <1>12, QuietStep, ZenonT(30) DEF ResponseTimeout, Ended, Errors
<1>13. CASE Delete(r)
  BY <1>13, QuietStep, ZenonT(30) DEF Delete, Ended
<1>14. CASE Free(r)
  BY <1>14, QuietStep, ZenonT(30) DEF Free, Ended
<1> QED BY <1>1, <1>2, <1>3, <1>4, <1>5, <1>6, <1>7, <1>8, <1>9, <1>10, <1>11, <1>12, <1>13, <1>14, ZenonT(30)

\* A request arrives: its counter is new.
LEMMA ReceiveStep ==
  ASSUME ManagerInv, ManagerEnd, ResultWasExecuted, NEW r \in Request, executed' = executed,
         ReceiveFresh(r)
  PROVE  Kept /\ ManagerEnd' /\ ResultWasExecuted'
<1> USE RequestAssumption, ProtocolAssumption
<1>1. PICK c \in Counter : (\A s \in Request : counter[s] # c) /\ Receive(r, c)
  BY ZenonT(30) DEF ReceiveFresh
<1>2. TypeOK /\ c # None /\ pc[r] = "idle" /\ counter[r] = None
  BY <1>1, ZenonT(30) DEF ManagerInv, ManagerEnd, Receive
<1>3. \A s \in Request : /\ counter'[s] = IF s = r THEN c ELSE counter[s]
                         /\ buffer'[s] = IF s = r THEN "request" ELSE buffer[s]
                         /\ pc'[s] = IF s = r THEN "add" ELSE pc[s]
  <2>1. /\ counter \in [Request -> Counter \union {None}]
        /\ counter' = [counter EXCEPT ![r] = c]
    BY <1>1, <1>2, ZenonT(30) DEF Receive, TypeOK
  <2>2. DOMAIN buffer = Request /\ buffer' = [buffer EXCEPT ![r] = "request"]
    BY <1>1, <1>2, ZenonT(30) DEF Receive, TypeOK
  <2>3. DOMAIN pc = Request /\ pc' = [pc EXCEPT ![r] = "add"]
    BY <1>1, <1>2 DEF Receive, Goto, TypeOK
  <2> QED BY <2>1, <2>2, <2>3, ZenonT(30)
<1>4. reply' = reply /\ saving' = saving
  BY <1>1, ZenonT(30) DEF Receive
<1>5. reply[r] \notin {"result", "refusal"}
  BY <1>2, ZenonT(30) DEF ManagerEnd, Ended
<1>6. \A x : Answered(x, counter, reply) => Answered(x, counter', reply')
  BY <1>3, <1>4, <1>5 DEF Answered
<1>7. Kept
  BY <1>6 DEF Kept
<1>8. ResultWasExecuted'
  BY <1>3, <1>4, <1>5, ZenonT(30) DEF ResultWasExecuted
<1>9. /\ \A s \in Request : reply'[s] \in Response => pc'[s] \in Ended
      /\ \A s \in Request : counter'[s] = None <=> pc'[s] = "idle"
      /\ \A s, t \in Request : counter'[s] = counter'[t] /\ counter'[s] # None => s = t
  <2>1. /\ \A s \in Request : reply[s] \in Response => pc[s] \in Ended
        /\ \A s \in Request : counter[s] = None <=> pc[s] = "idle"
        /\ \A s, t \in Request : counter[s] = counter[t] /\ counter[s] # None => s = t
    BY ZenonT(30) DEF ManagerEnd
  <2>2. "idle" \notin Ended
    BY DEF Ended
  <2>3. \A s \in Request : counter[s] # c
    BY <1>1
  <2> QED BY <1>2, <1>3, <1>4, <2>1, <2>2, <2>3, SMTT(30), Z3T(30)
<1>10. ASSUME NEW s \in Request
       PROVE  Backed(counter'[s], buffer'[s], counter', reply', executed')
  <2>1. CASE s = r
    BY <1>3, <2>1, ZenonT(30) DEF Backed
  <2>2. CASE s # r
    <3>1. counter'[s] = counter[s] /\ buffer'[s] = buffer[s]
      BY <1>3, <2>2, ZenonT(30)
    <3>2. Backed(counter[s], buffer[s], counter, reply, executed)
      BY ZenonT(30) DEF ManagerEnd
    <3> QED BY <1>6, <3>1, <3>2, ZenonT(30) DEF Backed
  <2> QED BY <2>1, <2>2, ZenonT(30)
<1>11. ASSUME NEW h \in Handler, saving'[h] # None
       PROVE  Backed(counter'[saving'[h].node], saving'[h].data, counter', reply', executed')
  <2>1. saving[h] \in [node : Request, data : Data] /\ pc[saving[h].node] \in InTable
    BY <1>2, <1>4, <1>11, ZenonT(30) DEF TypeOK, ManagerInv, SavedNodeAlive
  <2>2. saving[h].node # r
    BY <1>2, <2>1, ZenonT(30) DEF InTable, InPool
  <2>3. counter'[saving[h].node] = counter[saving[h].node]
    BY <1>3, <2>1, <2>2, ZenonT(30)
  <2> QED BY <1>4, <1>6, <1>11, <2>3, ZenonT(30) DEF ManagerEnd, Backed
<1> QED BY <1>7, <1>8, <1>9, <1>10, <1>11, ZenonT(30) DEF ManagerEnd

\* The dispatcher delivers: a request without its reply holds no answer to an ACK.
LEMMA DeliverStep ==
  ASSUME ManagerInv, ManagerEnd, ResultWasExecuted, NEW r \in Request, executed' = executed,
         Deliver(r)
  PROVE  /\ Kept /\ ManagerEnd' /\ ResultWasExecuted'
         /\ counter[r] \in Counter /\ Answered(counter[r], counter', reply')
<1> USE RequestAssumption, ProtocolAssumption
<1>1. TypeOK /\ pc[r] = "deliver" /\ buffer[r] \in Response
  BY DEF ManagerInv, DeliversResponse, Deliver
<1>2. counter[r] \in Counter /\ counter[r] # None
  BY <1>1, ZenonT(30) DEF ManagerInv, CounterDrawn, InTable, InPool
<1>3. reply[r] \notin Response
  BY <1>1, ZenonT(30) DEF ManagerEnd, Ended
<1>4. ~Answered(counter[r], counter, reply)
  <2>1. \A s \in Request : counter[s] = counter[r] => s = r
    BY <1>2, ZenonT(30) DEF ManagerEnd
  <2>2. "result" \in Response /\ "refusal" \in Response
    BY ZenonT(30)
  <2> QED BY <1>3, <2>1, <2>2, ZenonT(30) DEF Answered
<1>5. /\ buffer[r] \in {"result", "refusal"}
      /\ buffer[r] = "result" => counter[r] \in executed
  BY <1>1, <1>4, ZenonT(30) DEF ManagerEnd, Backed
<1>6. \A s \in Request : /\ reply'[s] = IF s = r THEN buffer[r] ELSE reply[s]
                         /\ pc'[s] = IF s = r THEN "cleanup" ELSE pc[s]
  BY <1>1 DEF Deliver, Answer, Goto, TypeOK
<1>7. counter' = counter /\ buffer' = buffer /\ saving' = saving
  BY DEF Deliver
<1>8. \A x : Answered(x, counter, reply) => Answered(x, counter', reply')
  BY <1>3, <1>6, <1>7 DEF Answered
<1>9. Kept
  BY <1>8, ZenonT(30) DEF Kept
<1>10. Answered(counter[r], counter', reply')
  BY <1>5, <1>6, <1>7, ZenonT(30) DEF Answered
<1>11. ResultWasExecuted'
  BY <1>5, <1>6, <1>7, ZenonT(30) DEF ResultWasExecuted
<1>12. /\ \A s \in Request : reply'[s] \in Response => pc'[s] \in Ended
       /\ \A s \in Request : counter'[s] = None <=> pc'[s] = "idle"
       /\ \A s, t \in Request : counter'[s] = counter'[t] /\ counter'[s] # None => s = t
  BY <1>1, <1>6, <1>7, ZenonT(30) DEF ManagerEnd, Ended
<1>13. \A s \in Request : Backed(counter'[s], buffer'[s], counter', reply', executed')
  BY <1>7, <1>8, ZenonT(30) DEF ManagerEnd, Backed
<1>14. \A h \in Handler : saving'[h] # None =>
         Backed(counter'[saving'[h].node], saving'[h].data, counter', reply', executed')
  BY <1>7, <1>8, ZenonT(30) DEF ManagerEnd, Backed
<1> QED BY <1>2, <1>9, <1>10, <1>11, <1>12, <1>13, <1>14, ZenonT(30) DEF ManagerEnd

\* A handler stores what the agent has sent.
LEMMA SaveStep ==
  ASSUME ManagerInv, ManagerEnd, ResultWasExecuted, NetInv, NEW h \in Handler,
         executed' = executed,
         (\E m \in toManager : SaveLookup(h, m.counter, m.kind)) \/ SaveUpdate(h)
  PROVE  Kept /\ ManagerEnd' /\ ResultWasExecuted'
<1> USE RequestAssumption, ProtocolAssumption
<1>1. TypeOK
  BY ZenonT(30) DEF ManagerInv
<1>2. counter' = counter /\ reply' = reply /\ pc' = pc
  BY DEF SaveLookup, SaveUpdate
<1>3. Kept /\ ResultWasExecuted'
  BY <1>2, ZenonT(30) DEF Kept, ResultWasExecuted
<1>4. /\ \A s \in Request : reply'[s] \in Response => pc'[s] \in Ended
      /\ \A s \in Request : counter'[s] = None <=> pc'[s] = "idle"
      /\ \A s, t \in Request : counter'[s] = counter'[t] /\ counter'[s] # None => s = t
  BY <1>2, ZenonT(30) DEF ManagerEnd
<1>5. ASSUME NEW m \in toManager, SaveLookup(h, m.counter, m.kind)
      PROVE  ManagerEnd'
  <2>1. m.counter \in Counter /\ Backed(m.counter, m.kind, counter, reply, executed)
    BY ZenonT(30) DEF NetInv
  <2>2. req_table[m.counter] \in Request /\ counter[req_table[m.counter]] = m.counter
    BY <1>1, <1>5, <2>1, ZenonT(30) DEF SaveLookup, ManagerInv, TableInv, TypeOK
  <2>3. \A g \in Handler : saving'[g] = IF g = h THEN [node |-> req_table[m.counter], data |-> m.kind] ELSE saving[g]
    BY <1>1, <1>5, ZenonT(30) DEF SaveLookup, TypeOK
  <2>4. ASSUME NEW g \in Handler, saving'[g] # None
        PROVE  Backed(counter'[saving'[g].node], saving'[g].data, counter', reply', executed')
    <3>1. CASE g = h
      <4>1. saving'[g].node = req_table[m.counter] /\ saving'[g].data = m.kind
        BY <2>3, <3>1, SavedFields, ZenonT(30)
      <4> QED BY <1>2, <2>1, <2>2, <4>1, ZenonT(30)
    <3>2. CASE g # h
      BY <1>2, <2>3, <2>4, <3>2, ZenonT(30) DEF ManagerEnd
    <3> QED BY <3>1, <3>2, ZenonT(30)
  <2>5. buffer' = buffer
    BY <1>5, ZenonT(30) DEF SaveLookup
  <2> QED BY <1>2, <1>4, <2>4, <2>5, ZenonT(30) DEF ManagerEnd
<1>6. CASE SaveUpdate(h)
  <2>1. saving[h] \in [node : Request, data : Data]
    BY <1>1, <1>6, ZenonT(30) DEF SaveUpdate, TypeOK
  <2>2. \A s \in Request : buffer'[s] = IF s = saving[h].node THEN saving[h].data ELSE buffer[s]
    BY <1>1, <1>6, ZenonT(30) DEF SaveUpdate, TypeOK
  <2>3. \A g \in Handler : saving'[g] = IF g = h THEN None ELSE saving[g]
    BY <1>1, <1>6, ZenonT(30) DEF SaveUpdate, TypeOK
  <2>4. saving[h] # None
    BY <1>6, ZenonT(30) DEF SaveUpdate
  <2>5. \A s \in Request : Backed(counter'[s], buffer'[s], counter', reply', executed')
    BY <1>2, <2>2, <2>4, ZenonT(30) DEF ManagerEnd
  <2>6. \A g \in Handler : saving'[g] # None =>
          Backed(counter'[saving'[g].node], saving'[g].data, counter', reply', executed')
    BY <1>2, <2>3, ZenonT(30) DEF ManagerEnd
  <2> QED BY <1>3, <1>4, <2>5, <2>6, ZenonT(30) DEF ManagerEnd
<1> QED BY <1>3, <1>5, <1>6

\* The manager's steps, with what they send.
LEMMA ManagerStep ==
  ASSUME ManagerInv, AgentInv, ProtocolInv,
         \/ \E r \in Request : SendRequest(r) \/ TakeAck(r) \/ DeliverResponse(r) \/ ManagerLocal(r)
         \/ \E h \in Handler : ManagerSaves(h)
  PROVE  ProtocolInv'
<1>1. ManagerEnd /\ ResultWasExecuted /\ NetInv /\ AgentEnd
  BY DEF ProtocolInv
<1>2. ASSUME Kept, ManagerEnd', ResultWasExecuted', UNCHANGED <<avars, net>>
      PROVE  ProtocolInv'
  BY <1>1, <1>2, OthersKept DEF ProtocolInv
<1>3. ASSUME NEW r \in Request, NEW k, ManagerSends(r, k), Kept, ManagerEnd', ResultWasExecuted',
             UNCHANGED avars, counter[r] \in Counter, k \in {"request", "ack"},
             k = "ack" => Answered(counter[r], counter', reply')
      PROVE  ProtocolInv'
  <2>1. AgentEnd'
    BY <1>1, <1>3, OthersKept
  <2>2. toManager' = toManager /\ toAgent' = toAgent \union {Msg(counter[r], k)}
    BY <1>3, ZenonT(30) DEF ManagerSends
  <2>3. /\ Msg(counter[r], k) \in [counter : Counter, kind : {"request", "ack"}]
        /\ Msg(counter[r], k).counter = counter[r] /\ Msg(counter[r], k).kind = k
    BY <1>3, ZenonT(30) DEF Msg
  <2>4. \A m \in toAgent : m.kind = "ack" => Answered(m.counter, counter', reply')
    BY <1>1, <1>3, ZenonT(30) DEF NetInv, Kept
  <2>5. \A m \in toManager : Backed(m.counter, m.kind, counter', reply', executed')
    <3>1. \A m \in toManager : m.counter \in Counter
      BY <1>1, ZenonT(30) DEF NetInv
    <3> QED BY <1>1, <1>3, <3>1, BackedKept, ZenonT(30) DEF NetInv
  <2>6. \A m \in toAgent' : m.kind = "ack" => Answered(m.counter, counter', reply')
    BY <1>3, <2>2, <2>3, <2>4, ZenonT(30)
  <2>7. NetInv'
    BY <1>1, <2>2, <2>3, <2>5, <2>6, ZenonT(30) DEF NetInv
  <2> QED BY <1>3, <2>1, <2>7 DEF ProtocolInv
<1>4. ASSUME NEW r \in Request, SendRequest(r) PROVE ProtocolInv'
  <2>1. Send(r) /\ ManagerSends(r, "request") /\ UNCHANGED avars /\ executed' = executed
    BY <1>4 DEF SendRequest, avars
  <2>2. Kept /\ ManagerEnd' /\ ResultWasExecuted'
    BY <1>1, <2>1, ManagerQuiet, ZenonT(30)
  <2>3. counter[r] \in Counter
    BY <2>1, ZenonT(30) DEF Send, ManagerInv, CounterDrawn, InTable, InPool
  <2> QED BY <1>3, <2>1, <2>2, <2>3, ZenonT(30)
<1>5. ASSUME NEW r \in Request, TakeAck(r) PROVE ProtocolInv'
  <2>1. AckArrived(r) /\ UNCHANGED <<avars, net>> /\ executed' = executed
    BY <1>5 DEF TakeAck, avars
  <2>2. Kept /\ ManagerEnd' /\ ResultWasExecuted'
    BY <1>1, <2>1, ManagerQuiet, ZenonT(30)
  <2> QED BY <1>2, <2>1, <2>2, ZenonT(30)
<1>6. ASSUME NEW r \in Request, DeliverResponse(r) PROVE ProtocolInv'
  <2>1. Deliver(r) /\ UNCHANGED avars /\ executed' = executed /\ (ManagerSends(r, "ack") \/ UNCHANGED net)
    BY <1>6 DEF DeliverResponse, avars
  <2>2. /\ Kept /\ ManagerEnd' /\ ResultWasExecuted'
        /\ counter[r] \in Counter /\ Answered(counter[r], counter', reply')
    BY <1>1, <2>1, DeliverStep
  <2> QED BY <1>2, <1>3, <2>1, <2>2, ZenonT(30)
<1>7. ASSUME NEW r \in Request, ManagerLocal(r) PROVE ProtocolInv'
  <2>1. UNCHANGED <<avars, net>> /\ executed' = executed
    BY <1>7 DEF ManagerLocal, avars
  <2>2. CASE ReceiveFresh(r)
    BY <1>1, <1>2, <2>1, <2>2, ReceiveStep
  <2>3. CASE ~ReceiveFresh(r)
    <3>1. Kept /\ ManagerEnd' /\ ResultWasExecuted'
      BY <1>1, <1>7, <2>1, <2>3, ManagerQuiet DEF ManagerLocal
    <3> QED BY <1>2, <2>1, <3>1, ZenonT(30)
  <2> QED BY <2>2, <2>3, ZenonT(30)
<1>8. ASSUME NEW h \in Handler, ManagerSaves(h) PROVE ProtocolInv'
  <2>1. UNCHANGED <<avars, net>> /\ executed' = executed
    BY <1>8 DEF ManagerSaves, avars
  <2>2. Kept /\ ManagerEnd' /\ ResultWasExecuted'
    BY <1>1, <1>8, <2>1, SaveStep, ZenonT(30) DEF ManagerSaves
  <2> QED BY <1>2, <2>1, <2>2, ZenonT(30)
<1> QED BY <1>4, <1>5, <1>6, <1>7, <1>8

\* A step of the agent leaves the manager backed, and so it leaves what is on its way
\* when it sends only what is.
LEMMA ManagerKept ==
  ASSUME ManagerInv, ProtocolInv, UNCHANGED <<vars, toAgent>>, executed \subseteq executed'
  PROVE  /\ Kept /\ ManagerEnd' /\ ResultWasExecuted'
         /\ \A m \in toManager : Backed(m.counter, m.kind, counter', reply', executed')
         /\ \A m \in toAgent' : m.kind = "ack" => Answered(m.counter, counter', reply')
         /\ toAgent' \subseteq [counter : Counter, kind : {"request", "ack"}]
<1> USE RequestAssumption
<1>1. /\ counter' = counter /\ reply' = reply /\ pc' = pc /\ saving' = saving /\ buffer' = buffer
      /\ toAgent' = toAgent
  BY ZenonT(30) DEF vars
<1>2. Kept
  BY <1>1 DEF Kept
<1>3. \A x, d : Backed(x, d, counter, reply, executed) => Backed(x, d, counter', reply', executed')
  BY <1>1, ZenonT(30) DEF Backed
<1>4. ManagerEnd'
  BY <1>1, <1>3, ZenonT(30) DEF ProtocolInv, ManagerEnd
<1>5. ResultWasExecuted'
  BY <1>1 DEF ProtocolInv, ResultWasExecuted
<1> QED BY <1>1, <1>2, <1>3, <1>4, <1>5, ZenonT(30) DEF ProtocolInv, NetInv

\* The agent's steps, with what they send.
LEMMA AgentStep ==
  ASSUME ManagerInv, AgentInv, ProtocolInv,
         \/ \E c \in Counter : GetRequest(c) \/ GetAck(c)
         \/ SendResponse
         \/ AgentLocal
  PROVE  ProtocolInv'
<1> USE ProtocolAssumption, AgentEndAssumption DEF A!AgentAssumption
<1>1. ManagerEnd /\ ResultWasExecuted /\ NetInv /\ AgentEnd
  BY ZenonT(30) DEF ProtocolInv
<1>2. /\ A!ATypeOK /\ ReceiverInv /\ A!AckedNodeAlive
      /\ node # None => node \in a_table
  BY ZenonT(30) DEF AgentInv, TableMatchesRing, A!TableMatchesRing
<1>3. UNCHANGED <<vars, toAgent>>
  BY DEF GetRequest, GetAck, SendResponse, AgentLocal, AgentSends, net
<1>4. counter' = counter /\ reply' = reply
  BY <1>3, ZenonT(30) DEF vars
<1>5. ASSUME executed \subseteq executed', AgentEnd',
             \/ toManager' = toManager
             \/ \E c \in Counter : \E ks \in SUBSET Data :
                  /\ toManager' = toManager \union {Msg(c, k) : k \in ks}
                  /\ \A k \in ks : Backed(c, k, counter', reply', executed')
      PROVE  ProtocolInv'
  <2>1. /\ ManagerEnd' /\ ResultWasExecuted'
        /\ \A m \in toManager : Backed(m.counter, m.kind, counter', reply', executed')
        /\ \A m \in toAgent' : m.kind = "ack" => Answered(m.counter, counter', reply')
        /\ toAgent' \subseteq [counter : Counter, kind : {"request", "ack"}]
    BY <1>3, <1>5, ManagerKept, ZenonT(30)
  <2>2. /\ toManager' \subseteq [counter : Counter, kind : Data]
        /\ \A m \in toManager' : Backed(m.counter, m.kind, counter', reply', executed')
    <3>1. CASE toManager' = toManager
      BY <1>1, <2>1, <3>1, ZenonT(30) DEF NetInv
    <3>2. ASSUME NEW c \in Counter, NEW ks \in SUBSET Data,
                 toManager' = toManager \union {Msg(c, k) : k \in ks},
                 \A k \in ks : Backed(c, k, counter', reply', executed')
          PROVE  /\ toManager' \subseteq [counter : Counter, kind : Data]
                 /\ \A m \in toManager' : Backed(m.counter, m.kind, counter', reply', executed')
      <4>1. \A k \in ks : /\ Msg(c, k) \in [counter : Counter, kind : Data]
                          /\ Msg(c, k).counter = c /\ Msg(c, k).kind = k
        BY ZenonT(30) DEF Msg
      <4> QED BY <1>1, <2>1, <3>2, <4>1, ZenonT(30) DEF NetInv
    <3> QED BY <1>5, <3>1, <3>2, ZenonT(30)
  <2>3. NetInv'
    BY <2>1, <2>2, ZenonT(30) DEF NetInv, Data
  <2> QED BY <1>5, <2>1, <2>3, ZenonT(30) DEF ProtocolInv
<1>6. \A c : Backed(c, "ack", counter', reply', executed') /\ Backed(c, "refusal", counter', reply', executed')
  BY DEF Backed
<1>7. {"ack"} \in SUBSET Data /\ {"refusal"} \in SUBSET Data /\ {"ack", "refusal"} \in SUBSET Data
  BY ZenonT(30) DEF Data
<1>8. ASSUME NEW c \in Counter, GetRequest(c) PROVE ProtocolInv'
  <2>1. PICK ks \in {{"ack"}, {"refusal"}, {"ack", "refusal"}} :
          AgentSends(c, ks) /\ (A!PushRequest(c) \/ UNCHANGED avars)
    BY <1>8, ZenonT(30) DEF GetRequest, A!PushDuplicate, A!PushFull, A!PushNoTarget, A!avars, avars
  <2>2. executed' = executed
    BY <2>1 DEF A!PushRequest, avars
  <2>3. AgentEnd'
    <3>1. CASE A!PushRequest(c)
      <4>1. \A x \in Counter : data'[x] = IF x = c THEN "request" ELSE data[x]
        BY <1>2, <3>1, ZenonT(30) DEF A!PushRequest, A!ATypeOK
      <4>2. /\ a_table' = a_table \union {c} /\ a_table \subseteq Counter
            /\ push_ack' = push_ack /\ rpc' = rpc /\ node' = node /\ response' = response
        BY <1>2, <3>1, ZenonT(30) DEF A!PushRequest, A!ATypeOK
      <4> QED BY <1>1, <1>4, <2>2, <4>1, <4>2, ZenonT(30) DEF AgentEnd
    <3>2. CASE UNCHANGED avars
      BY <1>1, <1>4, <3>2, ZenonT(30) DEF AgentEnd, avars
    <3> QED BY <2>1, <3>1, <3>2, ZenonT(30)
  <2>4. /\ toManager' = toManager \union {Msg(c, k) : k \in ks} /\ ks \in SUBSET Data
        /\ \A k \in ks : Backed(c, k, counter', reply', executed')
    BY <1>6, <1>7, <2>1, ZenonT(30) DEF AgentSends
  <2> QED BY <1>5, <2>2, <2>3, <2>4, ZenonT(30)
<1>9. ASSUME NEW c \in Counter, GetAck(c) PROVE ProtocolInv'
  <2>1. A!PushAckLookup(c) /\ toManager' = toManager /\ Msg(c, "ack") \in toAgent
    BY <1>9, ZenonT(30) DEF GetAck, net
  <2>2. Answered(c, counter, reply)
    BY <1>1, <2>1 DEF NetInv, Msg
  <2>3. /\ data' = data /\ a_table' = a_table /\ push_ack' = c /\ rpc' = rpc /\ node' = node
        /\ response' = response /\ executed' = executed
    BY <2>1, ZenonT(30) DEF A!PushAckLookup
  <2>4. AgentEnd'
    BY <1>1, <1>4, <2>2, <2>3, ZenonT(30) DEF AgentEnd
  <2> QED BY <1>5, <2>1, <2>3, <2>4, ZenonT(30)
<1>10. CASE SendResponse
  <2>1. A!SendUDP /\ toManager' = toManager \union {Msg(node, k) : k \in {response}}
    BY <1>10 DEF SendResponse, AgentSends
  <2>2. /\ data' = data /\ a_table' = a_table /\ push_ack' = push_ack /\ node' = node
        /\ response' = response /\ executed' = executed /\ rpc = "send" /\ rpc' = "wait"
    BY <2>1, ZenonT(30) DEF A!SendUDP
  <2>3. node \in Counter /\ node # None
    BY <1>2, <2>2, ZenonT(30) DEF ReceiverInv, A!ATypeOK
  <2>4. {response} \in SUBSET Data /\ \A k \in {response} : Backed(node, k, counter', reply', executed')
    BY <1>1, <1>2, <1>4, <2>2, <2>3, ZenonT(30) DEF AgentEnd, Data, A!ATypeOK
  <2>5. AgentEnd'
    BY <1>1, <1>4, <2>2 DEF AgentEnd
  <2> QED BY <1>5, <2>1, <2>2, <2>3, <2>4, <2>5, ZenonT(30)
<1>11. CASE AgentLocal
  <2>1. toManager' = toManager
    BY <1>11, ZenonT(30) DEF AgentLocal, net
  <2>2. CASE A!PushAckUpdate
    <3>1. /\ a_table' = a_table /\ push_ack' = None /\ rpc' = rpc /\ node' = node
          /\ response' = response /\ executed' = executed /\ push_ack # None
      BY <2>2, ZenonT(30) DEF A!PushAckUpdate
    <3>2. \A x \in Counter : data'[x] = IF x = push_ack THEN "ack" ELSE data[x]
      BY <1>2, <2>2, ZenonT(30) DEF A!PushAckUpdate, A!ATypeOK
    <3>3. a_table \subseteq Counter
      BY <1>2, ZenonT(30) DEF A!ATypeOK
    <3>4. AgentEnd'
      BY <1>1, <1>4, <3>1, <3>2, <3>3, ZenonT(30) DEF AgentEnd
    <3> QED BY <1>5, <2>1, <3>1, <3>4, ZenonT(30)
  <2>3. CASE A!Pop
    <3>1. /\ data' = data /\ a_table' = a_table /\ push_ack' = push_ack /\ rpc' = "dispatch"
          /\ response' = response /\ executed' = executed
      BY <2>3, ZenonT(30) DEF A!Pop
    <3>2. response = "none"
      BY <1>1, <2>3, ZenonT(30) DEF A!Pop, AgentEnd
    <3>3. AgentEnd'
      BY <1>1, <1>4, <3>1, <3>2, ZenonT(30) DEF AgentEnd, Backed
    <3> QED BY <1>5, <2>1, <3>1, <3>3, ZenonT(30)
  <2>4. CASE A!Dispatch
    <3>1. /\ data' = data /\ a_table' = a_table /\ push_ack' = push_ack /\ node' = node
          /\ response' = IF data[node] = "request" THEN "result" ELSE "garbage"
          /\ executed' = IF data[node] = "request" THEN executed \union {node} ELSE executed
      BY <2>4, ZenonT(30) DEF A!Dispatch
    <3>2. node \in Counter /\ node \in a_table /\ node # None
      BY <1>2, <2>4, ZenonT(30) DEF A!Dispatch, ReceiverInv, A!ATypeOK
    <3>3. data[node] # "request" => Answered(node, counter, reply)
      BY <1>1, <1>2, <3>2, ZenonT(30) DEF AgentEnd, A!ATypeOK
    <3>4. Backed(node', response', counter', reply', executed') /\ response' # "none" /\ rpc' = "send"
      BY <1>4, <2>4, <3>1, <3>3, ZenonT(30) DEF Backed, A!Dispatch
    <3>5. AgentEnd'
      BY <1>1, <1>4, <3>1, <3>4, ZenonT(30) DEF AgentEnd
    <3>6. executed \subseteq executed'
      BY <3>1
    <3> QED BY <1>5, <2>1, <3>5, <3>6, ZenonT(30)
  <2>5. CASE A!SendFails \/ A!Acknowledged \/ A!NotAcknowledged
    <3>1. /\ data' = data /\ a_table' = a_table /\ push_ack' = push_ack /\ node' = node
          /\ response' = response /\ executed' = executed
      BY <2>5, ZenonT(30) DEF A!SendFails, A!Acknowledged, A!NotAcknowledged
    <3>2. response # "none" /\ rpc' \notin {"idle", "dispatch"}
      BY <1>1, <2>5, ZenonT(30) DEF A!SendFails, A!Acknowledged, A!NotAcknowledged, AgentEnd
    <3>3. AgentEnd'
      BY <1>1, <1>4, <3>1, <3>2, ZenonT(30) DEF AgentEnd
    <3> QED BY <1>5, <2>1, <3>1, <3>3, ZenonT(30)
  <2>6. CASE A!Delete
    <3>1. /\ a_table' = a_table \ {node} /\ push_ack' = push_ack /\ node' = None
          /\ response' = "none" /\ executed' = executed /\ rpc' = "idle"
      BY <2>6, ZenonT(30) DEF A!Delete
    <3>2. \A x \in Counter : data'[x] = IF x = node THEN "none" ELSE data[x]
      BY <1>2, <2>6, ZenonT(30) DEF A!Delete, A!ATypeOK
    <3>3. a_table \subseteq Counter
      BY <1>2 DEF A!ATypeOK
    <3>4. AgentEnd'
      BY <1>1, <1>4, <3>1, <3>2, <3>3, ZenonT(30) DEF AgentEnd
    <3> QED BY <1>5, <2>1, <3>1, <3>4, ZenonT(30)
  <2> QED BY <1>11, <2>2, <2>3, <2>4, <2>5, <2>6, ZenonT(30) DEF AgentLocal
<1> QED BY <1>8, <1>9, <1>10, <1>11

\* Every step of the protocol keeps the three invariants.
LEMMA ProtocolNextInv ==
  ASSUME ManagerInv, AgentInv, ProtocolInv, [ProtocolNext]_pvars
  PROVE  ManagerInv' /\ AgentInv' /\ ProtocolInv'
<1>1. ManagerInv'
  BY ManagerProjects, ManagerNext DEF ProtocolInv
<1>2. AgentInv'
  BY AgentProjects, AgentNext
<1>3. CASE UNCHANGED pvars
  <2>1. UNCHANGED <<vars, toAgent>> /\ toManager' = toManager /\ UNCHANGED avars /\ executed' = executed
    BY <1>3 DEF pvars, net, avars
  <2>2. Kept /\ ManagerEnd' /\ ResultWasExecuted'
    BY <2>1, ManagerKept
  <2>3. UNCHANGED net
    BY <2>1 DEF net
  <2>4. AgentEnd' /\ NetInv'
    BY <2>1, <2>2, <2>3, OthersKept, ZenonT(30) DEF ProtocolInv
  <2> QED BY <1>1, <1>2, <2>2, <2>4, ZenonT(30) DEF ProtocolInv
<1>4. CASE ProtocolNext
  BY <1>1, <1>2, <1>4, ManagerStep, AgentStep DEF ProtocolNext
<1> QED BY <1>3, <1>4

\* The three invariants hold throughout the protocol.
LEMMA ProtocolInductive == ProtocolSpec => [](ManagerInv /\ AgentInv /\ ProtocolInv)
<1>1. ProtocolInit => ManagerInv /\ AgentInv /\ ProtocolInv
  BY ManagerInit, AgentInit, ProtocolInitInv DEF ProtocolInit
<1>2. ManagerInv /\ AgentInv /\ ProtocolInv /\ [ProtocolNext]_pvars => (ManagerInv /\ AgentInv /\ ProtocolInv)'
  BY ProtocolNextInv
<1> QED BY <1>1, <1>2, PTL DEF ProtocolSpec

\* The protocol uses the two ends as they are: every behaviour of it is a behaviour of
\* request.c of the manager and of request.c of the agent, so that what is proved of
\* the one and of the other holds in it.
THEOREM EndsImplemented == ProtocolSpec => Spec /\ A!ASpec
<1>1. ProtocolInit => Init /\ A!AInit
  BY DEF ProtocolInit
<1>2. ProtocolInv /\ [ProtocolNext]_pvars => [Next]_vars /\ [A!ANext]_(A!avars)
  <2> SUFFICES ASSUME ProtocolInv, [ProtocolNext]_pvars PROVE [Next]_vars /\ [A!ANext]_(A!avars)
    OBVIOUS
  <2>1. [Next]_vars
    BY ManagerProjects DEF ProtocolInv
  <2>2. [A!ANext]_avars
    BY AgentProjects
  <2> QED BY <2>1, <2>2 DEF avars, A!avars
<1> QED BY <1>1, <1>2, ProtocolInductive, PTL DEF ProtocolSpec, Spec, A!ASpec

\* What req_dispatch hands to the local peer as the result is the result of an execution
\* by req_receiver, and never the answer to an ACK that was taken for a request,
\* whatever the network loses, repeats and reorders.
THEOREM ResultsExecuted == ProtocolSpec => []ResultWasExecuted
<1>1. ProtocolInv => ResultWasExecuted
  BY DEF ProtocolInv
<1> QED BY <1>1, ProtocolInductive, PTL

\* An ACK of the manager never overwrites the text of a request that the local peer
\* still waits for.
THEOREM PendingKept == ProtocolSpec => []PendingRequestKept
<1>1. ManagerInv /\ ProtocolInv => PendingRequestKept
  <2> SUFFICES ASSUME ManagerInv, ProtocolInv, NEW r \in Request, counter[r] # None,
                      data[counter[r]] = "ack"
               PROVE  reply[r] \in {"result", "refusal"}
    BY ZenonT(30) DEF PendingRequestKept
  <2>1. counter[r] \in Counter
    BY ZenonT(30) DEF ManagerInv, TypeOK
  <2>2. Answered(counter[r], counter, reply)
    BY <2>1, ZenonT(30) DEF ProtocolInv, AgentEnd
  <2> QED BY <2>2, ZenonT(30) DEF Answered, ProtocolInv, ManagerEnd
<1> QED BY <1>1, ProtocolInductive, PTL
=============================================================================
