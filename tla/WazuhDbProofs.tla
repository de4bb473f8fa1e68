--------------------------- MODULE WazuhDbProofs ---------------------------
(***************************************************************************)
(* The safety of the pool of databases, for any number of workers and of   *)
(* agents, any limit, and any number of queries, changes and faults.       *)
(*                                                                         *)
(* A step of the model does one of six things to the references and the    *)
(* mutexes of the pool: nothing (Quiet), wdb_pool_get (Ref), Lock, the two *)
(* halves of wdb_pool_leave (Leave, Unref), or wdb_pool_clean.  There is a *)
(* lemma for each, and a lemma for each operator on the record of a node.  *)
(***************************************************************************)
EXTENDS WazuhDb, FiniteSetTheorems, TLAPS

InUse == {"lock", "in", "unref"}
Pc == {"idle", "want", "lock", "in", "unref", "unlink"}
ThreadRecord == [pc : Pc, op : Op, db : Agent \union {None}, then : {"idle", "want", "unlink"}]

NodeType == DOMAIN node \subseteq Agent /\ \A d \in DOMAIN node : node[d] \in Node
ThreadType == th \in [Thread -> ThreadRecord]
RestType ==
  /\ open_db_limit \in Limits
  /\ file \subseteq Agent /\ agents \subseteq Agent /\ keys \subseteq Agent /\ dropped \subseteq Agent
  /\ closed \in Nat /\ running \in {"up", "stop", "down"}
  /\ queries \in 0 .. MaxQueries /\ changes \in 0 .. MaxChanges /\ faults \in 0 .. MaxFaults

\* The type invariant in three parts: nodes, threads, and the rest.
LEMMA TypeSplit == TypeOK <=> NodeType /\ ThreadType /\ RestType
BY DEF TypeOK, NodeType, ThreadType, RestType, ThreadRecord, Pc

\* A worker with a query to a database has the name of one.
WorkersNamed == \A w \in Worker : th[w].pc # "idle" => th[w].db \in Agent

\* What holds of the transactions of a node: the flag knows of the one that SQLite has
\* open, and there are uncommitted writes in none but that one.
Known(n) == (n.sql => n.transaction /\ n.db # "closed") /\ (n.dirty => n.sql)

\* A database that is open under its name has a file.
NodesKnown ==
  \A d \in DOMAIN node : Known(node[d]) /\ (node[d].db = "open" => d \in file)

\* The inductive invariant.
IInv == TypeOK /\ UsersCounted /\ WorkersNamed /\ NodesKnown /\ ClosedCommitted

(***************************************************************************)
(* The record of a node                                                    *)
(***************************************************************************)

\* m has the references, the mutex and the database of n, and is as well known.
Alike(m, n) ==
  m \in Node /\ m.refcount = n.refcount /\ m.mutex = n.mutex /\ (Known(n) => Known(m))

\* wdb_commit2 keeps references and mutex, and leaves nothing uncommitted if it succeeds.
LEMMA CommitAlike ==
  ASSUME NEW n \in Node, NEW ok \in BOOLEAN
  PROVE  /\ Alike(wdb_commit2(n, ok), n)
         /\ wdb_commit2(n, ok).db = n.db
         /\ Known(n) /\ ok => ~wdb_commit2(n, ok).dirty
<1>1. CASE n.transaction /\ n.sql /\ ok
  BY <1>1, ZenonT(30) DEF wdb_commit2, Alike, Known, Node
<1>2. CASE ~(n.transaction /\ n.sql /\ ok)
  BY <1>2 DEF wdb_commit2, Alike, Known, Node
<1> QED BY <1>1, <1>2

\* wdb_close keeps references and mutex.
LEMMA CloseAlike ==
  ASSUME NEW n \in Node, NEW commit \in BOOLEAN, NEW ok \in BOOLEAN
  PROVE  Alike(wdb_close(n, commit, ok), n) /\ wdb_close(n, commit, ok).db = "closed"
<1> DEFINE m == IF commit THEN wdb_commit2(n, ok) ELSE n
<1>1. m \in Node /\ m.refcount = n.refcount /\ m.mutex = n.mutex
  BY CommitAlike DEF Alike
<1> HIDE DEF m
<1>2. Alike([m EXCEPT !.db = "closed", !.sql = FALSE, !.dirty = FALSE], n)
  BY <1>1, ZenonT(30) DEF Alike, Known, Node
<1>3. [m EXCEPT !.db = "closed", !.sql = FALSE, !.dirty = FALSE].db = "closed"
  BY <1>1 DEF Node
<1> QED BY <1>2, <1>3 DEF wdb_close, m

\* A query that writes keeps references and mutex, and its transaction is known.
LEMMA WrittenAlike ==
  ASSUME NEW n \in Node, n.db # "closed"
  PROVE  Alike(Written(n), n) /\ Written(n).db = n.db
<1>1. CASE n.transaction
  BY <1>1 DEF Written, wdb_begin2, Alike, Known, Node
<1>2. CASE ~n.transaction
  BY <1>2, ZenonT(30) DEF Written, wdb_begin2, Alike, Known, Node
<1> QED BY <1>1, <1>2

\* Nothing is dropped by a close that commits, or of a database without a file.
LEMMA NothingDropped ==
  ASSUME NEW n \in Node, NEW commit \in BOOLEAN, NEW ok \in BOOLEAN, Known(n),
         commit \/ n.db # "open"
  PROVE  ~Drops(n, commit, ok)
BY CommitAlike DEF Drops, Alike

(***************************************************************************)
(* The references and mutexes of the pool                                  *)
(***************************************************************************)
Uses(t, d) == th[t].db = d /\ th[t].pc \in InUse
Holds(t, d) == th[t].db = d /\ th[t].pc = "in"

\* The users of a node are finitely many threads.
LEMMA UsersFinite ==
  \A d : /\ IsFiniteSet(Users(d)) /\ Cardinality(Users(d)) \in Nat
         /\ Cardinality(Users(d)) = 0 <=> Users(d) = {}
<1>1. IsFiniteSet(Thread)
  BY DbAssumption, FS_Singleton, FS_Union, ZenonT(30) DEF Thread
<1>2. \A d : Users(d) \subseteq Thread
  BY DEF Users
<1>3. \A d : IsFiniteSet(Users(d))
  BY <1>1, <1>2, FS_Subset
<1> QED BY <1>3, FS_CardinalityType, FS_EmptySet

\* The same after a step.
LEMMA UsersPrimedFinite ==
  \A d : IsFiniteSet(Users(d)') /\ Cardinality(Users(d)') \in Nat
<1>1. IsFiniteSet(Thread)
  BY DbAssumption, FS_Singleton, FS_Union, ZenonT(30) DEF Thread
<1>2. \A d : Users(d)' \subseteq Thread
  BY DEF Users
<1>3. \A d : IsFiniteSet(Users(d)')
  BY <1>1, <1>2, FS_Subset
<1> QED BY <1>3, FS_CardinalityType

\* A step that changes neither the references nor the mutexes, nor which nodes a thread
\* uses and holds.
LEMMA QuietCounts ==
  ASSUME UsersCounted,
         DOMAIN node' = DOMAIN node,
         \A d \in DOMAIN node : node'[d].refcount = node[d].refcount /\ node'[d].mutex = node[d].mutex,
         \A t \in Thread : \A d : (Uses(t, d)' <=> Uses(t, d)) /\ (Holds(t, d)' <=> Holds(t, d))
  PROVE  UsersCounted'
<1>1. \A d : Users(d)' = Users(d)
  BY DEF Users, Uses, InUse
<1>2. \A t \in Thread : \A d : Uses(t, d)' => d \in DOMAIN node'
  BY DEF UsersCounted, Uses, InUse
<1>3. \A d \in DOMAIN node' : node'[d].refcount = Cardinality(Users(d)')
  BY <1>1 DEF UsersCounted
<1>4. \A d \in DOMAIN node', t \in Thread : node'[d].mutex = t <=> Holds(t, d)'
  BY DEF UsersCounted, Holds
<1> QED BY <1>2, <1>3, <1>4 DEF UsersCounted, Uses, Holds, InUse

\* wdb_pool_get and wdb_pool_get_or_create.
LEMMA RefCounts ==
  ASSUME NodeType, ThreadType, UsersCounted,
         NEW t \in Thread, NEW d \in Agent, th[t].pc = "want", Ref(t, d)
  PROVE  UsersCounted' /\ NodeType' /\ ThreadType'
<1>1. /\ th' \in [Thread -> ThreadRecord]
      /\ \A s \in Thread : s # t => th'[s] = th[s]
      /\ th'[t].pc = "lock" /\ th'[t].db = d
  BY ZenonT(30) DEF Ref, ThreadType, ThreadRecord, Pc
<1>2. t \notin Users(d) /\ Users(d)' = Users(d) \union {t}
  BY <1>1 DEF Users, ThreadType
<1>3. \A e : e # d => Users(e)' = Users(e)
  BY <1>1 DEF Users, ThreadType
<1>4. Cardinality(Users(d)') = Cardinality(Users(d)) + 1
  BY <1>2, UsersFinite, FS_AddElement, ZenonT(30)
<1>5. CASE d \in DOMAIN node
  <2>1. DOMAIN node' = DOMAIN node /\ \A e \in DOMAIN node : e # d => node'[e] = node[e]
    BY <1>5, ZenonT(30) DEF Ref
  <2>2. node[d] \in Node /\ node'[d] = [node[d] EXCEPT !.refcount = @ + 1]
    BY <1>5 DEF Ref, NodeType
  <2>3. /\ node'[d] \in Node /\ node'[d].refcount = node[d].refcount + 1
        /\ node'[d].mutex = node[d].mutex
    BY <2>2 DEF Node
  <2> QED BY <1>1, <1>3, <1>4, <1>5, <2>1, <2>3 DEF UsersCounted, NodeType, ThreadType
<1>6. CASE d \notin DOMAIN node
  <2>1. DOMAIN node' = DOMAIN node \union {d} /\ \A e \in DOMAIN node : node'[e] = node[e]
    BY <1>6 DEF Ref
  <2>2. node'[d] = [wdb_init EXCEPT !.refcount = @ + 1]
    BY <1>6 DEF Ref
  <2>3. node'[d] \in Node /\ node'[d].refcount = 1 /\ node'[d].mutex = None
    <3>1. wdb_init \in Node /\ wdb_init.refcount = 0 /\ wdb_init.mutex = None
      BY DEF Node, wdb_init
    <3> QED BY <2>2, <3>1 DEF Node
  <2>4. Users(d) = {}
    BY <1>6 DEF UsersCounted, Users
  <2>5. node'[d].refcount = Cardinality(Users(d)')
    BY <1>4, <2>3, <2>4, UsersFinite
  <2>6. \A s \in Thread : node'[d].mutex # s /\ ~(th'[s].db = d /\ th'[s].pc = "in")
    BY <1>1, <1>6, <2>3, DbAssumption DEF UsersCounted
  <2> QED BY <1>1, <1>3, <1>6, <2>1, <2>3, <2>5, <2>6 DEF UsersCounted, NodeType, ThreadType
<1> QED BY <1>5, <1>6

\* The mutex of a node is taken.
LEMMA LockCounts ==
  ASSUME NodeType, ThreadType, UsersCounted, NEW t \in Thread, Lock(t)
  PROVE  UsersCounted' /\ NodeType' /\ ThreadType'
<1> DEFINE d == th[t].db
<1>1. /\ th' \in [Thread -> ThreadRecord]
      /\ \A s \in Thread : s # t => th'[s] = th[s]
      /\ th[t].pc = "lock" /\ th'[t].pc = "in" /\ th'[t].db = d
  BY DEF Lock, Go, ThreadType, ThreadRecord, Pc
<1>2. d \in DOMAIN node /\ node[d] \in Node /\ node[d].mutex = None
  BY <1>1 DEF Lock, N, UsersCounted, NodeType
<1>3. DOMAIN node' = DOMAIN node /\ \A e \in DOMAIN node : e # d => node'[e] = node[e]
  BY DEF Lock, Set
<1>4. node'[d] \in Node /\ node'[d].refcount = node[d].refcount /\ node'[d].mutex = t
  BY <1>2 DEF Lock, Set, N, Node
<1>5. \A e : Users(e)' = Users(e)
  BY <1>1 DEF Users
<1> HIDE DEF d
<1>6. \A e \in DOMAIN node', s \in Thread : node'[e].mutex = s <=> th'[s].db = e /\ th'[s].pc = "in"
  <2>1. ASSUME NEW s \in Thread
        PROVE  node'[d].mutex = s <=> th'[s].db = d /\ th'[s].pc = "in"
    BY <1>1, <1>2, <1>4, DbAssumption DEF UsersCounted
  <2>2. ASSUME NEW s \in Thread, NEW e \in DOMAIN node, e # d
        PROVE  node'[e].mutex = s <=> th'[s].db = e /\ th'[s].pc = "in"
    BY <1>1, <1>3, <2>2 DEF UsersCounted, d
  <2> QED BY <1>3, <2>1, <2>2
<1>7. \A e \in DOMAIN node' : node'[e].refcount = Cardinality(Users(e)')
  BY <1>3, <1>4, <1>5 DEF UsersCounted
<1>8. \A s \in Thread : th'[s].pc \in {"lock", "in", "unref"} => th'[s].db \in DOMAIN node'
  BY <1>1, <1>2, <1>3 DEF UsersCounted
<1>9. NodeType' /\ ThreadType'
  BY <1>1, <1>2, <1>3, <1>4 DEF NodeType, ThreadType
<1> QED BY <1>6, <1>7, <1>8, <1>9 DEF UsersCounted

\* The first half of wdb_pool_leave, after a change n of the node that keeps its
\* references.
LEMMA LeaveCounts ==
  ASSUME NodeType, ThreadType, UsersCounted,
         NEW t \in Thread, NEW n \in Node, NEW then \in {"idle", "want", "unlink"},
         th[t].pc = "in", n.refcount = N(t).refcount, Leave(t, n, then)
  PROVE  /\ UsersCounted' /\ NodeType' /\ ThreadType'
         /\ th[t].db \in DOMAIN node
         /\ node' = [node EXCEPT ![th[t].db] = [n EXCEPT !.mutex = None]]
<1> DEFINE d == th[t].db
<1>1. /\ th' \in [Thread -> ThreadRecord]
      /\ \A s \in Thread : s # t => th'[s] = th[s]
      /\ th'[t].pc = "unref" /\ th'[t].db = d
  BY ZenonT(30) DEF Leave, ThreadType, ThreadRecord, Pc
<1>2. d \in DOMAIN node /\ node[d] \in Node /\ node[d].mutex = t /\ N(t) = node[d]
  BY DEF N, UsersCounted, NodeType
<1>3. DOMAIN node' = DOMAIN node /\ \A e \in DOMAIN node : e # d => node'[e] = node[e]
  BY DEF Leave, Set
<1>4. node'[d] \in Node /\ node'[d].refcount = node[d].refcount /\ node'[d].mutex = None
  BY <1>2 DEF Leave, Set, Node
<1>5. \A e : Users(e)' = Users(e)
  BY <1>1 DEF Users
<1>10. node' = [node EXCEPT ![d] = [n EXCEPT !.mutex = None]]
  BY DEF Leave, Set
<1> HIDE DEF d
<1>6. \A e \in DOMAIN node', s \in Thread : node'[e].mutex = s <=> th'[s].db = e /\ th'[s].pc = "in"
  <2>1. ASSUME NEW s \in Thread
        PROVE  node'[d].mutex # s /\ ~(th'[s].db = d /\ th'[s].pc = "in")
    BY <1>1, <1>2, <1>4, DbAssumption DEF UsersCounted
  <2>2. ASSUME NEW s \in Thread, NEW e \in DOMAIN node, e # d
        PROVE  node'[e].mutex = s <=> th'[s].db = e /\ th'[s].pc = "in"
    BY <1>1, <1>3, <2>2 DEF UsersCounted, d
  <2> QED BY <1>3, <2>1, <2>2
<1>7. \A e \in DOMAIN node' : node'[e].refcount = Cardinality(Users(e)')
  BY <1>3, <1>4, <1>5 DEF UsersCounted
<1>8. \A s \in Thread : th'[s].pc \in {"lock", "in", "unref"} => th'[s].db \in DOMAIN node'
  BY <1>1, <1>2, <1>3 DEF UsersCounted
<1>9. NodeType' /\ ThreadType'
  BY <1>1, <1>2, <1>3, <1>4 DEF NodeType, ThreadType
<1> QED BY <1>2, <1>6, <1>7, <1>8, <1>9, <1>10 DEF UsersCounted, d

\* The second half of wdb_pool_leave: the reference given back was counted.
LEMMA UnrefCounts ==
  ASSUME NodeType, ThreadType, UsersCounted, NEW t \in Thread, Unref(t)
  PROVE  UsersCounted' /\ NodeType' /\ ThreadType'
<1>0. PICK d : d = th[t].db
  OBVIOUS
<1>1. /\ th' \in [Thread -> ThreadRecord]
      /\ \A s \in Thread : s # t => th'[s] = th[s]
      /\ th[t].pc = "unref" /\ th'[t].pc \in {"idle", "want", "unlink"}
  BY DEF Unref, ThreadType, ThreadRecord, Pc, Idle, Op
<1>2. d \in DOMAIN node /\ node[d] \in Node
  BY <1>0, <1>1 DEF UsersCounted, NodeType
<1>3. DOMAIN node' = DOMAIN node /\ \A e \in DOMAIN node : e # d => node'[e] = node[e]
  BY <1>0 DEF Unref, Set
<1>4. t \in Users(d) /\ Users(d)' = Users(d) \ {t}
  BY <1>0, <1>1 DEF Users
<1>5. \A e : e # d => Users(e)' = Users(e)
  BY <1>0, <1>1 DEF Users
<1>6. /\ Cardinality(Users(d)') = Cardinality(Users(d)) - 1
      /\ Cardinality(Users(d)') \in Nat
  BY <1>4, UsersFinite, UsersPrimedFinite, FS_RemoveElement, ZenonT(30)
<1>7. node[d].refcount - 1 \in Nat /\ node[d].refcount - 1 = Cardinality(Users(d)')
  BY <1>2, <1>6 DEF UsersCounted
<1>8. /\ node'[d] \in Node /\ node'[d].refcount = Cardinality(Users(d)')
      /\ node'[d].mutex = node[d].mutex
  BY <1>0, <1>2, <1>7 DEF Unref, Set, N, Node
<1>9. \A e \in DOMAIN node', s \in Thread : node'[e].mutex = s <=> th'[s].db = e /\ th'[s].pc = "in"
  BY <1>0, <1>1, <1>2, <1>3, <1>8 DEF UsersCounted
<1>10. \A e \in DOMAIN node' : node'[e].refcount = Cardinality(Users(e)')
  <2> SUFFICES ASSUME NEW e \in DOMAIN node', e # d
               PROVE  node'[e].refcount = Cardinality(Users(e)')
    BY <1>8
  <2>1. node'[e] = node[e] /\ Users(e)' = Users(e) /\ e \in DOMAIN node
    BY <1>3, <1>5
  <2> QED BY <2>1 DEF UsersCounted
<1>11. \A s \in Thread : th'[s].pc \in {"lock", "in", "unref"} => th'[s].db \in DOMAIN node'
  BY <1>1, <1>3 DEF UsersCounted
<1>12. NodeType' /\ ThreadType'
  BY <1>1, <1>3, <1>8 DEF NodeType, ThreadType
<1> QED BY <1>9, <1>10, <1>11, <1>12 DEF UsersCounted

\* wdb_pool_clean: a node without references is used by no thread.
LEMMA CleanCounts ==
  ASSUME NodeType, ThreadType, UsersCounted, wdb_pool_clean
  PROVE  UsersCounted' /\ NodeType' /\ ThreadType'
<1>1. /\ th' \in [Thread -> ThreadRecord]
      /\ \A s \in Thread : s # gc => th'[s] = th[s]
      /\ th[gc].pc = "want" /\ th'[gc].pc = "idle"
  BY DEF wdb_pool_clean, ThreadType, ThreadRecord, Pc, Idle, Op, Thread
<1>2. /\ DOMAIN node' = {e \in DOMAIN node : node[e].refcount # 0 \/ node[e].db # "closed"}
      /\ \A e \in DOMAIN node' : e \in DOMAIN node /\ node'[e] = node[e]
  BY DEF wdb_pool_clean
<1>3. \A e : Users(e)' = Users(e)
  BY <1>1 DEF Users
<1>4. \A s \in Thread : th'[s].pc \in {"lock", "in", "unref"} => th'[s].db \in DOMAIN node'
  <2> SUFFICES ASSUME NEW s \in Thread, th'[s].pc \in {"lock", "in", "unref"}
               PROVE  th'[s].db \in DOMAIN node'
    OBVIOUS
  <2>1. s # gc /\ th[s] = th'[s] /\ th[s].db \in DOMAIN node
    BY <1>1 DEF UsersCounted
  <2>2. s \in Users(th[s].db)
    BY <2>1 DEF Users
  <2>3. node[th[s].db].refcount # 0
    BY <2>1, <2>2, UsersFinite DEF UsersCounted
  <2> QED BY <1>2, <2>1, <2>3
<1>5. \A e \in DOMAIN node' : node'[e].refcount = Cardinality(Users(e)')
  BY <1>2, <1>3 DEF UsersCounted
<1>6. \A e \in DOMAIN node', s \in Thread : node'[e].mutex = s <=> th'[s].db = e /\ th'[s].pc = "in"
  BY <1>1, <1>2 DEF UsersCounted
<1>7. NodeType' /\ ThreadType'
  BY <1>1, <1>2 DEF NodeType, ThreadType
<1> QED BY <1>4, <1>5, <1>6, <1>7 DEF UsersCounted

(***************************************************************************)
(* The steps.  PoolInv is what they keep of the nodes and the threads.     *)
(***************************************************************************)
PoolInv == NodeType /\ ThreadType /\ UsersCounted /\ WorkersNamed /\ NodesKnown

\* The parts of the inductive invariant.
LEMMA InvSplit == IInv <=> PoolInv /\ RestType /\ ClosedCommitted
BY TypeSplit DEF IInv, PoolInv

\* wdb_pool_leave after a change that keeps references, and opens nothing.
LEMMA LeaveSafe ==
  ASSUME PoolInv, NEW t \in Thread, NEW n, NEW then \in {"idle", "want", "unlink"},
         th[t].pc = "in", Alike(n, N(t)), n.db = "open" => N(t).db = "open",
         Leave(t, n, then), file' = file
  PROVE  PoolInv'
<1>0. PICK d : d = th[t].db
  OBVIOUS
<1>1. n \in Node /\ n.refcount = N(t).refcount /\ (Known(N(t)) => Known(n))
  BY DEF Alike
<1>2. /\ UsersCounted' /\ NodeType' /\ ThreadType'
      /\ d \in DOMAIN node
      /\ node' = [node EXCEPT ![d] = [n EXCEPT !.mutex = None]]
  BY <1>0, <1>1, LeaveCounts DEF PoolInv
<1>3. WorkersNamed'
  BY DEF PoolInv, WorkersNamed, Leave, ThreadType, Thread, ThreadRecord
<1>4. Known(node[d]) /\ (node[d].db = "open" => d \in file) /\ N(t) = node[d]
  BY <1>0, <1>2 DEF PoolInv, NodesKnown, N
<1>5. DOMAIN node' = DOMAIN node /\ \A e \in DOMAIN node : e # d => node'[e] = node[e]
  BY <1>2
<1>6. Known(node'[d]) /\ (node'[d].db = "open" => d \in file')
  <2>1. node'[d] = [n EXCEPT !.mutex = None]
    BY <1>2
  <2> QED BY <1>1, <1>4, <2>1 DEF Known, Node
<1>7. NodesKnown'
  BY <1>5, <1>6 DEF PoolInv, NodesKnown, Known
<1> QED BY <1>2, <1>3, <1>7 DEF PoolInv

\* A thread that has no node goes on elsewhere without one.
LEMMA MoveSafe ==
  ASSUME PoolInv, NEW t \in Thread, NEW r \in ThreadRecord,
         th[t].pc \notin InUse, r.pc \notin InUse,
         t \in Worker /\ r.pc # "idle" => r.db \in Agent,
         th' = [th EXCEPT ![t] = r], node' = node, file' = file
  PROVE  PoolInv'
<1>1. /\ th' \in [Thread -> ThreadRecord]
      /\ \A s \in Thread : s # t => th'[s] = th[s]
      /\ th'[t] = r
  BY DEF PoolInv, ThreadType
<1>2. \A s \in Thread : \A d : (Uses(s, d)' <=> Uses(s, d)) /\ (Holds(s, d)' <=> Holds(s, d))
  BY <1>1 DEF Uses, Holds, InUse
<1>3. UsersCounted'
  BY <1>2, QuietCounts DEF PoolInv
<1>4. WorkersNamed'
  BY <1>1 DEF PoolInv, WorkersNamed, Thread
<1> QED BY <1>1, <1>3, <1>4 DEF PoolInv, NodeType, ThreadType, NodesKnown, Known

\* wdb_pool_get and wdb_pool_get_or_create keep PoolInv.
LEMMA RefSafe ==
  ASSUME PoolInv, NEW t \in Thread, NEW d \in Agent, th[t].pc = "want", Ref(t, d), file' = file
  PROVE  PoolInv'
<1>1. UsersCounted' /\ NodeType' /\ ThreadType'
  BY RefCounts DEF PoolInv
<1>2. WorkersNamed'
  BY DEF PoolInv, WorkersNamed, Ref, ThreadType, Thread, ThreadRecord
<1>3. \A e \in DOMAIN node' : e # d => e \in DOMAIN node /\ node'[e] = node[e]
  BY DEF Ref
<1>4. d \in DOMAIN node' => Known(node'[d]) /\ (node'[d].db = "open" => d \in file')
  <2>1. CASE d \in DOMAIN node
    <3>1. node[d] \in Node /\ node'[d] = [node[d] EXCEPT !.refcount = @ + 1]
      BY <2>1 DEF Ref, PoolInv, NodeType
    <3>2. /\ node'[d].sql = node[d].sql /\ node'[d].transaction = node[d].transaction
          /\ node'[d].dirty = node[d].dirty /\ node'[d].db = node[d].db
      BY <3>1 DEF Node
    <3> QED BY <2>1, <3>2 DEF PoolInv, NodesKnown, Known
  <2>2. CASE d \notin DOMAIN node
    <3>1. node'[d] = [wdb_init EXCEPT !.refcount = @ + 1]
      BY <2>2 DEF Ref
    <3>2. node'[d].sql = FALSE /\ node'[d].dirty = FALSE /\ node'[d].db = "closed"
      BY <3>1 DEF wdb_init
    <3> QED BY <3>2 DEF Known
  <2> QED BY <2>1, <2>2
<1>5. NodesKnown'
  BY <1>3, <1>4 DEF PoolInv, NodesKnown, Known
<1> QED BY <1>1, <1>2, <1>5 DEF PoolInv

\* So does the wait for the mutex of a node.
LEMMA LockSafe ==
  ASSUME PoolInv, NEW t \in Thread, Lock(t)
  PROVE  PoolInv'
<1>0. PICK d : d = th[t].db
  OBVIOUS
<1>1. UsersCounted' /\ NodeType' /\ ThreadType'
  BY LockCounts DEF PoolInv
<1>2. WorkersNamed'
  BY DEF PoolInv, WorkersNamed, Lock, Go, ThreadType, Thread, ThreadRecord
<1>3. d \in DOMAIN node /\ node[d] \in Node
  BY <1>0 DEF Lock, PoolInv, UsersCounted, NodeType
<1>4. /\ DOMAIN node' = DOMAIN node /\ \A e \in DOMAIN node : e # d => node'[e] = node[e]
      /\ node'[d] = [node[d] EXCEPT !.mutex = t] /\ file' = file
  BY <1>0, <1>3 DEF Lock, Set, N
<1>5. Known(node'[d]) /\ (node'[d].db = "open" => d \in file')
  BY <1>3, <1>4 DEF PoolInv, NodesKnown, Known, Node
<1>6. NodesKnown'
  BY <1>4, <1>5, ZenonT(30) DEF PoolInv, NodesKnown, Known
<1> QED BY <1>1, <1>2, <1>6 DEF PoolInv

\* So does the second half of wdb_pool_leave.
LEMMA UnrefSafe ==
  ASSUME PoolInv, NEW t \in Thread, Unref(t)
  PROVE  PoolInv'
<1>0. PICK d : d = th[t].db
  OBVIOUS
<1>1. UsersCounted' /\ NodeType' /\ ThreadType'
  BY UnrefCounts DEF PoolInv
<1>2. WorkersNamed'
  BY DEF PoolInv, WorkersNamed, Unref, ThreadType, Thread, ThreadRecord, Idle
<1>3. d \in DOMAIN node /\ node[d] \in Node
  BY <1>0 DEF Unref, PoolInv, UsersCounted, NodeType
<1>4. /\ DOMAIN node' = DOMAIN node /\ \A e \in DOMAIN node : e # d => node'[e] = node[e]
      /\ node'[d] = [node[d] EXCEPT !.refcount = @ - 1] /\ file' = file
  BY <1>0, <1>3 DEF Unref, Set, N
<1>5. Known(node'[d]) /\ (node'[d].db = "open" => d \in file')
  BY <1>3, <1>4 DEF PoolInv, NodesKnown, Known, Node
<1>6. NodesKnown'
  BY <1>4, <1>5, ZenonT(30) DEF PoolInv, NodesKnown, Known
<1> QED BY <1>1, <1>2, <1>6 DEF PoolInv

\* wdb_pool_clean keeps PoolInv.
LEMMA CleanSafe ==
  ASSUME PoolInv, wdb_pool_clean
  PROVE  PoolInv'
<1>1. UsersCounted' /\ NodeType' /\ ThreadType'
  BY CleanCounts DEF PoolInv
<1>2. WorkersNamed'
  BY DbAssumption DEF PoolInv, WorkersNamed, wdb_pool_clean, ThreadType, Thread
<1>3. \A e \in DOMAIN node' : e \in DOMAIN node /\ node'[e] = node[e]
  BY DEF wdb_pool_clean
<1>4. NodesKnown'
  BY <1>3 DEF PoolInv, NodesKnown, Known, wdb_pool_clean
<1> QED BY <1>1, <1>2, <1>4 DEF PoolInv

\* A change of some nodes that keeps their references, with the threads in place.
LEMMA NodesSafe ==
  ASSUME PoolInv, DOMAIN node' = DOMAIN node, th' = th,
         \A d \in DOMAIN node :
           Alike(node'[d], node[d]) /\ (node'[d].db = "open" => d \in file')
  PROVE  PoolInv'
<1>1. NodeType' /\ ThreadType' /\ WorkersNamed'
  BY DEF PoolInv, NodeType, ThreadType, WorkersNamed, Alike
<1>2. \A s \in Thread : \A d : (Uses(s, d)' <=> Uses(s, d)) /\ (Holds(s, d)' <=> Holds(s, d))
  BY DEF Uses, Holds
<1>3. UsersCounted'
  BY <1>2, QuietCounts DEF PoolInv, Alike
<1>4. NodesKnown'
  <2> SUFFICES ASSUME NEW d \in DOMAIN node
               PROVE  Known(node'[d])
    BY DEF NodesKnown, Known
  <2> QED BY DEF PoolInv, NodesKnown, Alike
<1> QED BY <1>1, <1>3, <1>4 DEF PoolInv

\* A thread with a reference has a node, whose transactions are known.
LEMMA InUseNode ==
  ASSUME PoolInv, NEW t \in Thread, th[t].pc \in InUse
  PROVE  /\ th[t].db \in DOMAIN node /\ th[t].db \in Agent
         /\ N(t) \in Node /\ N(t) = node[th[t].db] /\ Known(N(t))
         /\ N(t).db = "open" => th[t].db \in file
BY DEF PoolInv, UsersCounted, InUse, N, NodeType, NodesKnown

\* A node that is not changed.
LEMMA SameAlike == \A n \in Node : Alike(n, n)
BY DEF Alike

\* The steps of a worker that opens a database or ends a query.
LEMMA QuerySafe ==
  ASSUME IInv, NEW w \in Worker,
         Open(w) \/ OpenFails(w) \/ AgentQuery(w) \/ AgentQueryFails(w) \/ Remove(w)
  PROVE  PoolInv' /\ ClosedCommitted'
<1>0. PoolInv /\ ClosedCommitted /\ w \in Thread
  BY InvSplit DEF Thread
<1>1. th[w].pc = "in" /\ th[w].pc \in InUse
  BY ZenonT(30) DEF Open, OpenFails, AgentQuery, AgentQueryFails, Remove, InUse
<1>2. N(w) \in Node /\ Known(N(w)) /\ (N(w).db = "open" => th[w].db \in file)
  BY <1>0, <1>1, InUseNode
<1>3. CASE Open(w)
  <2>0. PICK d : d = th[w].db
    OBVIOUS
  <2>1. d \in DOMAIN node /\ node[d] = N(w)
    BY <1>0, <1>1, <2>0, InUseNode
  <2>2. /\ DOMAIN node' = DOMAIN node /\ \A e \in DOMAIN node : e # d => node'[e] = node[e]
        /\ node'[d] = [node[d] EXCEPT !.db = "open"]
        /\ th' = th /\ file' = file \union {d} /\ dropped' = dropped
    BY <1>3, <2>0, <2>1 DEF Open, Set
  <2>3. Alike(node'[d], node[d]) /\ d \in file'
    BY <1>2, <1>3, <2>1, <2>2 DEF Open, Alike, Known, Node
  <2>4. \A e \in DOMAIN node : e # d =>
          Alike(node'[e], node[e]) /\ (node'[e].db = "open" => e \in file')
    BY <1>0, <2>2, SameAlike DEF PoolInv, NodeType, NodesKnown
  <2>5. \A e \in DOMAIN node : Alike(node'[e], node[e]) /\ (node'[e].db = "open" => e \in file')
    BY <2>3, <2>4
  <2> QED BY <1>0, <2>2, <2>5, NodesSafe DEF ClosedCommitted
<1>4. CASE OpenFails(w)
  BY <1>0, <1>1, <1>2, <1>4, SameAlike, LeaveSafe DEF OpenFails, ClosedCommitted
<1>5. CASE AgentQuery(w)
  <2>1. N(w).db # "closed" /\ Leave(w, Written(N(w)), "idle") /\ file' = file /\ dropped' = dropped
    BY <1>5 DEF AgentQuery
  <2>2. Alike(Written(N(w)), N(w)) /\ Written(N(w)).db = N(w).db
    BY <1>2, <2>1, WrittenAlike
  <2> QED BY <1>0, <1>1, <2>1, <2>2, LeaveSafe DEF ClosedCommitted
<1>6. CASE AgentQueryFails(w)
  <2>1. CASE th[w].db \in file
    BY <1>0, <1>1, <1>2, <1>6, <2>1, SameAlike, LeaveSafe DEF AgentQueryFails, ClosedCommitted
  <2>2. CASE th[w].db \notin file
    <3>1. ~Drops(N(w), FALSE, TRUE)
      BY <1>2, <2>2, NothingDropped, ZenonT(30)
    <3>2. Leave(w, wdb_close(N(w), FALSE, TRUE), "idle") /\ file' = file /\ dropped' = dropped
      BY <1>6, <2>2, <3>1, ZenonT(30) DEF AgentQueryFails
    <3>3. /\ Alike(wdb_close(N(w), FALSE, TRUE), N(w))
          /\ wdb_close(N(w), FALSE, TRUE).db = "closed"
      BY <1>2, CloseAlike, ZenonT(30)
    <3> QED BY <1>0, <1>1, <3>2, <3>3, LeaveSafe, ZenonT(30) DEF ClosedCommitted
  <2> QED BY <2>1, <2>2, ZenonT(30)
<1>7. CASE Remove(w)
  <2>1. Leave(w, wdb_close(N(w), FALSE, TRUE), "unlink") /\ file' = file /\ dropped' = dropped
    BY <1>7, ZenonT(30) DEF Remove
  <2>2. /\ Alike(wdb_close(N(w), FALSE, TRUE), N(w))
        /\ wdb_close(N(w), FALSE, TRUE).db = "closed"
    BY <1>2, CloseAlike, ZenonT(30)
  <2> QED BY <1>0, <1>1, <2>1, <2>2, LeaveSafe, ZenonT(30) DEF ClosedCommitted
<1> QED BY <1>3, <1>4, <1>5, <1>6, <1>7

\* The steps of a worker that starts a query or unlinks a file.
LEMMA StartSafe ==
  ASSUME PoolInv, NEW w \in Worker, NEW op \in Op, NEW a \in Agent, Query(w, op, a) \/ Enter(w)
  PROVE  PoolInv'
<1>0. w \in Thread /\ th[w] \in ThreadRecord
  BY DEF Thread, PoolInv, ThreadType
<1>1. CASE Query(w, op, a)
  <2> DEFINE r == [th[w] EXCEPT !.pc = "want", !.op = op, !.db = a]
  <2>1. th[w].pc \notin InUse /\ node' = node /\ file' = file
    BY <1>1 DEF Query, InUse
  <2>2. th' = [th EXCEPT ![w] = r]
    BY <1>0, <1>1, ZenonT(30) DEF Query, PoolInv, ThreadType
  <2>3. r \in ThreadRecord /\ r.pc = "want" /\ r.db = a
    BY <1>0, ZenonT(30) DEF ThreadRecord, Pc
  <2> HIDE DEF r
  <2> QED BY <1>0, <2>1, <2>2, <2>3, MoveSafe, ZenonT(30) DEF InUse
<1>2. CASE Enter(w)
  <2>1. th[w].pc = "want" /\ th[w].db \in Agent /\ file' = file
    BY <1>2 DEF Enter, PoolInv, WorkersNamed
  <2>2. CASE th[w].op = "remove" /\ th[w].db \notin DOMAIN node
    <3> DEFINE r == [th[w] EXCEPT !.pc = "unlink"]
    <3>1. node' = node /\ th' = [th EXCEPT ![w] = r]
      BY <1>0, <1>2, <2>2 DEF Enter, Go, PoolInv, ThreadType
    <3>2. r \in ThreadRecord /\ r.pc = "unlink" /\ r.db \in Agent
      BY <1>0, <2>1, ZenonT(30) DEF ThreadRecord, Pc
    <3> HIDE DEF r
    <3> QED BY <1>0, <2>1, <3>1, <3>2, MoveSafe, ZenonT(30) DEF InUse
  <2>3. CASE ~(th[w].op = "remove" /\ th[w].db \notin DOMAIN node)
    BY <1>0, <1>2, <2>1, <2>3, RefSafe DEF Enter
  <2> QED BY <2>2, <2>3, ZenonT(30)
<1> QED BY <1>1, <1>2

\* wdb_remove_database: the database that is open on the file loses its name with it.
LEMMA UnlinkSafe ==
  ASSUME PoolInv, NEW w \in Worker, wdb_remove_database(w)
  PROVE  PoolInv'
<1>0. PICK a : a = th[w].db
  OBVIOUS
<1>1. /\ DOMAIN node' = DOMAIN node
      /\ \A d \in DOMAIN node : node'[d] = IF d = a /\ node[d].db = "open"
                                            THEN [node[d] EXCEPT !.db = "orphan"] ELSE node[d]
      /\ file' = file \ {a}
  BY <1>0 DEF wdb_remove_database
<1>2. \A d \in DOMAIN node :
        Alike(node'[d], node[d]) /\ (node'[d].db = "open" => d \in file')
  <2> TAKE d \in DOMAIN node
  <2>0. node[d] \in Node /\ (node[d].db = "open" => d \in file)
    BY DEF PoolInv, NodeType, NodesKnown
  <2>1. CASE d = a /\ node[d].db = "open"
    <3>1. node'[d] = [node[d] EXCEPT !.db = "orphan"]
      BY <1>1, <2>1
    <3> QED BY <2>0, <3>1 DEF Alike, Known, Node
  <2>2. CASE ~(d = a /\ node[d].db = "open")
    BY <1>1, <2>0, <2>2, SameAlike
  <2> QED BY <2>1, <2>2
<1>3. /\ th' \in [Thread -> ThreadRecord]
      /\ \A s \in Thread : s # w => th'[s] = th[s]
      /\ th'[w].pc = "idle" /\ th[w].pc = "unlink"
  BY DEF wdb_remove_database, PoolInv, ThreadType, ThreadRecord, Pc, Idle, Op, Thread
<1>4. \A s \in Thread : \A d : (Uses(s, d)' <=> Uses(s, d)) /\ (Holds(s, d)' <=> Holds(s, d))
  BY <1>3 DEF Uses, Holds, InUse
<1>5. UsersCounted'
  BY <1>1, <1>2, <1>4, QuietCounts DEF PoolInv, Alike
<1>6. WorkersNamed'
  BY <1>3 DEF PoolInv, WorkersNamed, Thread
<1>7. NodeType' /\ ThreadType'
  BY <1>1, <1>2, <1>3 DEF PoolInv, NodeType, ThreadType, Alike
<1>8. NodesKnown'
  <2> SUFFICES ASSUME NEW d \in DOMAIN node
               PROVE  Known(node'[d])
    BY <1>1, <1>2 DEF NodesKnown, Known
  <2> QED BY <1>2 DEF PoolInv, NodesKnown, Alike
<1> QED BY <1>5, <1>6, <1>7, <1>8 DEF PoolInv

\* The steps of run_gc, but for those that are lemmas above.
LEMMA GcSafe ==
  ASSUME IInv, NEW ok \in BOOLEAN,
         StartPass \/ Visit \/ NextLoop \/ GcCommit(ok) \/ GcClose(ok)
  PROVE  PoolInv' /\ ClosedCommitted'
<1>0. PoolInv /\ ClosedCommitted /\ gc \in Thread /\ gc \notin Worker /\ keys \subseteq Agent
  BY InvSplit, DbAssumption DEF Thread, RestType
<1>1. ASSUME NEW op \in {"commit", "vacuum", "close"}, StartLoop(op), th[gc].pc \in {"idle", "want"},
             node' = node, file' = file
      PROVE  PoolInv'
  <2> DEFINE r == [Idle EXCEPT !.pc = "want", !.op = op]
  <2>1. r \in ThreadRecord /\ r.pc = "want"
    BY ZenonT(30) DEF Idle, ThreadRecord, Pc, Op
  <2>2. th' = [th EXCEPT ![gc] = r]
    BY <1>1 DEF StartLoop
  <2> HIDE DEF r
  <2> QED BY <1>0, <1>1, <2>1, <2>2, MoveSafe, ZenonT(30) DEF InUse
<1>2. CASE StartPass
  BY <1>0, <1>1, <1>2 DEF StartPass, ClosedCommitted
<1>3. CASE NextLoop
  BY <1>0, <1>1, <1>3 DEF NextLoop, ClosedCommitted
<1>4. CASE Visit
  <2>1. PICK d \in keys : IF d \in DOMAIN node THEN Ref(gc, d) ELSE UNCHANGED <<node, th>>
    <3>1. keys # {} /\ (CHOOSE e \in keys : TRUE) \in keys
      BY <1>4 DEF Visit, More
    <3> QED BY <1>4, <3>1 DEF Visit
  <2>2. th[gc].pc = "want" /\ file' = file /\ dropped' = dropped
    BY <1>4 DEF Visit
  <2>3. CASE d \in DOMAIN node
    BY <1>0, <2>1, <2>2, <2>3, RefSafe, ZenonT(30) DEF ClosedCommitted
  <2>4. CASE d \notin DOMAIN node
    BY <1>0, <2>1, <2>2, <2>4
      DEF PoolInv, NodeType, ThreadType, UsersCounted, Users, WorkersNamed, NodesKnown, Known,
          ClosedCommitted
  <2> QED BY <2>3, <2>4
<1>5. ASSUME th[gc].pc = "in"
      PROVE  N(gc) \in Node /\ Known(N(gc)) /\ Alike(N(gc), N(gc))
  BY <1>0, <1>5, InUseNode, SameAlike, SMTT(30) DEF InUse
<1>6. CASE GcCommit(ok)
  <2>1. th[gc].pc = "in" /\ file' = file /\ dropped' = dropped
    BY <1>6 DEF GcCommit
  <2>2. CASE Leave(gc, wdb_commit2(N(gc), ok), "want")
    <3>1. Alike(wdb_commit2(N(gc), ok), N(gc)) /\ wdb_commit2(N(gc), ok).db = N(gc).db
      BY <1>5, <2>1, CommitAlike
    <3> QED BY <1>0, <2>1, <2>2, <3>1, LeaveSafe DEF ClosedCommitted
  <2>3. CASE Leave(gc, N(gc), "want")
    BY <1>0, <1>5, <2>1, <2>3, LeaveSafe DEF ClosedCommitted
  <2> QED BY <1>6, <2>2, <2>3 DEF GcCommit
<1>7. CASE GcClose(ok)
  <2>1. th[gc].pc = "in" /\ file' = file
    BY <1>7 DEF GcClose
  <2>2. CASE N(gc).db # "closed" /\ N(gc).refcount = 1
    <3>1. ~Drops(N(gc), TRUE, ok)
      BY <1>5, <2>1, NothingDropped, ZenonT(30)
    <3>2. Leave(gc, wdb_close(N(gc), TRUE, ok), "want") /\ dropped' = dropped
      BY <1>7, <2>2, <3>1, ZenonT(30) DEF GcClose
    <3>3. Alike(wdb_close(N(gc), TRUE, ok), N(gc)) /\ wdb_close(N(gc), TRUE, ok).db = "closed"
      BY <1>5, <2>1, CloseAlike, ZenonT(30)
    <3> QED BY <1>0, <2>1, <3>2, <3>3, LeaveSafe, ZenonT(30) DEF ClosedCommitted
  <2>3. CASE ~(N(gc).db # "closed" /\ N(gc).refcount = 1)
    <3>1. Leave(gc, N(gc), "want") /\ dropped' = dropped
      BY <1>7, <2>3, ZenonT(30) DEF GcClose
    <3> QED BY <1>0, <1>5, <2>1, <3>1, LeaveSafe DEF ClosedCommitted
  <2> QED BY <2>2, <2>3
<1> QED BY <1>2, <1>3, <1>4, <1>6, <1>7

\* Time passes for one node, or wdb_close_all closes all of them.
LEMMA RecordSafe ==
  ASSUME IInv, (\E d \in Agent : Age(d)) \/ wdb_close_all
  PROVE  PoolInv' /\ ClosedCommitted'
<1>0. PoolInv /\ ClosedCommitted /\ \A d \in DOMAIN node : node[d] \in Node /\ Known(node[d])
  BY InvSplit DEF PoolInv, NodeType, NodesKnown
<1>1. ASSUME NEW d \in Agent, Age(d)
      PROVE  PoolInv' /\ ClosedCommitted'
  <2>1. /\ d \in DOMAIN node /\ DOMAIN node' = DOMAIN node
        /\ \A e \in DOMAIN node : e # d => node'[e] = node[e]
        /\ node'[d] = [node[d] EXCEPT !.old = TRUE]
        /\ th' = th /\ file' = file /\ dropped' = dropped
    BY <1>1 DEF Age, Set
  <2>2. Alike(node'[d], node[d]) /\ (node'[d].db = "open" => d \in file')
    BY <1>0, <2>1, ZenonT(30) DEF Alike, Known, Node, PoolInv, NodesKnown
  <2>3. \A e \in DOMAIN node : e # d =>
          Alike(node'[e], node[e]) /\ (node'[e].db = "open" => e \in file')
    BY <1>0, <2>1, SameAlike DEF PoolInv, NodesKnown
  <2>4. \A e \in DOMAIN node : Alike(node'[e], node[e]) /\ (node'[e].db = "open" => e \in file')
    BY <2>2, <2>3
  <2> QED BY <1>0, <2>1, <2>4, NodesSafe DEF ClosedCommitted
<1>2. CASE wdb_close_all
  <2>1. /\ DOMAIN node' = DOMAIN node /\ th' = th
        /\ \A d \in DOMAIN node : node'[d] = IF node[d].db = "closed" THEN node[d]
                                              ELSE wdb_close(node[d], TRUE, TRUE)
        /\ dropped' = dropped \union {d \in DOMAIN node : Drops(node[d], TRUE, TRUE)}
    BY <1>2 DEF wdb_close_all
  <2>2. \A d \in DOMAIN node : ~Drops(node[d], TRUE, TRUE)
    BY <1>0, NothingDropped, ZenonT(30)
  <2>3. \A d \in DOMAIN node : Alike(node'[d], node[d]) /\ node'[d].db = "closed"
    BY <1>0, <2>1, SameAlike, CloseAlike, ZenonT(30)
  <2>4. dropped' = {}
    BY <1>0, <2>1, <2>2, ZenonT(30) DEF ClosedCommitted
  <2>5. PoolInv'
    BY <1>0, <2>1, <2>3, NodesSafe
  <2> QED BY <2>4, <2>5 DEF ClosedCommitted
<1> QED BY <1>1, <1>2

\* What is neither node nor thread, but for dropped, which ClosedCommitted bounds.
LEMMA RestKept ==
  ASSUME IInv, Next, dropped' = {}
  PROVE  RestType'
<1>0. RestType /\ NodeType /\ ThreadType /\ WorkersNamed /\ PoolInv
  BY InvSplit DEF PoolInv
<1> USE DbAssumption
<1>1. ASSUME NEW w \in Worker, run_worker(w)
      PROVE  RestType'
  <2>1. CASE Open(w) \/ wdb_remove_database(w)
    <3>1. Open(w) => th[w].db \in Agent
      BY <1>0 DEF Open, WorkersNamed
    <3> QED BY <1>0, <2>1, <3>1 DEF RestType, Open, wdb_remove_database
  <2>2. CASE OpenFails(w)
    BY <1>0, <2>2 DEF RestType, OpenFails, Outcome
  <2>3. CASE Enter(w)
    BY <1>0, <2>3 DEF RestType, Enter
  <2>4. CASE Lock(w) \/ Unref(w)
    BY <1>0, <2>4 DEF RestType, Lock, Unref
  <2>5. CASE AgentQuery(w) \/ Remove(w)
    BY <1>0, <2>5, ZenonT(30) DEF RestType, AgentQuery, Remove
  <2>6. CASE AgentQueryFails(w)
    BY <1>0, <2>6 DEF RestType, AgentQueryFails
  <2> QED BY <1>1, <2>1, <2>2, <2>3, <2>4, <2>5, <2>6 DEF run_worker
<1>2. ASSUME NEW w \in Worker, NEW op \in Op, NEW a \in Agent, Query(w, op, a)
      PROVE  RestType'
  BY <1>0, <1>2 DEF RestType, Query
<1>3. ASSUME NEW a \in Agent, GlobalQuery(a)
      PROVE  RestType'
  BY <1>0, <1>3 DEF RestType, GlobalQuery
<1>4. CASE run_gc
  <2>1. CASE StartPass \/ NextLoop
    BY <1>0, <2>1 DEF RestType, NodeType, StartPass, NextLoop, StartLoop
  <2>2. CASE Lock(gc) \/ Unref(gc)
    BY <1>0, <2>2 DEF RestType, Lock, Unref
  <2>4. CASE Visit
    <3>1. /\ keys' \subseteq keys
          /\ UNCHANGED <<open_db_limit, changes, file, agents, closed, running, queries, faults>>
      BY <2>4 DEF Visit
    <3> QED BY <1>0, <3>1 DEF RestType
  <2>5. CASE wdb_pool_clean
    <3>1. /\ keys' = {} /\ closed' = 0
          /\ UNCHANGED <<open_db_limit, changes, file, agents, running, queries, faults>>
      BY <2>5 DEF wdb_pool_clean
    <3> QED BY <1>0, <3>1 DEF RestType
  <2>3. CASE \E ok \in BOOLEAN : GcCommit(ok) \/ GcClose(ok)
    <3>1. PICK ok \in BOOLEAN : GcCommit(ok) \/ GcClose(ok)
      BY <2>3
    <3>2. /\ UNCHANGED <<open_db_limit, changes, file, agents, keys, running, queries>>
          /\ closed' = closed \/ closed' = closed + 1
          /\ faults' = faults \/ (faults < MaxFaults /\ faults' = faults + 1)
      <4>1. CASE GcCommit(ok)
        BY <4>1 DEF GcCommit, Outcome
      <4>2. CASE GcClose(ok)
        BY <4>2, ZenonT(30) DEF GcClose, Outcome
      <4> QED BY <3>1, <4>1, <4>2
    <3> QED BY <1>0, <3>2 DEF RestType
  <2> QED BY <1>4, <2>1, <2>2, <2>3, <2>4, <2>5 DEF run_gc
<1>5. ASSUME NEW d \in Agent, Age(d)
      PROVE  RestType'
  BY <1>0, <1>5 DEF RestType, Age
<1>6. CASE Signal \/ wdb_close_all
  BY <1>0, <1>6, ZenonT(30) DEF RestType, Signal, wdb_close_all
<1> QED BY <1>1, <1>2, <1>3, <1>4, <1>5, <1>6 DEF Next

\* The pool starts empty.
LEMMA InitInv == Init => IInv
<1> SUFFICES ASSUME Init PROVE IInv
  OBVIOUS
<1>1. NodeType /\ ThreadType /\ RestType
  BY DbAssumption DEF Init, NodeType, ThreadType, RestType, ThreadRecord, Pc, Op, Idle
<1>2. UsersCounted /\ WorkersNamed
  BY DEF Init, UsersCounted, WorkersNamed, Idle, Thread
<1>3. NodesKnown /\ ClosedCommitted
  BY DEF Init, NodesKnown, ClosedCommitted
<1> QED BY <1>1, <1>2, <1>3, TypeSplit DEF IInv

\* Every step keeps the inductive invariant.
LEMMA NextInv == IInv /\ [Next]_vars => IInv'
<1> SUFFICES ASSUME IInv, [Next]_vars PROVE IInv'
  OBVIOUS
<1>0. PoolInv /\ RestType /\ ClosedCommitted
  BY InvSplit
<1>1. ASSUME Next
      PROVE  PoolInv' /\ ClosedCommitted'
  <2>1. ASSUME NEW w \in Worker, run_worker(w)
        PROVE  PoolInv' /\ ClosedCommitted'
    <3>0. w \in Thread
      BY DEF Thread
    <3>1. CASE Open(w) \/ OpenFails(w) \/ AgentQuery(w) \/ AgentQueryFails(w) \/ Remove(w)
      BY <3>1, QuerySafe
    <3>2. CASE Enter(w)
      <4>1. th[w].db \in Agent /\ "write" \in Op
        BY <1>0, <3>2 DEF Enter, PoolInv, WorkersNamed, Op
      <4> QED BY <1>0, <3>2, <4>1, StartSafe, ZenonT(30) DEF Enter, ClosedCommitted
    <3>3. CASE Lock(w)
      BY <1>0, <3>0, <3>3, LockSafe DEF Lock, ClosedCommitted
    <3>4. CASE Unref(w)
      BY <1>0, <3>0, <3>4, UnrefSafe, ZenonT(30) DEF Unref, ClosedCommitted
    <3>5. CASE wdb_remove_database(w)
      BY <1>0, <3>5, UnlinkSafe, ZenonT(30) DEF wdb_remove_database, ClosedCommitted
    <3> QED BY <2>1, <3>1, <3>2, <3>3, <3>4, <3>5 DEF run_worker
  <2>2. ASSUME NEW w \in Worker, NEW op \in Op, NEW a \in Agent, Query(w, op, a)
        PROVE  PoolInv' /\ ClosedCommitted'
    BY <1>0, <2>2, StartSafe, ZenonT(30) DEF Query, ClosedCommitted
  <2>3. ASSUME UNCHANGED <<node, th, file, dropped>>
        PROVE  PoolInv' /\ ClosedCommitted'
    BY <1>0, <2>3 DEF PoolInv, NodeType, ThreadType, UsersCounted, Users, WorkersNamed, NodesKnown,
                      Known, ClosedCommitted
  <2>4. CASE (\E a \in Agent : GlobalQuery(a)) \/ Signal
    BY <2>3, <2>4 DEF GlobalQuery, Signal
  <2>5. CASE run_gc
    <3>0. gc \in Thread /\ TRUE \in BOOLEAN
      BY DEF Thread
    <3>1. CASE StartPass \/ Visit \/ NextLoop
      BY <3>0, <3>1, GcSafe, ZenonT(30)
    <3>2. CASE \E ok \in BOOLEAN : GcCommit(ok) \/ GcClose(ok)
      BY <3>2, GcSafe
    <3>3. CASE Lock(gc)
      BY <1>0, <3>0, <3>3, LockSafe DEF Lock, ClosedCommitted
    <3>4. CASE Unref(gc)
      BY <1>0, <3>0, <3>4, UnrefSafe, ZenonT(30) DEF Unref, ClosedCommitted
    <3>5. CASE wdb_pool_clean
      BY <1>0, <3>5, CleanSafe DEF wdb_pool_clean, ClosedCommitted
    <3> QED BY <2>5, <3>1, <3>2, <3>3, <3>4, <3>5 DEF run_gc
  <2>6. CASE (\E d \in Agent : Age(d)) \/ wdb_close_all
    BY <2>6, RecordSafe
  <2> QED BY <1>1, <2>1, <2>2, <2>4, <2>5, <2>6 DEF Next
<1>2. CASE Next
  <2>1. PoolInv' /\ ClosedCommitted' /\ RestType'
    BY <1>1, <1>2, RestKept DEF ClosedCommitted
  <2>2. TypeOK'
    BY <2>1, ZenonT(30) DEF PoolInv, TypeOK, NodeType, ThreadType, RestType, ThreadRecord, Pc
  <2> QED BY <2>1, <2>2 DEF PoolInv, IInv
<1>3. CASE UNCHANGED vars
  BY <1>3 DEF IInv, vars, TypeOK, UsersCounted, Users, WorkersNamed, NodesKnown, Known,
              ClosedCommitted
<1> QED BY <1>2, <1>3

\* The inductive invariant holds throughout.
LEMMA Inductive == Spec => []IInv
BY InitInv, NextInv, PTL DEF Spec

(***************************************************************************)
(* The theorems                                                            *)
(***************************************************************************)

\* Every variable of the pool keeps its type: no refcount of wdb_pool goes below 0.
THEOREM TypeCorrect == Spec => []TypeOK
<1>1. IInv => TypeOK
  BY DEF IInv
<1> QED BY <1>1, Inductive, PTL

\* wdb_pool_clean destroys no node that a worker or run_gc awaits, holds or is leaving,
\* and a mutex of a node belongs to the thread that is in it, for any number of workers.
THEOREM PoolCounted == Spec => []UsersCounted
<1>1. IInv => UsersCounted
  BY DEF IInv
<1> QED BY <1>1, Inductive, PTL

\* wdb_write_state_transaction: no transaction is open in SQLite that the node does not
\* know of, whatever fails, is closed, unlinked or opened again.
THEOREM NoUnknownTransaction == Spec => []TransactionsKnown
<1>1. IInv => TransactionsKnown
  BY DEF IInv, NodesKnown, Known, TransactionsKnown
<1> QED BY <1>1, Inductive, PTL

\* wdb_close_old, wdb_close_all and wdb_parse close no database with answered writes that
\* are not committed, as long as no COMMIT fails and the file was not removed.
THEOREM NoWriteDropped == Spec => []ClosedCommitted
<1>1. IInv => ClosedCommitted
  BY DEF IInv
<1> QED BY <1>1, Inductive, PTL
=============================================================================
