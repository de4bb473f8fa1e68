------------------------------- MODULE WazuhDb -------------------------------
(***************************************************************************)
(* The pool of databases of wazuh-db: one SQLite database for the global   *)
(* information and one for every agent.  The workers open a database for   *)
(* each query and leave it open in the pool; the garbage collector commits *)
(* old transactions, vacuums, and closes databases over the limit.         *)
(*                                                                         *)
(* A thread counts itself in refcount under the mutex of the pool and then *)
(* waits for the mutex of the node, so that a node is only destroyed when  *)
(* no thread holds or awaits it.  What is done under the mutex of one node *)
(* is one step, but for the opening of the file, which is not protected    *)
(* from an unlink.  The global database is always in the pool and never    *)
(* closed before the end; a query to it is one step.                       *)
(***************************************************************************)
EXTENDS Integers, FiniteSets

CONSTANTS
  Agent,           \* the agents, each with a database of its own
  Worker, gc,      \* the threads
  None,
  Limits,          \* values of wazuh_db.open_db_limit
  MaxQueries,      \* bound on the queries to the databases of the agents
  MaxChanges,      \* bound on the insertions and deletions of agents
  MaxFaults        \* bound on the files that do not open and the failed COMMITs

Thread == Worker \union {gc}

ASSUME DbAssumption ==
  /\ gc \notin Worker /\ None \notin Thread \union Agent
  /\ IsFiniteSet(Worker)
  /\ Limits \subseteq Nat \ {0} /\ MaxQueries \in Nat /\ MaxChanges \in Nat /\ MaxFaults \in Nat

VARIABLES
  open_db_limit,
  node,      \* the nodes of the pool by name
  file,      \* the databases that have a file
  agents,    \* the agents the global database lists
  th,        \* the threads
  keys,      \* the names run_gc's current loop has still to visit
  closed,    \* the databases wdb_close_old has closed in its loop
  running,   \* cleared by a signal; "down" after wdb_close_all
  dropped,   \* history: databases closed with answered writes uncommitted
  queries, changes, faults

vars == <<open_db_limit, node, file, agents, th, keys, closed, running, dropped, queries, changes,
          faults>>

Op == {"write", "fail", "remove", "commit", "vacuum", "close"}

\* db: closed, open, or open on a file that has been unlinked; transaction: the
\* flag of the node; sql: SQLite has a transaction open; dirty: there are
\* answered writes in it; old: it is time to commit.
Node == [refcount : Nat, mutex : Thread \union {None}, db : {"closed", "open", "orphan"},
         transaction : BOOLEAN, sql : BOOLEAN, dirty : BOOLEAN, old : BOOLEAN]

wdb_init == [refcount |-> 0, mutex |-> None, db |-> "closed", transaction |-> FALSE,
             sql |-> FALSE, dirty |-> FALSE, old |-> FALSE]

\* pc: "want" a node, "lock" its mutex, "in" the node, "unref" it; "unlink" the
\* file.  then: where it goes on after "unref".
Idle == [pc |-> "idle", op |-> "write", db |-> None, then |-> "idle"]

Init ==
  /\ node = [d \in {} |-> wdb_init]
  /\ file \in SUBSET Agent
  /\ agents \in SUBSET Agent
  /\ th = [t \in Thread |-> Idle]
  /\ keys = {} /\ closed = 0
  /\ running = "up" /\ dropped = {}
  /\ queries = 0 /\ changes = 0 /\ faults = 0
  /\ open_db_limit \in Limits

(***************************************************************************)
(* Transactions                                                            *)
(***************************************************************************)

\* wdb_write_state_transaction: nothing to do when the flag says so.  COMMIT
\* fails when SQLite has no transaction, and may fail when it has (~ok).
\* Mutant: the flag is cleared whether or not COMMIT succeeded.
wdb_commit2_blind(n, ok) ==
  IF n.transaction
  THEN [n EXCEPT !.transaction = FALSE, !.sql = @ /\ ~ok, !.dirty = @ /\ ~ok, !.old = FALSE]
  ELSE n

wdb_commit2(n, ok) ==
  IF n.transaction /\ n.sql /\ ok
  THEN [n EXCEPT !.transaction = FALSE, !.sql = FALSE, !.dirty = FALSE, !.old = FALSE]
  ELSE n

wdb_begin2(n) ==
  IF n.transaction THEN n
  ELSE [n EXCEPT !.transaction = TRUE, !.sql = TRUE]

\* A query that writes.  Out of a transaction SQLite commits it at once.
Written(n) == LET m == wdb_begin2(n) IN [m EXCEPT !.dirty = m.sql]

\* SQLite rolls back what is not committed.  The flag stays as it is.
wdb_close(n, commit, ok) ==
  LET m == IF commit THEN wdb_commit2(n, ok) ELSE n
  IN [m EXCEPT !.db = "closed", !.sql = FALSE, !.dirty = FALSE]

\* Closing n drops answered writes, though no COMMIT failed and the file exists.
Drops(n, commit, ok) ==
  LET m == IF commit THEN wdb_commit2(n, ok) ELSE n
  IN m.dirty /\ m.db = "open" /\ ok

\* The outcome of a COMMIT, and its cost.
Outcome(ok) == IF ok THEN UNCHANGED faults ELSE faults < MaxFaults /\ faults' = faults + 1

(***************************************************************************)
(* wdb_pool                                                                *)
(***************************************************************************)
N(t) == node[th[t].db]
Set(d, n) == node' = [node EXCEPT ![d] = n]
Go(t, p) == th' = [th EXCEPT ![t].pc = p]

\* wdb_pool_get_or_create and wdb_pool_get, under the mutex of the pool.
\* Mutant: a node that is found is not counted.
Ref_created(t, d) ==
  /\ node' = [e \in DOMAIN node \union {d} |->
                IF e \in DOMAIN node THEN node[e] ELSE [wdb_init EXCEPT !.refcount = 1]]
  /\ th' = [th EXCEPT ![t].pc = "lock", ![t].db = d]

Ref(t, d) ==
  LET n == IF d \in DOMAIN node THEN node[d] ELSE wdb_init
  IN /\ node' = [e \in DOMAIN node \union {d} |->
                   IF e = d THEN [n EXCEPT !.refcount = @ + 1] ELSE node[e]]
     /\ th' = [th EXCEPT ![t].pc = "lock", ![t].db = d]

Lock(t) ==
  /\ th[t].pc = "lock" /\ N(t).mutex = None
  /\ Set(th[t].db, [N(t) EXCEPT !.mutex = t])
  /\ Go(t, "in")
  /\ UNCHANGED <<open_db_limit, changes, file, agents, keys, closed, running, dropped, queries, faults>>

\* wdb_pool_leave: the node is unlocked and then released.  The time of last use,
\* which it notes afterwards, is left out.
Leave(t, n, then) ==
  /\ Set(th[t].db, [n EXCEPT !.mutex = None])
  /\ th' = [th EXCEPT ![t].pc = "unref", ![t].then = then]

Unref(t) ==
  /\ th[t].pc = "unref"
  /\ Set(th[t].db, [N(t) EXCEPT !.refcount = @ - 1])
  /\ th' = [th EXCEPT ![t] = IF th[t].then = "idle" THEN Idle ELSE [@ EXCEPT !.pc = th[t].then]]
  /\ UNCHANGED <<open_db_limit, changes, file, agents, keys, closed, running, dropped, queries, faults>>

(***************************************************************************)
(* The workers: run_worker and wdb_parse                                   *)
(***************************************************************************)

\* insert-agent and delete-agent: the row of a in the global database.
GlobalQuery(a) ==
  /\ running = "up" /\ changes < MaxChanges
  /\ agents' = IF a \in agents THEN agents \ {a} ELSE agents \union {a}
  /\ changes' = changes + 1
  /\ UNCHANGED <<open_db_limit, node, file, th, keys, closed, running, dropped, queries, faults>>

\* A query to the database of agent a, with a result of OS_INVALID if it is a
\* "fail", after a is found in the global database; or wazuhdb remove, which its
\* callers send once a is deleted there.
Query(w, op, a) ==
  /\ th[w].pc = "idle" /\ running = "up" /\ queries < MaxQueries
  /\ op \in {"write", "fail", "remove"}
  /\ (op = "remove") = (a \notin agents)
  /\ th' = [th EXCEPT ![w].pc = "want", ![w].op = op, ![w].db = a]
  /\ queries' = queries + 1
  /\ UNCHANGED <<open_db_limit, changes, node, file, agents, keys, closed, running, dropped, faults>>

Enter(w) ==
  /\ w \in Worker /\ th[w].pc = "want"
  /\ IF th[w].op = "remove" /\ th[w].db \notin DOMAIN node
     THEN Go(w, "unlink") /\ UNCHANGED node
     ELSE Ref(w, th[w].db)
  /\ UNCHANGED <<open_db_limit, changes, file, agents, keys, closed, running, dropped, queries, faults>>

\* wdb_open_agent2 opens the file, or creates it.
Open(w) ==
  /\ th[w].pc = "in" /\ th[w].op # "remove" /\ N(w).db = "closed"
  /\ Set(th[w].db, [N(w) EXCEPT !.db = "open"])
  /\ file' = file \union {th[w].db}
  /\ UNCHANGED <<open_db_limit, changes, agents, th, keys, closed, running, dropped, queries, faults>>

OpenFails(w) ==
  /\ th[w].pc = "in" /\ th[w].op # "remove" /\ N(w).db = "closed"
  /\ Outcome(FALSE)
  /\ Leave(w, N(w), "idle")
  /\ UNCHANGED <<open_db_limit, changes, file, agents, keys, closed, running, dropped, queries>>

AgentQuery(w) ==
  /\ th[w].pc = "in" /\ th[w].op = "write" /\ N(w).db # "closed"
  /\ Leave(w, Written(N(w)), "idle")
  /\ UNCHANGED <<open_db_limit, changes, file, agents, keys, closed, running, dropped, queries, faults>>

\* After a query with result OS_INVALID the database is closed if its file is
\* missing.
\* Mutant: the query is repeated otherwise.
AgentQueryFails_retry(w) ==
  LET d == th[w].db IN
  /\ th[w].pc = "in" /\ th[w].op = "fail" /\ N(w).db # "closed"
  /\ IF d \in file THEN Leave(w, N(w), "want")
     ELSE Leave(w, wdb_close(N(w), FALSE, TRUE), "idle")
  /\ UNCHANGED <<open_db_limit, changes, file, agents, keys, closed, running, dropped, queries, faults>>

AgentQueryFails(w) ==
  LET d == th[w].db IN
  /\ th[w].pc = "in" /\ th[w].op = "fail" /\ N(w).db # "closed"
  /\ IF d \in file
     THEN Leave(w, N(w), "idle") /\ UNCHANGED dropped
     ELSE /\ Leave(w, wdb_close(N(w), FALSE, TRUE), "idle")
          /\ dropped' = IF Drops(N(w), FALSE, TRUE) THEN dropped \union {d} ELSE dropped
  /\ UNCHANGED <<open_db_limit, changes, file, agents, keys, closed, running, queries, faults>>

\* wdb_remove_multiple_agents closes the database if it is in the pool and
\* leaves it before it unlinks the file.
Remove(w) ==
  /\ th[w].pc = "in" /\ th[w].op = "remove"
  /\ Leave(w, wdb_close(N(w), FALSE, TRUE), "unlink")
  /\ UNCHANGED <<open_db_limit, changes, file, agents, keys, closed, running, dropped, queries, faults>>

wdb_remove_database(w) ==
  LET a == th[w].db IN
  /\ th[w].pc = "unlink"
  /\ file' = file \ {a}
  /\ node' = [d \in DOMAIN node |-> IF d = a /\ node[d].db = "open"
                                    THEN [node[d] EXCEPT !.db = "orphan"] ELSE node[d]]
  /\ th' = [th EXCEPT ![w] = Idle]
  /\ UNCHANGED <<open_db_limit, changes, agents, keys, closed, running, dropped, queries, faults>>

(***************************************************************************)
(* The garbage collector: run_gc                                           *)
(***************************************************************************)

\* A pass starts with wdb_commit_old over the names in the pool.
StartLoop(op) ==
  /\ keys' = DOMAIN node /\ closed' = 0
  /\ th' = [th EXCEPT ![gc] = [Idle EXCEPT !.pc = "want", !.op = op]]

StartPass ==
  /\ th[gc].pc = "idle" /\ running = "up"
  /\ StartLoop("commit")
  /\ UNCHANGED <<open_db_limit, changes, node, file, agents, running, dropped, queries, faults>>

\* wdb_pool_size, with the global database.
PoolSize == Cardinality(DOMAIN node) + 1

\* wdb_close_old goes on while the pool is larger than the limit.
\* Mutant: one database too many is left.
More_last ==
  keys # {} /\ (th[gc].op = "close" => PoolSize - closed > open_db_limit + 1)

More == keys # {} /\ (th[gc].op = "close" => PoolSize - closed > open_db_limit)

\* The names come in a fixed order.
Visit ==
  /\ th[gc].pc = "want" /\ More
  /\ LET d == CHOOSE e \in keys : TRUE
     IN /\ keys' = keys \ {d}
        /\ IF d \in DOMAIN node THEN Ref(gc, d) ELSE UNCHANGED <<node, th>>
  /\ UNCHANGED <<open_db_limit, changes, file, agents, closed, running, dropped, queries, faults>>

\* Every check_fragmentation_interval passes wdb_check_fragmentation is run
\* between wdb_commit_old and wdb_close_old.
NextLoop ==
  /\ th[gc].pc = "want" /\ ~More /\ th[gc].op # "close"
  /\ \E op \in {"vacuum", "close"} : op # th[gc].op /\ StartLoop(op)
  /\ UNCHANGED <<open_db_limit, changes, node, file, agents, running, dropped, queries, faults>>

\* wdb_commit_old commits what is old, and wdb_check_fragmentation what it is
\* going to vacuum, if COMMIT succeeds.
\* Mutant: a transaction that is old is left alone by wdb_commit_old.
GcCommit_young(ok) ==
  /\ th[gc].pc = "in" /\ th[gc].op \in {"commit", "vacuum"}
  /\ Leave(gc, IF ~N(gc).old THEN wdb_commit2(N(gc), ok) ELSE N(gc), "want")
  /\ Outcome(ok)
  /\ UNCHANGED <<open_db_limit, changes, file, agents, keys, closed, running, dropped, queries>>

GcCommit(ok) ==
  /\ th[gc].pc = "in" /\ th[gc].op \in {"commit", "vacuum"}
  /\ ~ok => N(gc).transaction /\ N(gc).sql
  /\ \/ (th[gc].op = "commit" => N(gc).old) /\ Leave(gc, wdb_commit2(N(gc), ok), "want")
     \/ (th[gc].op = "commit" => ~N(gc).old) /\ ok /\ Leave(gc, N(gc), "want")
  /\ Outcome(ok)
  /\ UNCHANGED <<open_db_limit, changes, file, agents, keys, closed, running, dropped, queries>>

\* wdb_close_old closes what no other thread holds or awaits, but the global.
\* Mutant: it closes without a commit.
GcClose_rollback(ok) ==
  LET n == N(gc) IN
  /\ th[gc].pc = "in" /\ th[gc].op = "close"
  /\ IF n.db # "closed" /\ n.refcount = 1
     THEN /\ Leave(gc, wdb_close(n, FALSE, ok), "want")
          /\ closed' = closed + 1
          /\ dropped' = IF Drops(n, FALSE, ok) THEN dropped \union {th[gc].db} ELSE dropped
     ELSE Leave(gc, n, "want") /\ UNCHANGED <<closed, dropped>>
  /\ Outcome(ok)
  /\ UNCHANGED <<open_db_limit, changes, file, agents, keys, running, queries>>

GcClose(ok) ==
  LET n == N(gc) IN
  /\ th[gc].pc = "in" /\ th[gc].op = "close"
  /\ ~ok => n.transaction /\ n.sql
  /\ IF n.db # "closed" /\ n.refcount = 1
     THEN /\ Leave(gc, wdb_close(n, TRUE, ok), "want")
          /\ closed' = closed + 1
          /\ dropped' = IF Drops(n, TRUE, ok) THEN dropped \union {th[gc].db} ELSE dropped
     ELSE ok /\ Leave(gc, n, "want") /\ UNCHANGED <<closed, dropped>>
  /\ Outcome(ok)
  /\ UNCHANGED <<open_db_limit, changes, file, agents, keys, running, queries>>

\* wdb_pool_clean, under the mutex of the pool.
\* Mutant: the references are not looked at.
wdb_pool_clean_any ==
  /\ th[gc].pc = "want" /\ th[gc].op = "close" /\ ~More
  /\ node' = [d \in {e \in DOMAIN node : node[e].db # "closed"} |-> node[d]]
  /\ th' = [th EXCEPT ![gc] = Idle] /\ keys' = {} /\ closed' = 0
  /\ UNCHANGED <<open_db_limit, changes, file, agents, running, dropped, queries, faults>>

wdb_pool_clean ==
  /\ th[gc].pc = "want" /\ th[gc].op = "close" /\ ~More
  /\ node' = [d \in {e \in DOMAIN node : node[e].refcount # 0 \/ node[e].db # "closed"} |->
                node[d]]
  /\ th' = [th EXCEPT ![gc] = Idle] /\ keys' = {} /\ closed' = 0
  /\ UNCHANGED <<open_db_limit, changes, file, agents, running, dropped, queries, faults>>

\* commit_time_min or commit_time_max passes.
Age(d) ==
  /\ d \in DOMAIN node /\ node[d].transaction /\ ~node[d].old
  /\ Set(d, [node[d] EXCEPT !.old = TRUE])
  /\ UNCHANGED <<open_db_limit, changes, file, agents, th, keys, closed, running, dropped, queries, faults>>

(***************************************************************************)
(* The end: a signal, the threads are joined, wdb_close_all                *)
(***************************************************************************)
Signal ==
  /\ running = "up" /\ running' = "stop"
  /\ UNCHANGED <<open_db_limit, changes, node, file, agents, th, keys, closed, dropped, queries, faults>>

wdb_close_all ==
  /\ running = "stop" /\ \A t \in Thread : th[t].pc = "idle"
  /\ running' = "down"
  /\ node' = [d \in DOMAIN node |-> IF node[d].db = "closed" THEN node[d]
                                    ELSE wdb_close(node[d], TRUE, TRUE)]
  /\ dropped' = dropped \union {d \in DOMAIN node : Drops(node[d], TRUE, TRUE)}
  /\ UNCHANGED <<open_db_limit, changes, file, agents, th, keys, closed, queries, faults>>

run_worker(w) ==
  \/ Enter(w) \/ Lock(w) \/ Open(w) \/ OpenFails(w)
  \/ AgentQuery(w) \/ AgentQueryFails(w) \/ Remove(w) \/ Unref(w)
  \/ wdb_remove_database(w)

run_gc ==
  \/ StartPass \/ Visit \/ NextLoop \/ Lock(gc) \/ Unref(gc) \/ wdb_pool_clean
  \/ \E ok \in BOOLEAN : GcCommit(ok) \/ GcClose(ok)

Next ==
  \/ \E w \in Worker : run_worker(w) \/ \E op \in Op, a \in Agent : Query(w, op, a)
  \/ \E a \in Agent : GlobalQuery(a)
  \/ run_gc
  \/ \E d \in Agent : Age(d)
  \/ Signal \/ wdb_close_all

Spec == Init /\ [][Next]_vars

\* The threads run, time passes, and run_gc sleeps long enough between its
\* passes for a worker to get a mutex it waits for.
Fairness ==
  /\ \A w \in Worker : WF_vars(run_worker(w))
  /\ WF_vars(run_gc)
  /\ SF_vars(\E w \in Worker : Lock(w))
  /\ \A d \in Agent : WF_vars(Age(d))
  /\ WF_vars(wdb_close_all)

FairSpec == Spec /\ Fairness

(***************************************************************************)
(* Properties                                                              *)
(***************************************************************************)

\* Every variable keeps its type; the refcounts of wdb_pool never go below 0.
TypeOK ==
  /\ open_db_limit \in Limits
  /\ DOMAIN node \subseteq Agent /\ \A d \in DOMAIN node : node[d] \in Node
  /\ file \subseteq Agent /\ agents \subseteq Agent /\ keys \subseteq Agent /\ dropped \subseteq Agent
  /\ th \in [Thread -> [pc : {"idle", "want", "lock", "in", "unref", "unlink"}, op : Op,
                        db : Agent \union {None}, then : {"idle", "want", "unlink"}]]
  /\ closed \in Nat /\ running \in {"up", "stop", "down"}
  /\ queries \in 0 .. MaxQueries /\ changes \in 0 .. MaxChanges /\ faults \in 0 .. MaxFaults

\* The threads that have counted themselves in the node of d.
Users(d) == {t \in Thread : th[t].db = d /\ th[t].pc \in {"lock", "in", "unref"}}

\* wdb_pool: a node that a thread awaits, holds or is leaving has not been
\* destroyed by wdb_pool_clean, its refcount is the number of these threads, and
\* its mutex belongs to the one that is in it.
UsersCounted ==
  /\ \A t \in Thread : th[t].pc \in {"lock", "in", "unref"} => th[t].db \in DOMAIN node
  /\ \A d \in DOMAIN node : node[d].refcount = Cardinality(Users(d))
  /\ \A d \in DOMAIN node, t \in Thread :
       node[d].mutex = t <=> th[t].db = d /\ th[t].pc = "in"

\* wdb_write_state_transaction: a transaction that SQLite has open is known to
\* the node, through failed COMMITs, closings and reopenings.  Otherwise nothing
\* would ever commit it, and wdb_check_fragmentation would vacuum inside it.
TransactionsKnown ==
  \A d \in DOMAIN node : node[d].sql => node[d].transaction /\ node[d].db # "closed"

\* wdb_close_old, wdb_close_all and the recovery of a lost file in wdb_parse
\* close no database with writes that were answered and are not committed, as
\* long as no COMMIT fails and the file was not removed.
ClosedCommitted == dropped = {}

\* run_gc and wdb_close_all: what was written is committed at last.
WritesCommitted ==
  \A d \in Agent : d \in DOMAIN node /\ node[d].dirty ~> ~(d \in DOMAIN node /\ node[d].dirty)

\* wdb_close_old: when no more queries come, the pool goes back to its limit.
PoolShrinks == <>[](running # "up" \/ PoolSize <= open_db_limit)

\* run_worker: every query is answered, whatever the other threads and run_gc
\* do with its database.
QueriesAnswered == \A w \in Worker : th[w].pc # "idle" ~> th[w].pc = "idle"
=============================================================================
