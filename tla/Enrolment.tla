------------------------------ MODULE Enrolment ------------------------------
(***************************************************************************)
(* Enrolment of agents: wazuh-authd on a master node (src/src/os_auth),    *)
(* the file client.keys, the table of agents in wazuh-db, and the          *)
(* synchronization of the two that wazuh-modulesd makes when it starts     *)
(* (src/src/wazuh_modules/wm_database.c).                                  *)
(*                                                                         *)
(* In authd the key store and the two queues of the writer are under       *)
(* mutex_keys.  The local server and the key requests change them in one   *)
(* critical section.  The dispatcher of remote enrolments uses two: it     *)
(* adds the key, releases the mutex, writes the reply to the agent, takes  *)
(* the mutex again and queues the new key, or deletes it if the reply      *)
(* could not be written.  The writer copies store and queues, then writes  *)
(* the file and updates the table without the mutex.                       *)
(***************************************************************************)
EXTENDS Integers, Sequences, FiniteSets

CONSTANTS
  Name,          \* names of agents
  shost,         \* the manager's name, one of Name
  Ip,            \* addresses of agents
  Any,           \* the address "any"
  save_removed,  \* removed keys stay in client.keys, marked: not clear_removed
  Options,       \* sets of features that may be on
  MaxAdds,       \* bound: calls of OS_AddNewAgent
  MaxId,         \* bound: identifiers
  MaxFaults,     \* bound: crashes and failed writes
  None

ASSUME EnrolmentAssumption ==
  /\ shost \in Name
  /\ Any \notin Ip
  /\ save_removed \in BOOLEAN
  /\ Options \subseteq SUBSET {"remote", "ids", "sync"}
  /\ MaxAdds \in Nat /\ MaxId \in Nat /\ MaxFaults \in Nat

VARIABLES
  features,      \* "remote": remote enrolment; "ids": requests may name an id, as
                 \* key requests do; "sync": wm_database runs
  keyentries,    \* keys.keyentries[0 .. keysize - 1]
  removed_keys,  \* ids of the removed keys that are kept
  id_counter,
  queue_insert, queue_remove, write_pending,
  dpc,           \* the dispatcher: "idle" or "reply"
  new,           \* the key that it is about to send
  wpc,           \* the writer: "wait", "keys", "insert" or "ended"
  copy,          \* its copy of the store
  copy_insert, copy_remove,
  client_keys,   \* the file: entries and marked ids
  db,            \* rows of the table agent of global.db
  running,
  spc,           \* wm_sync_agents: "off", "keys", "rows" or "update"
  skeys,         \* its copy of client.keys
  to_insert, to_remove,
  adds,          \* keys made so far; a key is the number of its making
  faults,
  saved,         \* history: the last OS_WriteKeys succeeded
  quiet          \* history: no request since the manager started

store == <<keyentries, removed_keys, id_counter>>
queues == <<queue_insert, queue_remove, write_pending>>
dispatcher == <<dpc, new>>
writer == <<wpc, copy, copy_insert, copy_remove, saved>>
sync == <<spc, skeys, to_insert, to_remove>>
vars == <<features, store, queues, dispatcher, writer, client_keys, db, running, sync,
          adds, faults, quiet>>

Id == 1..MaxId
Entry == [id : Id, name : Name, ip : Ip \union {Any}, key : 1..MaxAdds]
Entries(s) == {s[k] : k \in DOMAIN s}
Ids(S) == {e.id : e \in S}
Largest(S) == IF S = {} THEN 0 ELSE CHOOSE n \in S : \A m \in S : m <= n
NoKeys == [entries |-> <<>>, removed |-> {}]

Init ==
  /\ features \in Options
  /\ keyentries = <<>> /\ removed_keys = {} /\ id_counter = 0
  /\ queue_insert = <<>> /\ queue_remove = <<>> /\ write_pending = FALSE
  /\ dpc = "idle" /\ new = None
  /\ wpc = "wait" /\ copy = NoKeys /\ copy_insert = <<>> /\ copy_remove = <<>>
  /\ saved = TRUE
  /\ client_keys = NoKeys /\ db = {}
  /\ running = TRUE
  /\ spc = "off" /\ skeys = <<>> /\ to_insert = {} /\ to_remove = {}
  /\ adds = 0 /\ faults = 0 /\ quiet = TRUE

(***************************************************************************)
(* The key store.  A request works on a record: the entries, the marked    *)
(* ids, the queue of removals, and whether it is still accepted.           *)
(***************************************************************************)

\* OS_DeleteKey: the last entry moves into the place of the deleted one.
DeleteAt(s, k) ==
  LET n == Len(s) IN [m \in 1..(n - 1) |-> IF m = k THEN s[n] ELSE s[m]]

\* The mark that OS_DeleteKey leaves.
Mark(removed, id, purge) == IF save_removed /\ ~purge THEN removed \union {id} ELSE removed

Request == [entries |-> keyentries, removed |-> removed_keys, removals |-> queue_remove, ok |-> TRUE]

\* Places of the entries that OS_IsAllowedID, OS_IsAllowedIP and OS_IsAllowedName find.
SameId(s, id) == {k \in DOMAIN s : s[k].id = id}
SameIp(s, a) == {k \in DOMAIN s : a # Any /\ s[k].ip = a}
SameName(s, n) == {k \in DOMAIN s : s[k].name = n}

\* w_auth_replace_agent for the first of the places at.  Nothing is replaced whose row
\* the table lacks; whether the force options let an agent be replaced depends on its
\* state there: replaceable are the keys of those for which they do.
Resolve(r, at, replaceable) ==
  IF ~r.ok \/ at = {} THEN r
  ELSE LET k == CHOOSE x \in at : \A y \in at : x <= y
           e == r.entries[k]
       IN IF e.key \in replaceable /\ e.id \in Ids(db)
          THEN [entries  |-> DeleteAt(r.entries, k),
                removed  |-> Mark(r.removed, e.id, FALSE),
                removals |-> Append(r.removals, e),
                ok       |-> TRUE]
          ELSE [r EXCEPT !.ok = FALSE]

\* The manager's own name is refused.
NotHost(r, n) == [r EXCEPT !.ok = @ /\ n # shost]

\* Mutant: a clash of names is not looked for.
Validate_names(r, n, a, replaceable) ==
  NotHost(Resolve(r, SameIp(r.entries, a), replaceable), n)

\* Duplicate address, the manager's own name, duplicate name: what
\* w_auth_validate_data and local_add check in this order.  What a check has
\* removed stays removed when a later one rejects the request.
Validate(r, n, a, replaceable) ==
  LET byIp == NotHost(Resolve(r, SameIp(r.entries, a), replaceable), n)
  IN Resolve(byIp, SameName(byIp.entries, n), replaceable)

\* OS_AddNewAgent: the counter after it, for an id that was asked for or None.
NextCounter(id) ==
  IF id = None THEN id_counter + 1 ELSE IF id > id_counter THEN id ELSE id_counter

NewEntry(id, n, a) ==
  [id |-> IF id = None THEN id_counter + 1 ELSE id, name |-> n, ip |-> a, key |-> adds + 1]

(***************************************************************************)
(* The dispatcher of remote enrolments (run_dispatcher)                    *)
(***************************************************************************)

\* The first critical section: the request is validated and its key added.
RemoteAdd(n, a, replaceable) ==
  LET r == Validate(Request, n, a, replaceable) IN
  /\ "remote" \in features /\ running
  /\ dpc = "idle"
  /\ r.ok
  /\ adds < MaxAdds /\ id_counter < MaxId
  /\ new' = NewEntry(None, n, a)
  /\ keyentries' = Append(r.entries, new')
  /\ removed_keys' = r.removed
  /\ queue_remove' = r.removals
  /\ id_counter' = NextCounter(None)
  /\ adds' = adds + 1
  /\ dpc' = "reply"
  /\ quiet' = FALSE
  /\ UNCHANGED <<features, queue_insert, write_pending, writer, client_keys, db, running,
                 sync, faults>>

\* A request that is rejected, possibly after it has replaced an agent.
RemoteReject(n, a, replaceable) ==
  LET r == Validate(Request, n, a, replaceable) IN
  /\ "remote" \in features /\ running
  /\ dpc = "idle"
  /\ ~r.ok
  /\ keyentries' = r.entries /\ removed_keys' = r.removed /\ queue_remove' = r.removals
  /\ quiet' = FALSE
  /\ UNCHANGED <<features, id_counter, queue_insert, write_pending, dispatcher, writer,
                 client_keys, db, running, sync, adds, faults>>

Replied == dpc' = "idle" /\ new' = None

\* The reply was written: the last entry of the store is queued.
ReplyOk ==
  /\ dpc = "reply" /\ keyentries # <<>>
  /\ Replied
  /\ queue_insert' = Append(queue_insert, keyentries[Len(keyentries)])
  /\ write_pending' = TRUE
  /\ quiet' = FALSE
  /\ UNCHANGED <<features, store, queue_remove, writer, client_keys, db, running, sync, adds,
                 faults>>

\* It was not: the last entry of the store is deleted.
ReplyFail ==
  /\ dpc = "reply" /\ keyentries # <<>>
  /\ Replied
  /\ keyentries' = DeleteAt(keyentries, Len(keyentries))
  /\ quiet' = FALSE
  /\ UNCHANGED <<features, removed_keys, id_counter, queues, writer, client_keys, db, running,
                 sync, adds, faults>>

(***************************************************************************)
(* The local server and the key requests: one critical section each        *)
(***************************************************************************)

\* local_add up to the duplicate names; id is None or what the request asks for.
LocalRequest(id, n, a, replaceable) ==
  Validate(Resolve(Request, SameId(keyentries, id), replaceable), n, a, replaceable)

local_add(id, n, a, replaceable) ==
  LET r == LocalRequest(id, n, a, replaceable)
      e == NewEntry(id, n, a)
  IN
  /\ running /\ (id # None => "ids" \in features)
  /\ r.ok
  /\ adds < MaxAdds /\ (id = None => id_counter < MaxId)
  /\ keyentries' = Append(r.entries, e)
  /\ removed_keys' = r.removed
  /\ queue_remove' = r.removals
  /\ id_counter' = NextCounter(id)
  /\ queue_insert' = Append(queue_insert, e)
  /\ write_pending' = TRUE
  /\ adds' = adds + 1
  /\ quiet' = FALSE
  /\ UNCHANGED <<features, dispatcher, writer, client_keys, db, running, sync, faults>>

\* A request that is rejected, possibly after it has replaced an agent.
local_add_reject(id, n, a, replaceable) ==
  LET r == LocalRequest(id, n, a, replaceable) IN
  /\ running /\ (id # None => "ids" \in features)
  /\ ~r.ok
  /\ keyentries' = r.entries /\ removed_keys' = r.removed /\ queue_remove' = r.removals
  /\ quiet' = FALSE
  /\ UNCHANGED <<features, id_counter, queue_insert, write_pending, dispatcher, writer,
                 client_keys, db, running, sync, adds, faults>>

local_remove(k, purge) ==
  /\ running
  /\ keyentries' = DeleteAt(keyentries, k)
  /\ removed_keys' = Mark(removed_keys, keyentries[k].id, purge)
  /\ queue_remove' = Append(queue_remove, keyentries[k])
  /\ write_pending' = TRUE
  /\ quiet' = FALSE
  /\ UNCHANGED <<features, id_counter, queue_insert, dispatcher, writer, client_keys, db,
                 running, sync, adds, faults>>

(***************************************************************************)
(* The writer (run_writer)                                                 *)
(***************************************************************************)

\* Mutant: only the signal of main wakes the writer.
WriterCopy_deaf ==
  /\ wpc = "wait"
  /\ ~running /\ dpc = "idle"
  /\ copy' = [entries |-> keyentries, removed |-> removed_keys]
  /\ copy_insert' = queue_insert /\ copy_remove' = queue_remove
  /\ queue_insert' = <<>> /\ queue_remove' = <<>>
  /\ write_pending' = FALSE
  /\ wpc' = "keys"
  /\ UNCHANGED <<features, store, dispatcher, saved, client_keys, db, running, sync, adds,
                 faults, quiet>>

\* The critical section.  When authd stops, main signals cond_pending after the
\* other threads have ended.
WriterCopy ==
  /\ wpc = "wait"
  /\ write_pending \/ (~running /\ dpc = "idle")
  /\ copy' = [entries |-> keyentries, removed |-> removed_keys]
  /\ copy_insert' = queue_insert /\ copy_remove' = queue_remove
  /\ queue_insert' = <<>> /\ queue_remove' = <<>>
  /\ write_pending' = FALSE
  /\ wpc' = "keys"
  /\ UNCHANGED <<features, store, dispatcher, saved, client_keys, db, running, sync, adds,
                 faults, quiet>>

\* OS_WriteKeys replaces the file as a whole, or fails and leaves it.
OS_WriteKeys ==
  /\ wpc = "keys"
  /\ \/ client_keys' = copy /\ saved' = TRUE /\ UNCHANGED faults
     \/ /\ faults < MaxFaults
        /\ faults' = faults + 1
        /\ saved' = FALSE
        /\ UNCHANGED client_keys
  /\ copy' = NoKeys
  /\ wpc' = "insert"
  /\ UNCHANGED <<features, store, queues, dispatcher, copy_insert, copy_remove, db, running,
                 sync, adds, quiet>>

\* wdb_insert_agent: a row whose id exists is refused.
Inserted(e) == IF e.id \in Ids(db) THEN db ELSE db \union {e}

\* Mutant: the agents of the batch are removed before they are inserted.
WriterUpdate_removals ==
  /\ \/ /\ wpc = "insert" /\ copy_remove # <<>>
        /\ db' = {e \in db : e.id # Head(copy_remove).id}
        /\ copy_remove' = Tail(copy_remove)
        /\ UNCHANGED <<wpc, copy_insert>>
     \/ /\ wpc = "insert" /\ copy_remove = <<>> /\ copy_insert # <<>>
        /\ db' = Inserted(Head(copy_insert))
        /\ copy_insert' = Tail(copy_insert)
        /\ UNCHANGED <<wpc, copy_remove>>
     \/ /\ wpc = "insert" /\ copy_insert = <<>> /\ copy_remove = <<>>
        /\ wpc' = IF running THEN "wait" ELSE "ended"
        /\ UNCHANGED <<db, copy_insert, copy_remove>>
  /\ UNCHANGED <<features, store, queues, dispatcher, copy, saved, client_keys, running, sync,
                 adds, faults, quiet>>

\* The two loops over the copied queues, and the test of running at the end.
WriterUpdate ==
  /\ \/ /\ wpc = "insert" /\ copy_insert # <<>>
        /\ db' = Inserted(Head(copy_insert))
        /\ copy_insert' = Tail(copy_insert)
        /\ UNCHANGED <<wpc, copy_remove>>
     \/ /\ wpc = "insert" /\ copy_insert = <<>> /\ copy_remove # <<>>
        /\ db' = {e \in db : e.id # Head(copy_remove).id}
        /\ copy_remove' = Tail(copy_remove)
        /\ UNCHANGED <<wpc, copy_insert>>
     \/ /\ wpc = "insert" /\ copy_insert = <<>> /\ copy_remove = <<>>
        /\ wpc' = IF running THEN "wait" ELSE "ended"
        /\ UNCHANGED <<db, copy_insert, copy_remove>>
  /\ UNCHANGED <<features, store, queues, dispatcher, copy, saved, client_keys, running, sync,
                 adds, faults, quiet>>

(***************************************************************************)
(* Stop, crash and start of the manager                                    *)
(***************************************************************************)

\* A signal.  The test of running and the request that follows are one step.
Stop ==
  /\ running
  /\ running' = FALSE
  /\ UNCHANGED <<features, store, queues, dispatcher, writer, client_keys, db, sync, adds,
                 faults, quiet>>

\* Mutant: the lines of removed keys do not count.
CounterOfFile_active == Largest(Ids(Entries(client_keys.entries)))

\* OS_ReadKeys: the greatest id of the file, removed keys included.
CounterOfFile == Largest(Ids(Entries(client_keys.entries)) \union client_keys.removed)

\* The state in which authd starts: the file is read, nothing is queued.
StartAuthd ==
  /\ keyentries' = client_keys.entries
  /\ removed_keys' = IF save_removed THEN client_keys.removed ELSE {}
  /\ id_counter' = CounterOfFile
  /\ queue_insert' = <<>> /\ queue_remove' = <<>> /\ write_pending' = FALSE
  /\ Replied
  /\ wpc' = "wait" /\ copy' = NoKeys /\ copy_insert' = <<>> /\ copy_remove' = <<>>
  /\ saved' = TRUE
  /\ running' = TRUE

\* modulesd starts with authd; its synchronization then runs beside authd.
StartModulesd ==
  /\ spc' = IF "sync" \in features THEN "keys" ELSE "off"
  /\ skeys' = <<>> /\ to_insert' = {} /\ to_remove' = {}
  /\ quiet' = TRUE

Restart ==
  /\ ~running /\ wpc = "ended" /\ dpc = "idle"
  /\ StartAuthd /\ StartModulesd
  /\ UNCHANGED <<features, client_keys, db, adds, faults>>

Crash ==
  /\ faults < MaxFaults
  /\ faults' = faults + 1
  /\ StartAuthd /\ StartModulesd
  /\ UNCHANGED <<features, client_keys, db, adds>>

\* The dispatcher looks for the last entry of an empty store: keyentries[-1].
ReplyNoEntry ==
  /\ dpc = "reply" /\ keyentries = <<>>
  /\ StartAuthd /\ StartModulesd
  /\ UNCHANGED <<features, client_keys, db, adds, faults>>

(***************************************************************************)
(* wm_sync_agents, when modulesd starts                                    *)
(***************************************************************************)

SyncReadKeys ==
  /\ spc = "keys"
  /\ skeys' = client_keys.entries
  /\ spc' = "rows"
  /\ UNCHANGED <<features, store, queues, dispatcher, writer, client_keys, db, running,
                 to_insert, to_remove, adds, faults, quiet>>

\* Mutant: agents that have no key stay in the table.
SyncReadRows_keep ==
  /\ spc = "rows"
  /\ to_insert' = {e \in Entries(skeys) : e.id \notin Ids(db)}
  /\ skeys' = <<>>
  /\ spc' = "update"
  /\ UNCHANGED <<features, store, queues, dispatcher, writer, client_keys, db, running,
                 to_remove, adds, faults, quiet>>

\* wdb_get_all_agents_rbtree decides what is inserted and what is removed.
SyncReadRows ==
  /\ spc = "rows"
  /\ to_insert' = {e \in Entries(skeys) : e.id \notin Ids(db)}
  /\ to_remove' = Ids(db) \ Ids(Entries(skeys))
  /\ skeys' = <<>>
  /\ spc' = "update"
  /\ UNCHANGED <<features, store, queues, dispatcher, writer, client_keys, db, running, adds,
                 faults, quiet>>

SyncUpdate ==
  /\ spc = "update"
  /\ \/ \E e \in to_insert :
          /\ db' = Inserted(e)
          /\ to_insert' = to_insert \ {e}
          /\ UNCHANGED <<spc, to_remove>>
     \/ \E id \in to_remove :
          /\ to_insert = {}
          /\ db' = {e \in db : e.id # id}
          /\ to_remove' = to_remove \ {id}
          /\ UNCHANGED <<spc, to_insert>>
     \/ /\ to_insert = {} /\ to_remove = {}
        /\ spc' = "off"
        /\ UNCHANGED <<db, to_insert, to_remove>>
  /\ UNCHANGED <<features, store, queues, dispatcher, writer, client_keys, running, skeys, adds,
                 faults, quiet>>

(***************************************************************************)
(* The specification                                                       *)
(***************************************************************************)
Keys == {e.key : e \in Entries(keyentries)}

run_dispatcher ==
  \/ \E n \in Name, a \in Ip \union {Any}, f \in SUBSET Keys :
       RemoteAdd(n, a, f) \/ RemoteReject(n, a, f)
  \/ ReplyOk \/ ReplyFail \/ ReplyNoEntry

run_local_server ==
  \/ \E id \in Id \union {None}, n \in Name, a \in Ip \union {Any}, f \in SUBSET Keys :
       local_add(id, n, a, f) \/ local_add_reject(id, n, a, f)
  \/ \E k \in DOMAIN keyentries, purge \in BOOLEAN : local_remove(k, purge)

run_writer == WriterCopy \/ OS_WriteKeys \/ WriterUpdate
wm_sync_agents == SyncReadKeys \/ SyncReadRows \/ SyncUpdate

Next ==
  \/ run_dispatcher \/ run_local_server \/ run_writer \/ wm_sync_agents
  \/ Stop \/ Restart \/ Crash

Spec == Init /\ [][Next]_vars

\* The writer's file and socket operations end, and so does the reply.
Fairness == WF_vars(run_writer) /\ WF_vars(ReplyOk \/ ReplyFail \/ ReplyNoEntry)

FairSpec == Spec /\ Fairness

(***************************************************************************)
(* Properties                                                              *)
(***************************************************************************)
Stored == [entries : Seq(Entry), removed : SUBSET Id]

\* Every variable keeps its type.
TypeOK ==
  /\ features \in Options
  /\ keyentries \in Seq(Entry) /\ removed_keys \subseteq Id /\ id_counter \in 0..MaxId
  /\ queue_insert \in Seq(Entry) /\ queue_remove \in Seq(Entry) /\ write_pending \in BOOLEAN
  /\ dpc \in {"idle", "reply"} /\ new \in Entry \union {None}
  /\ wpc \in {"wait", "keys", "insert", "ended"} /\ copy \in Stored
  /\ copy_insert \in Seq(Entry) /\ copy_remove \in Seq(Entry)
  /\ client_keys \in Stored /\ db \subseteq Entry /\ running \in BOOLEAN
  /\ spc \in {"off", "keys", "rows", "update"} /\ skeys \in Seq(Entry)
  /\ to_insert \subseteq Entry /\ to_remove \subseteq Id
  /\ adds \in 0..MaxAdds /\ faults \in 0..MaxFaults /\ saved \in BOOLEAN /\ quiet \in BOOLEAN

NoClash(s) ==
  \A k, m \in DOMAIN s :
    k # m => s[k].id # s[m].id /\ s[k].name # s[m].name /\ (s[k].ip = Any \/ s[k].ip # s[m].ip)

\* Every variable keeps its type.  No two agents share an id, a name or an address,
\* neither in authd's store nor in client.keys, whatever is replaced, removed, moved
\* by OS_DeleteKey, given an id by a key request, or read again after a crash.
NoClashingAgents == TypeOK /\ NoClash(keyentries) /\ NoClash(client_keys.entries)

\* The id that OS_AddNewAgent gives next was not used by a key that client.keys
\* holds, active or removed, also after a crash and after ids that requests chose.
FreshIds ==
  \A id \in Ids(Entries(keyentries)) \union Ids(Entries(client_keys.entries))
            \union removed_keys \union client_keys.removed : id <= id_counter

\* Whenever the writer is not at work, the table of agents in wazuh-db has a row for exactly the
\* agents of client.keys.
TableMatchesKeys == wpc \in {"wait", "ended"} => Ids(db) = Ids(Entries(client_keys.entries))

\* The local server and the writer alone keep the table in step with client.keys,
\* across replacements, rejected requests, removals of agents not yet inserted and
\* stops, while nothing fails.
LocalTableMatchesKeys == (features = {} /\ faults = 0) => TableMatchesKeys

\* The synchronization of modulesd repairs what a crash left behind: when it has ended
\* and no request was made since the start, the table has a row for exactly the
\* agents of client.keys.
SyncRepairs ==
  ("sync" \in features /\ quiet /\ spc = "off" /\ running) =>
    Ids(db) = Ids(Entries(client_keys.entries))

\* A key in the store reaches client.keys, unless it is removed, OS_WriteKeys fails or
\* authd is stopped: the writer's loop ends with a change pending when the signal
\* comes while it writes.
KeyReachesFile ==
  \A n \in 1..MaxAdds :
    n \in Keys ~> (\/ n \notin Keys
                   \/ n \in {e.key : e \in Entries(client_keys.entries)}
                   \/ ~saved \/ ~running)

\* "Agent key not saved for %s": when the reply cannot be written, the key that is
\* dropped is the key of that reply.
OnlyOwnKeyDropped ==
  [][ReplyFail => Entries(keyentries) \ Entries(keyentries') \subseteq {new}]_vars
=============================================================================
