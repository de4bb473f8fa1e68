---------------------------- MODULE SharedConfig ----------------------------
(***************************************************************************)
(* How the shared configuration of a group reaches an agent of the group:   *)
(*   - update_shared_files (manager.c) rebuilds the group's merged.mg and   *)
(*     its sum when a file of the group has changed;                        *)
(*   - the agent sends keep-alives with the sum of its own merged.mg        *)
(*     (run_notify, client-agent/notify.c);                                 *)
(*   - a worker of remoted compares the two sums and queues the agent       *)
(*     (save_controlmsg, manager.c);                                        *)
(*   - wait_for_msgs sends the file, chunk by chunk (send_file_toagent);    *)
(*   - the agent writes it, verifies it and unpacks it (receive_msg,        *)
(*     client-agent/receiver.c).                                            *)
(*                                                                         *)
(* One agent of one group.  The content of a file is the sequence of its    *)
(* chunks.  The MD5 sum of a whole version is the version itself; the sums  *)
(* of all other contents are one value, Other, and two of them may be equal *)
(* or not.  The connection is a pair of FIFO channels, whose contents are   *)
(* lost when it breaks.  Start-up and shutdown messages do not touch this   *)
(* state, and acknowledgements of the manager are ignored by the receiver;  *)
(* they are left out, as is the assignment of a group to an agent that has  *)
(* none.                                                                    *)
(***************************************************************************)
EXTENDS Naturals, Sequences

CONSTANTS Worker,       \* threads of remoted that handle messages
          Version,      \* versions of the files of the group
          FirstVersion, \* the one remoted starts with
          Chunks,       \* chunks of a merged.mg
          SendRoom,     \* messages the send queue of the connection holds
          MaxEdits, MaxFaults,   \* bounds on the environment
          None, NoFile, Other

ASSUME SharedConfigAssumption ==
  /\ FirstVersion \in Version
  /\ {None, NoFile, Other} \cap Version = {}
  /\ Chunks \in Nat \ {0} /\ SendRoom \in Nat \ {0}
  /\ MaxEdits \in Nat /\ MaxFaults \in Nat

VARIABLES
  files,         \* the version of the group's files
  building,      \* the version c_group is writing, or None
  mfile,         \* the manager's merged.mg
  merged_sum,    \* groups[group]->merged_sum
  message,       \* data->message: the sum of the last keep-alive stored
  data_sum,      \* data->merged_sum
  changed,       \* data->changed
  pending_queue, \* entries of the agent in pending_queue
  wpc, wsum, wstatus,    \* a worker: where it is, the sum it read, its verdict
  group_config_status,   \* the column of the agent in global.db
  spc, ssum, sread,      \* wait_for_msgs: where it is, sum announced, chunks read
  linked, down, up,      \* the connection and its two channels
  disk, fp,              \* the agent's merged.mg, and whether it is open for writing
  file, file_sum,        \* statics of receiver.c (file: the name is not empty; a sum
                         \* that is not read again is reset)
  cache,                 \* g_shared_mg_file_hash
  config,                \* the content last unpacked into etc/shared
  edits, faults          \* how often the environment intervened

groupVars   == <<files, building, mfile, merged_sum>>
dataVars    == <<message, data_sum, changed, pending_queue>>
workerVars  == <<wpc, wsum, wstatus, group_config_status>>
senderVars  == <<spc, ssum, sread>>
channelVars == <<linked, down, up>>
agentVars   == <<disk, fp, file, file_sum, cache, config>>
boundVars   == <<edits, faults>>
vars == <<groupVars, dataVars, workerVars, senderVars, channelVars, agentVars, boundVars>>

\* The whole content of a version.
Content(v) == [k \in 1 .. Chunks |-> <<v, k>>]

\* The sum getsharedfiles reports: NoFile is its "x" for a file that is missing.
md5sum(f) ==
  IF f = None THEN NoFile
  ELSE IF \E v \in Version : f = Content(v) THEN CHOOSE v \in Version : f = Content(v)
  ELSE Other

Init ==
  /\ files = FirstVersion /\ building = None
  /\ mfile = Content(FirstVersion) /\ merged_sum = FirstVersion
  /\ message = None /\ data_sum = None /\ changed = 0 /\ pending_queue = 0
  /\ wpc = [w \in Worker |-> "idle"] /\ wsum = [w \in Worker |-> None]
  /\ wstatus = [w \in Worker |-> None] /\ group_config_status = "not_synced"
  /\ spc = "pop" /\ ssum = None /\ sread = 0
  /\ linked = TRUE /\ down = <<>> /\ up = <<>>
  /\ disk = None /\ fp = FALSE /\ file = FALSE /\ file_sum = None
  /\ cache = None /\ config = None
  /\ edits = 0 /\ faults = 0
-----------------------------------------------------------------------------
\* Somebody edits a file of the group.
Edit ==
  /\ edits < MaxEdits
  /\ edits' = edits + 1
  /\ files' \in Version \ {files}
  /\ UNCHANGED <<building, mfile, merged_sum, dataVars, workerVars, senderVars,
                 channelVars, agentVars, faults>>

\* c_files finds new file times.  c_group builds the new merged.mg in memory
\* and opens the old one for writing, which truncates it.  files_mutex is held.
c_group_write ==
  /\ building = None
  /\ mfile # Content(files)
  /\ building' = files
  /\ mfile' = <<>>
  /\ UNCHANGED <<files, merged_sum, dataVars, workerVars, senderVars, channelVars,
                 agentVars, boundVars>>

c_group_sum ==
  /\ building # None
  /\ mfile' = Content(building)
  /\ merged_sum' = building
  /\ building' = None
  /\ UNCHANGED <<files, dataVars, workerVars, senderVars, channelVars, agentVars,
                 boundVars>>
-----------------------------------------------------------------------------
\* A keep-alive that repeats the stored one while a transfer is due or under
\* way only renews the time of the last one.
save_controlmsg_repeated(w) ==
  /\ wpc[w] = "idle"
  /\ up # <<>>
  /\ changed = 1 /\ message = Head(up)
  /\ up' = Tail(up)
  /\ UNCHANGED <<groupVars, dataVars, workerVars, senderVars, linked, down,
                 agentVars, boundVars>>

\* Any other one is stored, with the sum of the group: lastmsg_mutex is held,
\* and files_mutex is taken for the sum.
Store(w, sum) ==
  /\ wpc[w] = "idle"
  /\ up # <<>>
  /\ changed = 1 /\ message = Head(up) => Head(up) = Other
  /\ message' = Head(up)
  /\ data_sum' = sum
  /\ wsum' = [wsum EXCEPT ![w] = Head(up)]
  /\ wpc' = [wpc EXCEPT ![w] = "compare"]
  /\ up' = Tail(up)
  /\ UNCHANGED <<groupVars, changed, pending_queue, wstatus, group_config_status,
                 senderVars, linked, down, agentVars, edits>>

save_controlmsg_store(w) ==
  /\ building = None
  /\ Store(w, merged_sum)
  /\ UNCHANGED faults

\* lookfor_agent_group fails: no group and no sum are stored.
save_controlmsg_nogroup(w) ==
  /\ faults < MaxFaults
  /\ faults' = faults + 1
  /\ Store(w, None)

\* The second critical section: the sum in the table against the one read.
save_controlmsg_compare(w) ==
  /\ wpc[w] = "compare"
  /\ IF data_sum # None /\ data_sum # wsum[w]
     THEN /\ changed' = 1
          /\ pending_queue' = IF changed = 1 THEN pending_queue ELSE pending_queue + 1
          /\ wstatus' = [wstatus EXCEPT ![w] = "not_synced"]
     ELSE /\ wstatus' = [wstatus EXCEPT ![w] = "synced"]
          /\ UNCHANGED <<changed, pending_queue>>
  /\ wpc' = [wpc EXCEPT ![w] = "update"]
  /\ wsum' = [wsum EXCEPT ![w] = None]
  /\ UNCHANGED <<groupVars, message, data_sum, group_config_status, senderVars,
                 channelVars, agentVars, boundVars>>

\* wdb_update_agent_data, outside of the lock.
save_controlmsg_update(w) ==
  /\ wpc[w] = "update"
  /\ group_config_status' = wstatus[w]
  /\ wpc' = [wpc EXCEPT ![w] = "idle"]
  /\ wstatus' = [wstatus EXCEPT ![w] = None]
  /\ UNCHANGED <<groupVars, dataVars, wsum, senderVars, channelVars, agentVars,
                 boundVars>>
-----------------------------------------------------------------------------
\* wait_for_msgs pops the agent and copies the sum to announce.  (The mutant
\* takes the agent for served as soon as it is popped.)
Pop_served ==
  /\ spc = "pop"
  /\ pending_queue > 0
  /\ pending_queue' = pending_queue - 1
  /\ ssum' = data_sum
  /\ sread' = 0
  /\ spc' = "name"
  /\ changed' = 0
  /\ UNCHANGED <<groupVars, message, data_sum, workerVars, channelVars, agentVars, boundVars>>

Pop ==
  /\ spc = "pop"
  /\ pending_queue > 0
  /\ pending_queue' = pending_queue - 1
  /\ ssum' = data_sum
  /\ sread' = 0
  /\ spc' = "name"
  /\ UNCHANGED <<groupVars, message, data_sum, changed, workerVars, channelVars, agentVars, boundVars>>

\* send_msg succeeds when the agent has a connection with room in its queue.
CanSend_unbounded == linked

CanSend == linked /\ Len(down) < SendRoom

\* Without a sum there is nothing to send.
SkipSend ==
  /\ spc = "name"
  /\ ssum = None
  /\ spc' = "dispatched" /\ ssum' = None /\ sread' = 0
  /\ UNCHANGED <<groupVars, dataVars, workerVars, channelVars, agentVars, boundVars>>

SendName ==
  /\ spc = "name"
  /\ ssum # None
  /\ CanSend
  /\ down' = Append(down, [type |-> "update", value |-> ssum])
  /\ spc' = "contents" /\ ssum' = None
  /\ UNCHANGED <<groupVars, dataVars, workerVars, sread, linked, up, agentVars,
                 boundVars>>

\* fread from the file as it is now: it may have been truncated or rewritten.
SendChunk ==
  /\ spc = "contents"
  /\ sread < Len(mfile)
  /\ CanSend
  /\ down' = Append(down, [type |-> "chunk", value |-> mfile[sread + 1]])
  /\ sread' = sread + 1
  /\ UNCHANGED <<groupVars, dataVars, workerVars, spc, ssum, linked, up, agentVars,
                 boundVars>>

SendClose ==
  /\ spc = "contents"
  /\ sread >= Len(mfile)
  /\ CanSend
  /\ down' = Append(down, [type |-> "close", value |-> None])
  /\ spc' = "dispatched" /\ ssum' = None /\ sread' = 0
  /\ UNCHANGED <<groupVars, dataVars, workerVars, linked, up, agentVars, boundVars>>

\* A send_msg that fails ends send_file_toagent: the agent has no connection, or
\* its queue is still full after the pause of nb_queue (counted as a fault).
SendFails ==
  /\ spc = "contents" \/ (spc = "name" /\ ssum # None)
  /\ \/ ~linked /\ UNCHANGED faults
     \/ Len(down) = SendRoom /\ faults < MaxFaults /\ faults' = faults + 1
  /\ spc' = "dispatched" /\ ssum' = None /\ sread' = 0
  /\ UNCHANGED <<groupVars, dataVars, workerVars, channelVars, agentVars, edits>>

\* "Mark message as dispatched", whatever became of it.
Dispatched ==
  /\ spc = "dispatched"
  /\ changed' = 0
  /\ spc' = "pop"
  /\ UNCHANGED <<groupVars, ssum, sread, message, data_sum, pending_queue, workerVars, channelVars,
                 agentVars, boundVars>>
-----------------------------------------------------------------------------
\* run_notify: the sum is computed once and kept; a file that is gone clears it.
run_notify ==
  /\ linked
  /\ up = <<>>
  /\ cache' = CASE cache = None -> md5sum(disk)
                [] cache # None /\ disk = None -> None
                [] cache # None /\ disk # None -> cache
  /\ up' = <<IF cache' = None THEN NoFile ELSE cache'>>
  /\ UNCHANGED <<groupVars, dataVars, workerVars, senderVars, linked, down, disk, fp,
                 file, file_sum, config, boundVars>>

\* receive_msg takes the next message of the manager.
Receive(type) ==
  /\ down # <<>>
  /\ Head(down).type = type
  /\ down' = Tail(down)
  /\ UNCHANGED <<groupVars, dataVars, workerVars, senderVars, linked, up, boundVars>>

\* FILE_UPDATE_HEADER: the stream of an earlier transfer is closed and the file
\* is opened for writing, which truncates it.
FileUpdate ==
  /\ Receive("update")
  /\ disk' = <<>> /\ fp' = TRUE
  /\ file' = TRUE /\ file_sum' = Head(down).value
  /\ UNCHANGED <<cache, config>>

\* A message without a header is written to the open file, if there is one.
\* (What stdio still buffers is a shorter prefix; the model takes it as written.)
FileChunk ==
  /\ Receive("chunk")
  /\ disk' = IF fp THEN Append(disk, Head(down).value) ELSE disk
  /\ UNCHANGED <<fp, file, file_sum, cache, config>>

\* FILE_CLOSE_HEADER: a file whose sum is not the announced one is deleted, the
\* right one is unpacked.  (One mutant unpacks a file it has not verified, the
\* other keeps the sum it has cached.)
FileClose_unverified ==
  /\ Receive("close")
  /\ config' = IF file THEN disk ELSE config
  /\ cache' = IF file THEN None ELSE cache
  /\ UNCHANGED disk
  /\ fp' = FALSE /\ file' = FALSE /\ file_sum' = None

FileClose_cached ==
  /\ Receive("close")
  /\ LET right == file /\ md5sum(disk) = file_sum
     IN  /\ disk' = IF file /\ ~right THEN None ELSE disk
         /\ config' = IF right THEN disk ELSE config
  /\ fp' = FALSE /\ file' = FALSE /\ file_sum' = None
  /\ UNCHANGED cache

FileClose ==
  /\ Receive("close")
  /\ LET right == file /\ md5sum(disk) = file_sum
     IN  /\ disk' = IF file /\ ~right THEN None ELSE disk
         /\ config' = IF right THEN disk ELSE config
         /\ cache' = IF right THEN None ELSE cache
  /\ fp' = FALSE /\ file' = FALSE /\ file_sum' = None

-----------------------------------------------------------------------------
\* The connection breaks: what is under way is lost.
Break ==
  /\ linked
  /\ faults < MaxFaults
  /\ faults' = faults + 1
  /\ linked' = FALSE /\ down' = <<>> /\ up' = <<>>
  /\ UNCHANGED <<groupVars, dataVars, workerVars, senderVars, agentVars, edits>>

\* The agent stops, at any point (restartAgent after an update, or otherwise);
\* it starts again with what is on its disk.
Restart ==
  /\ faults < MaxFaults
  /\ faults' = faults + 1
  /\ linked' = FALSE /\ down' = <<>> /\ up' = <<>>
  /\ fp' = FALSE /\ file' = FALSE /\ file_sum' = None /\ cache' = None
  /\ UNCHANGED <<groupVars, dataVars, workerVars, senderVars, disk, config, edits>>

\* start_agent: the handshake that gives the agent a connection again.
start_agent ==
  /\ ~linked
  /\ linked' = TRUE
  /\ UNCHANGED <<groupVars, dataVars, workerVars, senderVars, down, up, agentVars,
                 boundVars>>

Scan    == c_group_write \/ c_group_sum
Work(w) == \/ save_controlmsg_repeated(w) \/ save_controlmsg_store(w)
           \/ save_controlmsg_compare(w) \/ save_controlmsg_update(w)
Sender  == Pop \/ SkipSend \/ SendName \/ SendChunk \/ SendClose \/ SendFails \/ Dispatched
receive_msg == FileUpdate \/ FileChunk \/ FileClose

Next ==
  \/ Edit \/ Scan
  \/ \E w \in Worker : Work(w) \/ save_controlmsg_nogroup(w)
  \/ Sender
  \/ run_notify \/ receive_msg
  \/ Break \/ Restart \/ start_agent

Spec == Init /\ [][Next]_vars

\* The threads keep running, of the workers at least one that can; the agent keeps
\* notifying and receiving.  Nothing is assumed of edits, faults and restarts.
Fairness ==
  /\ WF_vars(Scan) /\ WF_vars(Sender)
  /\ WF_vars(\E w \in Worker : Work(w))
  /\ WF_vars(run_notify) /\ WF_vars(receive_msg) /\ WF_vars(start_agent)

FairSpec == Spec /\ Fairness
-----------------------------------------------------------------------------
\* The sums an agent may report, and what the manager may send.
Sum     == Version \cup {NoFile, Other}
Chunk   == Version \X (1 .. Chunks)
Message == [type : {"update"}, value : Version] \cup [type : {"chunk"}, value : Chunk]
             \cup [type : {"close"}, value : {None}]

GroupType ==
  /\ files \in Version /\ building \in Version \cup {None}
  /\ mfile \in Seq(Chunk) /\ merged_sum \in Version

DataType ==
  /\ message \in Sum \cup {None} /\ data_sum \in Version \cup {None}
  /\ changed \in {0, 1} /\ pending_queue \in Nat

WorkerType ==
  /\ wpc \in [Worker -> {"idle", "compare", "update"}]
  /\ wsum \in [Worker -> Sum \cup {None}]
  /\ wstatus \in [Worker -> {None, "synced", "not_synced"}]
  /\ \A w \in Worker : wpc[w] = "update" => wstatus[w] \in {"synced", "not_synced"}
  /\ group_config_status \in {"synced", "not_synced"}

SenderType ==
  /\ spc \in {"pop", "name", "contents", "dispatched"}
  /\ ssum \in Version \cup {None} /\ sread \in Nat

ChannelType ==
  /\ linked \in BOOLEAN
  /\ down \in Seq(Message) /\ Len(down) <= SendRoom
  /\ up \in Seq(Sum) /\ Len(up) <= 1

AgentType ==
  /\ disk \in {None} \cup Seq(Chunk) /\ config \in {None} \cup Seq(Chunk)
  /\ fp \in BOOLEAN /\ file \in BOOLEAN
  /\ fp => file /\ disk \in Seq(Chunk)
  /\ file_sum \in Version \cup {None} /\ (file => file_sum \in Version)
  /\ cache \in Sum \cup {None}

BoundType == edits \in 0 .. MaxEdits /\ faults \in 0 .. MaxFaults

\* Every variable keeps its type; the sums the manager announces are sums of
\* versions, and a file that is open at the agent has a name and a sum.
TypeOK ==
  /\ GroupType /\ DataType /\ WorkerType /\ SenderType /\ ChannelType /\ AgentType
  /\ BoundType

\* The flag and the queue agree: the agent is marked as changed exactly while it
\* is queued, once, or being served, however the workers of save_controlmsg and
\* wait_for_msgs interleave; two transfers of one agent never overlap.
AtMostOneTransfer ==
  pending_queue + (IF spc = "pop" THEN 0 ELSE 1) = changed

\* What the agent unpacks is one whole version of the group's file, although the
\* file may be rewritten while it is sent, and its transfer cut and begun again.
WholeVersionInstalled ==
  config \in {None} \cup {Content(v) : v \in Version}

\* No transfer is due or under way.
Quiet == spc = "pop" /\ pending_queue = 0 /\ down = <<>>

\* Once the files of the group rest, the faults end and the keep-alives do not
\* fall into transfers any more, the manager gets the agent to report the sum of
\* the group's file, and records it as synced: no interleaving leaves the flag
\* set, the sum stale or the status behind.  The premise is needed: run_notify
\* may take the sum of a file that is half written, which asks for one more
\* transfer, and so on for ever if the next keep-alive falls into that one.
SyncConverges ==
  <>[][run_notify => Quiet]_vars => <>[](data_sum = files /\ group_config_status = "synced")

\* group_config_status is the "Agent groups configuration sync status": in the
\* long run, an agent recorded as synced has unpacked the group's file.
SyncedMeansInstalled ==
  <>[](group_config_status = "synced" => config = Content(files))
=============================================================================
