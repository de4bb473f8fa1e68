------------------------- MODULE SharedConfigProofs -------------------------
(***************************************************************************)
(* Proofs about SharedConfig, for any number of workers, versions, chunks,  *)
(* edits and faults: transfers to an agent do not overlap, only whole       *)
(* versions are unpacked, and only a stop leaves one that is not unpacked.  *)
(***************************************************************************)
EXTENDS SharedConfig, TLAPS

\* The file of a version is a sequence of chunks.
LEMMA ContentType == \A v \in Version : Content(v) \in Seq(Chunk)
<1>1. TAKE v \in Version
<1>2. Chunks \in Nat
  BY SharedConfigAssumption
<1>3. \A k \in 1 .. Chunks : <<v, k>> \in Chunk
  BY DEF Chunk
<1> QED BY <1>2, <1>3 DEF Content

\* A sum is the sum of a version only if the file is that of a version.
LEMMA SumType ==
  ASSUME NEW f
  PROVE  /\ md5sum(f) \in Sum
         /\ md5sum(f) \in Version => \E v \in Version : f = Content(v)
<1>1. CASE f = None
  BY <1>1, SharedConfigAssumption DEF md5sum, Sum
<1>2. CASE f # None /\ \E v \in Version : f = Content(v)
  <2>1. md5sum(f) = CHOOSE v \in Version : f = Content(v)
    BY <1>2 DEF md5sum
  <2> QED BY <1>2, <2>1 DEF Sum
<1>3. CASE f # None /\ ~ \E v \in Version : f = Content(v)
  <2>1. md5sum(f) = Other
    BY <1>3 DEF md5sum
  <2> QED BY <2>1, SharedConfigAssumption DEF Sum
<1> QED BY <1>1, <1>2, <1>3

\* A message at the head of the queue has its type, and the rest is a queue.
LEMMA HeadTail ==
  ASSUME NEW S, NEW q \in Seq(S), q # <<>>
  PROVE  Head(q) \in S /\ Tail(q) \in Seq(S) /\ Len(Tail(q)) < Len(q)
OBVIOUS

\* A queue with one element more.
LEMMA AppendType ==
  ASSUME NEW S, NEW q \in Seq(S), NEW x \in S
  PROVE  Append(q, x) \in Seq(S) /\ Len(Append(q, x)) = Len(q) + 1
OBVIOUS

\* The three properties together are inductive.
IInv == TypeOK /\ AtMostOneTransfer /\ WholeVersionInstalled

\* Agent and manager start with the first version.
LEMMA InitInvariant == Init => IInv
<1> SUFFICES ASSUME Init PROVE IInv
  OBVIOUS
<1> USE SharedConfigAssumption DEF Init
<1>1. GroupType /\ DataType /\ SenderType /\ BoundType
  BY ContentType DEF GroupType, DataType, SenderType, BoundType
<1>2. WorkerType
  BY DEF WorkerType
<1>3. ChannelType
  BY DEF ChannelType
<1>4. AgentType
  BY Zenon DEF AgentType
<1> QED BY <1>1, <1>2, <1>3, <1>4 DEF IInv, TypeOK, AtMostOneTransfer, WholeVersionInstalled

\* A part of the state that a step leaves alone keeps its type.
LEMMA TypeKept ==
  /\ GroupType /\ UNCHANGED groupVars => GroupType'
  /\ DataType /\ UNCHANGED dataVars => DataType'
  /\ WorkerType /\ UNCHANGED workerVars => WorkerType'
  /\ SenderType /\ UNCHANGED senderVars => SenderType'
  /\ ChannelType /\ UNCHANGED channelVars => ChannelType'
  /\ AgentType /\ UNCHANGED agentVars => AgentType'
  /\ BoundType /\ UNCHANGED boundVars => BoundType'
<1>1. GroupType /\ UNCHANGED groupVars => GroupType'
  BY DEF GroupType, groupVars
<1>2. DataType /\ UNCHANGED dataVars => DataType'
  BY DEF DataType, dataVars
<1>3. WorkerType /\ UNCHANGED workerVars => WorkerType'
  BY DEF WorkerType, workerVars
<1>4. SenderType /\ UNCHANGED senderVars => SenderType'
  BY DEF SenderType, senderVars
<1>5. ChannelType /\ UNCHANGED channelVars => ChannelType'
  BY DEF ChannelType, channelVars
<1>6. AgentType /\ UNCHANGED agentVars => AgentType'
  BY DEF AgentType, agentVars
<1>7. BoundType /\ UNCHANGED boundVars => BoundType'
  BY DEF BoundType, boundVars
<1> QED BY <1>1, <1>2, <1>3, <1>4, <1>5, <1>6, <1>7

\* The other two properties, likewise.
LEMMA TransferKept ==
  ASSUME AtMostOneTransfer, UNCHANGED <<pending_queue, changed, spc>>
  PROVE  AtMostOneTransfer'
BY DEF AtMostOneTransfer

\* Who does not unpack a file leaves what is installed.
LEMMA ConfigKept ==
  ASSUME WholeVersionInstalled, config' = config
  PROVE  WholeVersionInstalled'
BY DEF WholeVersionInstalled, Content
-----------------------------------------------------------------------------
\* Edits of the group's files and their scan.
LEMMA GroupSteps ==
  ASSUME IInv, Edit \/ Scan
  PROVE  IInv'
<1> USE DEF IInv, TypeOK
<1>1. UNCHANGED <<dataVars, workerVars, senderVars, channelVars, agentVars>>
  BY DEF Edit, Scan, c_group_write, c_group_sum
<1>2. GroupType' /\ BoundType'
  <2>1. CASE Edit
    BY <2>1, SharedConfigAssumption DEF Edit, GroupType, BoundType
  <2>2. CASE c_group_write
    BY <2>2 DEF c_group_write, GroupType, BoundType, boundVars
  <2>3. CASE c_group_sum
    <3>1. building \in Version
      BY <2>3 DEF c_group_sum, GroupType
    <3> QED BY <2>3, <3>1, ContentType DEF c_group_sum, GroupType, BoundType, boundVars
  <2> QED BY <2>1, <2>2, <2>3 DEF Scan
<1>3. TypeOK'
  BY <1>1, <1>2, TypeKept
<1>4. AtMostOneTransfer' /\ WholeVersionInstalled'
  BY <1>1, TransferKept, ConfigKept DEF dataVars, senderVars, agentVars
<1> QED BY <1>3, <1>4

\* The workers: only the comparison touches the flag and the queue, and it queues
\* the agent only if the flag is not set.
LEMMA WorkerSteps ==
  ASSUME IInv, NEW w \in Worker, Work(w) \/ save_controlmsg_nogroup(w)
  PROVE  IInv'
<1> USE DEF IInv, TypeOK
<1>1. UNCHANGED <<groupVars, senderVars, agentVars>>
  BY DEF Work, save_controlmsg_repeated, save_controlmsg_store, save_controlmsg_nogroup,
         Store, save_controlmsg_compare, save_controlmsg_update
<1>2. CASE save_controlmsg_repeated(w)
  <2>1. UNCHANGED <<dataVars, workerVars, boundVars>>
    BY <1>2 DEF save_controlmsg_repeated
  <2>2. ChannelType'
    BY <1>2, HeadTail DEF save_controlmsg_repeated, ChannelType
  <2> QED BY <1>1, <2>1, <2>2, TypeKept, TransferKept, ConfigKept
          DEF dataVars, senderVars, agentVars
<1>3. CASE save_controlmsg_store(w) \/ save_controlmsg_nogroup(w)
  <2>1. PICK sum \in Version \cup {None} : Store(w, sum)
    BY <1>3 DEF save_controlmsg_store, save_controlmsg_nogroup, GroupType
  <2>2. Head(up) \in Sum /\ Tail(up) \in Seq(Sum) /\ Len(Tail(up)) < Len(up)
    BY <2>1, HeadTail DEF Store, ChannelType
  <2>3. ChannelType'
    BY <2>1, <2>2 DEF Store, ChannelType
  <2>4. DataType'
    BY <2>1, <2>2 DEF Store, DataType
  <2>5. WorkerType'
    BY <2>1, <2>2 DEF Store, WorkerType
  <2>6. BoundType'
    BY <1>3, <2>1, SharedConfigAssumption
       DEF save_controlmsg_store, save_controlmsg_nogroup, Store, BoundType
  <2>7. UNCHANGED <<pending_queue, changed>>
    BY <2>1 DEF Store
  <2> QED BY <1>1, <2>3, <2>4, <2>5, <2>6, <2>7, TypeKept, TransferKept, ConfigKept
          DEF senderVars, agentVars
<1>4. CASE save_controlmsg_compare(w)
  <2>1. UNCHANGED <<channelVars, boundVars>>
    BY <1>4 DEF save_controlmsg_compare
  <2>2. DataType'
    BY <1>4 DEF save_controlmsg_compare, DataType
  <2>3. WorkerType'
    BY <1>4 DEF save_controlmsg_compare, WorkerType
  <2>4. AtMostOneTransfer'
    BY <1>1, <1>4 DEF save_controlmsg_compare, AtMostOneTransfer, DataType, senderVars
  <2> QED BY <1>1, <2>1, <2>2, <2>3, <2>4, TypeKept, ConfigKept DEF agentVars
<1>5. CASE save_controlmsg_update(w)
  <2>1. UNCHANGED <<dataVars, channelVars, boundVars>>
    BY <1>5 DEF save_controlmsg_update
  <2>2. WorkerType'
    BY <1>5 DEF save_controlmsg_update, WorkerType
  <2> QED BY <1>1, <2>1, <2>2, TypeKept, TransferKept, ConfigKept
          DEF dataVars, senderVars, agentVars
<1> QED BY <1>2, <1>3, <1>4, <1>5 DEF Work

\* The sender: it takes the agent out of the queue and drops the flag when it has
\* done with it.
LEMMA SenderSteps ==
  ASSUME IInv, Sender
  PROVE  IInv'
<1> USE DEF IInv, TypeOK
<1>1. UNCHANGED <<groupVars, workerVars, agentVars>>
  BY DEF Sender, Pop, SkipSend, SendName, SendChunk, SendClose, SendFails, Dispatched
<1>2. DataType' /\ SenderType' /\ BoundType'
  <2>1. CASE Pop
    BY <2>1 DEF Pop, DataType, SenderType, BoundType, boundVars
  <2>2. CASE SkipSend \/ SendName \/ SendClose
    BY <2>2 DEF SkipSend, SendName, SendClose, DataType, SenderType, BoundType,
                dataVars, boundVars
  <2>3. CASE SendChunk
    BY <2>3 DEF SendChunk, DataType, SenderType, BoundType, dataVars, boundVars
  <2>4. CASE SendFails
    BY <2>4, SharedConfigAssumption DEF SendFails, DataType, SenderType, BoundType, dataVars
  <2>5. CASE Dispatched
    BY <2>5 DEF Dispatched, DataType, SenderType, BoundType, boundVars
  <2> QED BY <2>1, <2>2, <2>3, <2>4, <2>5 DEF Sender
<1>3. ChannelType'
  <2>1. CASE UNCHANGED channelVars
    BY <2>1, TypeKept
  <2>2. ASSUME NEW m \in Message, CanSend, down' = Append(down, m), UNCHANGED <<linked, up>>
        PROVE  ChannelType'
    BY <2>2, AppendType, SharedConfigAssumption DEF CanSend, ChannelType
  <2>3. CASE SendName
    <3>1. ssum \in Version
      BY <2>3 DEF SendName, SenderType
    <3>2. [type |-> "update", value |-> ssum] \in Message
      BY <3>1 DEF Message
    <3> QED BY <2>2, <2>3, <3>2 DEF SendName
  <2>4. CASE SendChunk
    <3>1. mfile[sread + 1] \in Chunk
      BY <2>4 DEF SendChunk, GroupType, SenderType
    <3>2. [type |-> "chunk", value |-> mfile[sread + 1]] \in Message
      BY <3>1 DEF Message
    <3> QED BY <2>2, <2>4, <3>2 DEF SendChunk
  <2>5. CASE SendClose
    <3>1. [type |-> "close", value |-> None] \in Message
      BY DEF Message
    <3> QED BY <2>2, <2>5, <3>1 DEF SendClose
  <2> QED BY <2>1, <2>3, <2>4, <2>5 DEF Sender, Pop, SkipSend, SendFails, Dispatched
<1>4. AtMostOneTransfer'
  BY DEF Sender, Pop, SkipSend, SendName, SendChunk, SendClose, SendFails, Dispatched,
         AtMostOneTransfer, DataType, dataVars
<1> QED BY <1>1, <1>2, <1>3, <1>4, TypeKept, ConfigKept DEF agentVars

\* The agent: what it unpacks has the sum it was announced, which is the sum of a
\* version.
LEMMA AgentSteps ==
  ASSUME IInv, run_notify \/ receive_msg
  PROVE  IInv'
<1> USE DEF IInv, TypeOK
<1>1. UNCHANGED <<groupVars, dataVars, workerVars, senderVars, boundVars>>
  BY DEF run_notify, receive_msg, FileUpdate, FileChunk, FileClose, Receive
<1>2. AtMostOneTransfer'
  BY <1>1, TransferKept DEF dataVars, senderVars
<1>3. CASE run_notify
  <2>1. cache' \in Sum \cup {None}
    BY <1>3, SumType DEF run_notify, AgentType
  <2>2. UNCHANGED <<disk, fp, file, file_sum, config>>
    BY <1>3 DEF run_notify
  <2>3. AgentType'
    BY <2>1, <2>2 DEF AgentType
  <2>4. up' \in Seq(Sum) /\ Len(up') <= 1
    BY <1>3, <2>1 DEF run_notify, Sum
  <2>5. ChannelType'
    BY <1>3, <2>4 DEF run_notify, ChannelType
  <2> QED BY <1>1, <1>2, <2>2, <2>3, <2>5, TypeKept, ConfigKept
<1>4. CASE receive_msg
  <2>1. PICK type : Receive(type)
    BY <1>4 DEF receive_msg, FileUpdate, FileChunk, FileClose
  <2>2. Head(down) \in Message /\ Tail(down) \in Seq(Message) /\ Len(Tail(down)) < Len(down)
    BY <2>1, HeadTail DEF Receive, ChannelType
  <2>3. ChannelType'
    BY <2>1, <2>2, SharedConfigAssumption DEF Receive, ChannelType
  <2>4. AgentType' /\ WholeVersionInstalled'
    <3>1. CASE FileUpdate
      <4>1. Head(down).value \in Version
        BY <2>2, <3>1 DEF FileUpdate, Receive, Message
      <4>2. disk' = <<>> /\ fp' /\ file' /\ file_sum' \in Version /\ UNCHANGED <<cache, config>>
        BY <3>1, <4>1 DEF FileUpdate
      <4>3. AgentType'
        BY <3>1, <4>2 DEF FileUpdate, AgentType
      <4> QED BY <4>2, <4>3, ConfigKept
    <3>2. CASE FileChunk
      <4>1. Head(down).value \in Chunk
        BY <2>2, <3>2 DEF FileChunk, Receive, Message
      <4>2. UNCHANGED <<fp, file, file_sum, cache, config>>
        BY <3>2 DEF FileChunk
      <4>3. disk' \in {None} \cup Seq(Chunk) /\ (fp => disk' \in Seq(Chunk))
        <5>1. CASE fp
          <6>1. disk \in Seq(Chunk) /\ disk' = Append(disk, Head(down).value)
            BY <3>2, <5>1 DEF FileChunk, AgentType
          <6> QED BY <4>1, <6>1, AppendType
        <5>2. CASE ~fp
          BY <3>2, <5>2 DEF FileChunk, AgentType
        <5> QED BY <5>1, <5>2
      <4>4. AgentType'
        BY <4>2, <4>3 DEF AgentType
      <4> QED BY <4>2, <4>4, ConfigKept
    <3>3. CASE FileClose
      <4> DEFINE right == file /\ md5sum(disk) = file_sum
      <4>1. /\ disk' = IF file /\ ~right THEN None ELSE disk
            /\ config' = IF right THEN disk ELSE config
            /\ cache' = IF right THEN None ELSE cache
            /\ ~fp' /\ ~file' /\ fp' \in BOOLEAN /\ file' \in BOOLEAN /\ file_sum' = None
        BY <3>3, ZenonT(30) DEF FileClose
      <4>2. right => \E v \in Version : disk = Content(v)
        BY SumType DEF AgentType
      <4>3. WholeVersionInstalled'
        <5>1. CASE right
          <6>1. config' \in {Content(v) : v \in Version}
            BY <4>1, <4>2, <5>1
          <6> QED BY <6>1 DEF WholeVersionInstalled, Content
        <5>2. CASE ~right
          BY <4>1, <5>2, ConfigKept
        <5> QED BY <5>1, <5>2
      <4>4. disk' \in {None} \cup Seq(Chunk) /\ config' \in {None} \cup Seq(Chunk)
        BY <4>1 DEF AgentType
      <4>5. cache' \in Sum \cup {None}
        BY <4>1 DEF AgentType
      <4> HIDE DEF right
      <4>6. AgentType'
        BY <4>1, <4>4, <4>5 DEF AgentType
      <4> QED BY <4>3, <4>6
    <3> QED BY <1>4, <3>1, <3>2, <3>3 DEF receive_msg
  <2> QED BY <1>1, <1>2, <2>3, <2>4, TypeKept
<1> QED BY <1>3, <1>4

\* The faults: what is on the disk and unpacked stays; the open file is forgotten.
LEMMA FaultSteps ==
  ASSUME IInv, Break \/ Restart \/ start_agent
  PROVE  IInv'
<1> USE DEF IInv, TypeOK
<1>1. UNCHANGED <<groupVars, dataVars, workerVars, senderVars, disk, config>>
  BY DEF Break, Restart, start_agent, agentVars
<1>2. ChannelType'
  <2>1. linked' \in BOOLEAN
    BY ZenonT(30) DEF Break, Restart, start_agent
  <2>2. UNCHANGED <<down, up>> \/ (down' = <<>> /\ up' = <<>>)
    BY DEF Break, Restart, start_agent
  <2>3. CASE UNCHANGED <<down, up>>
    BY <2>1, <2>3 DEF ChannelType
  <2>4. CASE down' = <<>> /\ up' = <<>>
    <3>1. down' \in Seq(Message) /\ Len(down') = 0 /\ up' \in Seq(Sum) /\ Len(up') = 0
      BY <2>4
    <3> QED BY <2>1, <3>1, SharedConfigAssumption DEF ChannelType
  <2> QED BY <2>2, <2>3, <2>4
<1>3. AgentType'
  <2>1. CASE UNCHANGED agentVars
    BY <2>1, TypeKept
  <2>2. CASE Restart
    <3>1. ~fp' /\ ~file' /\ fp' \in BOOLEAN /\ file' \in BOOLEAN
      BY <2>2, ZenonT(30) DEF Restart
    <3>2. file_sum' = None /\ cache' = None
      BY <2>2 DEF Restart
    <3> QED BY <1>1, <3>1, <3>2 DEF AgentType
  <2> QED BY <2>1, <2>2 DEF Break, start_agent
<1>4. BoundType'
  BY SharedConfigAssumption DEF Break, Restart, start_agent, BoundType, boundVars
<1> QED BY <1>1, <1>2, <1>3, <1>4, TypeKept, TransferKept, ConfigKept
        DEF dataVars, senderVars

\* Every step keeps the invariant.
LEMMA StepInvariant == IInv /\ [Next]_vars => IInv'
<1> SUFFICES ASSUME IInv, [Next]_vars PROVE IInv'
  OBVIOUS
<1>1. CASE UNCHANGED vars
  <2>1. UNCHANGED <<groupVars, dataVars, workerVars, senderVars, channelVars, agentVars,
                    boundVars>>
    BY <1>1 DEF vars
  <2>2. UNCHANGED <<pending_queue, changed, spc, config>>
    BY <2>1 DEF dataVars, senderVars, agentVars
  <2> QED BY <2>1, <2>2, TypeKept, TransferKept, ConfigKept DEF IInv, TypeOK
<1> QED BY <1>1, GroupSteps, WorkerSteps, SenderSteps, AgentSteps, FaultSteps DEF Next

\* The invariant holds in every behaviour.
LEMMA Invariance == Spec => []IInv
BY InitInvariant, StepInvariant, PTL DEF Spec
-----------------------------------------------------------------------------
\* The tables of save_controlmsg, the send queue and the statics of receive_msg
\* keep their types, whatever the number of workers, versions and chunks.
THEOREM TypeCorrect == Spec => []TypeOK
<1>1. IInv => TypeOK
  BY DEF IInv
<1> QED BY <1>1, Invariance, PTL

\* However many workers run save_controlmsg against wait_for_msgs, the flag
\* data->changed is set exactly while the agent is queued, once, or being served.
THEOREM OneTransfer == Spec => []AtMostOneTransfer
<1>1. IInv => AtMostOneTransfer
  BY DEF IInv
<1> QED BY <1>1, Invariance, PTL

\* The agent never unpacks anything but a whole version of the group's file,
\* however often merged.mg is rewritten and the transfer is cut or begun again.
THEOREM WholeVersions == Spec => []WholeVersionInstalled
<1>1. IInv => WholeVersionInstalled
  BY DEF IInv
<1> QED BY <1>1, Invariance, PTL

\* What lies on the agent's disk with no transfer open is what it has unpacked.
Unpacked == fp \/ disk = None \/ config = disk

\* Only a stop of the agent leaves a file on its disk that it has not unpacked: no
\* step of the transfer does, nor the end of the connection in the middle of one.
OnlyStopLeavesPacked == [][Unpacked /\ ~Restart => Unpacked']_vars

\* FILE_CLOSE_HEADER unpacks the file or deletes it.
LEMMA CloseUnpacks ==
  ASSUME TypeOK, Unpacked, FileClose
  PROVE  Unpacked'
<1>1. CASE file /\ md5sum(disk) = file_sum
  BY <1>1 DEF FileClose, Unpacked
<1>2. CASE file /\ md5sum(disk) # file_sum
  BY <1>2 DEF FileClose, Unpacked
<1>3. CASE ~file
  <2>1. ~fp /\ disk' = disk /\ config' = config
    BY <1>3, ZenonT(30) DEF FileClose, TypeOK, AgentType
  <2> QED BY <2>1, ZenonT(30) DEF Unpacked
<1> QED BY <1>1, <1>2, <1>3, ZenonT(30)

\* The state that SyncedMeansInstalled fails from, the new file on the disk and the
\* old configuration in place, is left behind by a stop of the agent in the middle of
\* a transfer, before the close message of receive_msg, and by nothing else.
THEOREM StopLeavesPacked == Spec => OnlyStopLeavesPacked
<1>1. IInv /\ [Next]_vars => [Unpacked /\ ~Restart => Unpacked']_vars
  <2> SUFFICES ASSUME IInv, [Next]_vars, Unpacked, ~Restart PROVE Unpacked'
    BY ZenonT(30)
  <2>1. CASE UNCHANGED agentVars
    BY <2>1 DEF Unpacked, agentVars
  <2>2. CASE FileUpdate
    BY <2>2, ZenonT(30) DEF FileUpdate, Unpacked
  <2>3. CASE FileChunk
    <3>1. fp' = fp /\ config' = config /\ (~fp => disk' = disk)
      BY <2>3, ZenonT(30) DEF FileChunk
    <3> QED BY <3>1, ZenonT(30) DEF Unpacked
  <2>4. CASE FileClose
    BY <2>4, CloseUnpacks DEF IInv
  <2>5. CASE run_notify
    BY <2>5, ZenonT(30) DEF run_notify, Unpacked
  <2>6. Edit \/ Scan \/ (\E w \in Worker : Work(w) \/ save_controlmsg_nogroup(w)) \/ Sender
          \/ Break \/ start_agent \/ UNCHANGED vars => UNCHANGED agentVars
    <3>1. Edit \/ Scan \/ Break \/ start_agent \/ UNCHANGED vars => UNCHANGED agentVars
      BY DEF Edit, Scan, c_group_write, c_group_sum, Break, start_agent, vars
    <3>2. ASSUME NEW w \in Worker, Work(w) \/ save_controlmsg_nogroup(w)
          PROVE  UNCHANGED agentVars
      BY <3>2 DEF Work, save_controlmsg_repeated, save_controlmsg_store,
                  save_controlmsg_nogroup, Store, save_controlmsg_compare, save_controlmsg_update
    <3>3. Sender => UNCHANGED agentVars
      BY DEF Sender, Pop, SkipSend, SendName, SendChunk, SendClose, SendFails, Dispatched
    <3> QED BY <3>1, <3>2, <3>3, ZenonT(30)
  <2> QED BY <2>1, <2>2, <2>3, <2>4, <2>5, <2>6, ZenonT(30) DEF Next, receive_msg
<1> QED BY <1>1, Invariance, PTL DEF Spec, OnlyStopLeavesPacked
=============================================================================
