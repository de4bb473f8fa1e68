------------------------- MODULE ConnectionsProofs -------------------------
(***************************************************************************)
(* The count of the sessions of remoted, for any number of agents,         *)
(* descriptors and workers, any length of the queue, and any number of     *)
(* faults and races; and the entries of its key store, of which a reload   *)
(* frees none that is in use.                                              *)
(*                                                                         *)
(* The count is that of two sets: the descriptors that are open, and the   *)
(* threads that have closed one and have yet to count it.  Accept adds to  *)
(* the first, Close moves one from the first to the second, CloseBuffers   *)
(* takes one from the second; no other step changes either.                *)
(***************************************************************************)
EXTENDS Connections, FiniteSetTheorems, SequenceTheorems, TLAPS

Pc == {"idle", "check", "store", "add", "delete", "close", "nb"}
ThreadRecord ==
  [pc : Pc, msg : Message \union {None}, idle : Fd \union {None}, todo : Seq(Fd)]

\* The two sets that are counted.
OpenFds == {fd \in Fd : conn[fd] # None}
Counting == {t \in Thread : th[t].pc = "nb"}

\* The types, by part.
ConnType == conn \in [Fd -> Peer \union {None}]
QueueType == queue \in Seq(Message) /\ Len(queue) <= QueueSize
ThreadType == th \in [Thread -> ThreadRecord]
RestType ==
  /\ buf \subseteq Fd
  /\ known \subseteq Agent /\ file \subseteq Agent /\ idle \subseteq Agent
  /\ sock \in [Agent -> Fd \union {None}] /\ tree \in [Fd -> Agent \union {None}]
  /\ reload \in BOOLEAN /\ faults \in 0..MaxFaults /\ races \in 0..MaxRaces

\* A thread that closes has a descriptor to close; a worker with a message has one.
ThreadsBusy ==
  \A t \in Thread :
    /\ th[t].pc \in {"delete", "close", "nb"} => th[t].todo # <<>>
    /\ th[t].pc \in {"check", "store", "add"} => th[t].msg \in Message

\* The count of sessions is the size of the two sets.
Counted == tcp = Cardinality(OpenFds) + Cardinality(Counting)

\* The inductive invariant.
IInv == ConnType /\ QueueType /\ ThreadType /\ RestType /\ ThreadsBusy /\ Counted

\* Both sets are finite, and no larger than the descriptors and the threads.
LEMMA SetsFinite ==
  /\ IsFiniteSet(OpenFds) /\ IsFiniteSet(Counting)
  /\ Cardinality(OpenFds) \in 0..Cardinality(Fd) /\ Cardinality(Counting) \in 0..Cardinality(Thread)
  /\ Cardinality(Fd) \in Nat /\ Cardinality(Thread) \in Nat
<1>1. IsFiniteSet(Fd) /\ IsFiniteSet(Thread)
  BY ConnectionsAssumption, FS_Singleton, FS_Union, ZenonT(30) DEF Thread
<1>2. OpenFds \subseteq Fd /\ Counting \subseteq Thread
  BY DEF OpenFds, Counting
<1>3. IsFiniteSet(OpenFds) /\ Cardinality(OpenFds) <= Cardinality(Fd)
  BY <1>1, <1>2, FS_Subset
<1>4. IsFiniteSet(Counting) /\ Cardinality(Counting) <= Cardinality(Thread)
  BY <1>1, <1>2, FS_Subset
<1> QED BY <1>1, <1>3, <1>4, FS_CardinalityType

\* The invariant is the property with the types that the proof needs.
LEMMA InvImplies == IInv => SessionsCounted
<1> SUFFICES ASSUME IInv PROVE SessionsCounted
  OBVIOUS
<1>1. tcp \in 0..(Cardinality(Fd) + Cardinality(Thread))
  BY SetsFinite DEF IInv, Counted
<1>2. \A t \in Thread : th[t] \in ThreadRecord /\ th[t].todo \in Seq(Fd)
  BY DEF IInv, ThreadType, ThreadRecord
<1>3. \A t \in Thread : \A k \in DOMAIN th[t].todo : th[t].todo[k] \in Fd
  BY <1>2, LenProperties, ElementOfSeq
<1>4. \A t \in Thread : /\ th[t].pc \in Pc /\ th[t].msg \in Message \union {None}
                        /\ th[t].idle \in Fd \union {None}
  BY <1>2 DEF ThreadRecord
<1>5. TypeOK
  BY <1>1, <1>3, <1>4 DEF TypeOK, IInv, ConnType, QueueType, RestType, Pc
<1> QED BY <1>5 DEF SessionsCounted, IInv, Counted, OpenFds, Counting

\* No connection, no thread at work.
LEMMA InitInv == Init => IInv
<1> SUFFICES ASSUME Init PROVE IInv
  OBVIOUS
<1>1. AtRest \in ThreadRecord
  BY EmptySeq DEF AtRest, ThreadRecord, Pc
<1>2. ConnType
  BY DEF Init, ConnType
<1>8. RestType
  <2>1. faults \in 0..MaxFaults /\ races \in 0..MaxRaces
    BY ConnectionsAssumption DEF Init
  <2> QED BY <2>1, ZenonT(30) DEF Init, RestType
<1>3. QueueType
  BY ConnectionsAssumption, EmptySeq DEF Init, QueueType
<1>4. ThreadType
  BY <1>1 DEF Init, ThreadType
<1>5. ThreadsBusy
  BY DEF Init, ThreadsBusy, AtRest
<1>6. OpenFds = {} /\ Counting = {}
  BY DEF Init, OpenFds, Counting, AtRest
<1>7. Counted
  BY <1>6, FS_EmptySet DEF Init, Counted
<1> QED BY <1>2, <1>3, <1>4, <1>5, <1>7, <1>8 DEF IInv

(***************************************************************************)
(* The count                                                               *)
(***************************************************************************)

\* A step that changes neither of the sets.
LEMMA SameCount ==
  ASSUME IInv, tcp' = tcp, OpenFds' = OpenFds, Counting' = Counting
  PROVE  Counted'
BY DEF IInv, Counted

\* Connections change only their sides.
LEMMA SameOpen ==
  ASSUME IInv, \A fd \in Fd : conn'[fd] = None <=> conn[fd] = None
  PROVE  OpenFds' = OpenFds
BY DEF OpenFds

(***************************************************************************)
(* The queue and the threads                                               *)
(***************************************************************************)

\* A message stays a message when its descriptor is closed.
LEMMA AgedType ==
  ASSUME NEW fd, NEW m
  PROVE  /\ m \in Message => Aged(m, fd) \in Message
         /\ m \in Message \union {None} => Aged(m, fd) \in Message \union {None}
BY ZenonT(30) DEF Aged, Message

\* So does the queue of messages, and its length.
LEMMA AgedSeqType ==
  ASSUME NEW fd, NEW q \in Seq(Message)
  PROVE  /\ [k \in DOMAIN q |-> Aged(q[k], fd)] \in Seq(Message)
         /\ Len([k \in DOMAIN q |-> Aged(q[k], fd)]) = Len(q)
<1> DEFINE p == [k \in DOMAIN q |-> Aged(q[k], fd)]
<1>1. Len(q) \in Nat /\ DOMAIN q = 1..Len(q)
  BY LenProperties
<1>2. \A k \in 1..Len(q) : q[k] \in Message
  BY ElementOfSeq
<1>3. p \in [1..Len(q) -> Message]
  BY <1>1, <1>2, AgedType
<1>4. p \in Seq(Message)
  BY <1>1, <1>3, SeqDef
<1>5. Len(p) \in Nat /\ DOMAIN p = 1..Len(p)
  BY <1>4, LenProperties
<1>6. 1..Len(p) = 1..Len(q)
  BY <1>1, <1>5
<1>7. Len(p) = Len(q)
  BY <1>1, <1>5, <1>6
<1> QED BY <1>4, <1>7

\* Thread t begins to close the descriptors todo, or comes to rest.
LEMMA ClosingSafe ==
  ASSUME IInv, NEW t \in Thread, NEW todo \in Seq(Fd), Closing(t, todo)
  PROVE  /\ QueueType' /\ ThreadType' /\ ThreadsBusy'
         /\ Counting' = Counting \ {t}
<1>1. AtRest \in ThreadRecord /\ AtRest.pc = "idle"
  BY EmptySeq DEF AtRest, ThreadRecord, Pc
<1>2. CASE todo = <<>>
  <2>1. queue' = queue /\ th' = [th EXCEPT ![t] = AtRest]
    BY <1>2 DEF Closing
  <2>2. ThreadType'
    BY <1>1, <2>1 DEF IInv, ThreadType
  <2>3. QueueType'
    BY <2>1 DEF IInv, QueueType
  <2>4. \A u \in Thread : th'[u] = IF u = t THEN AtRest ELSE th[u]
    BY <2>1 DEF IInv, ThreadType
  <2> QED BY <1>1, <2>2, <2>3, <2>4 DEF IInv, ThreadsBusy, Counting
<1>3. CASE todo # <<>>
  <2> DEFINE fd == Head(todo)
             r == [AtRest EXCEPT !.pc = "delete", !.todo = todo]
  <2>1. /\ queue' = AgedQueue(fd)
        /\ th' = [u \in Thread |-> IF u = t THEN r ELSE [th[u] EXCEPT !.msg = Aged(@, fd)]]
    BY <1>3 DEF Closing
  <2>2. r \in ThreadRecord /\ r.pc = "delete" /\ r.todo = todo
    BY <1>1, ZenonT(30) DEF AtRest, ThreadRecord, Pc
  <2>3. ASSUME NEW u \in Thread
        PROVE  /\ [th[u] EXCEPT !.msg = Aged(@, fd)] \in ThreadRecord
               /\ [th[u] EXCEPT !.msg = Aged(@, fd)].pc = th[u].pc
               /\ [th[u] EXCEPT !.msg = Aged(@, fd)].todo = th[u].todo
               /\ [th[u] EXCEPT !.msg = Aged(@, fd)].msg = Aged(th[u].msg, fd)
    <3>1. th[u] \in ThreadRecord
      BY DEF IInv, ThreadType
    <3> QED BY <3>1, AgedType DEF ThreadRecord
  <2> HIDE DEF r, fd
  <2>4. ThreadType'
    BY <2>1, <2>2, <2>3 DEF ThreadType
  <2>5. QueueType'
    BY <2>1, AgedSeqType, ZenonT(30) DEF IInv, QueueType, AgedQueue
  <2>6. \A u \in Thread : u # t => /\ th'[u].pc = th[u].pc /\ th'[u].todo = th[u].todo
                                   /\ th'[u].msg = Aged(th[u].msg, fd)
    BY <2>1, <2>3, ZenonT(30)
  <2>7. th'[t] = r
    BY <2>1
  <2>8. ThreadsBusy'
    BY <1>3, <2>2, <2>6, <2>7, AgedType DEF IInv, ThreadsBusy
  <2>9. Counting' = Counting \ {t}
    BY <2>2, <2>6, <2>7 DEF Counting
  <2> QED BY <2>4, <2>5, <2>8, <2>9
<1> QED BY <1>2, <1>3

\* Thread t goes on to another place.
LEMMA GoesTo ==
  ASSUME IInv, NEW t \in Thread, NEW p \in Pc, th' = [th EXCEPT ![t].pc = p],
         p \in {"delete", "close", "nb"} => th[t].pc \in {"delete", "close", "nb"},
         p \in {"check", "store", "add"} => th[t].pc \in {"check", "store", "add"}
  PROVE  /\ ThreadType' /\ ThreadsBusy'
         /\ \A u \in Thread : th'[u].pc = IF u = t THEN p ELSE th[u].pc
<1>1. th[t] \in ThreadRecord
  BY DEF IInv, ThreadType
<1>2. ThreadType'
  BY <1>1, ZenonT(30) DEF IInv, ThreadType, ThreadRecord
<1>3. \A u \in Thread : /\ th'[u].pc = IF u = t THEN p ELSE th[u].pc
                        /\ th'[u].todo = th[u].todo /\ th'[u].msg = th[u].msg
  BY <1>1 DEF IInv, ThreadType, ThreadRecord
<1> QED BY <1>2, <1>3 DEF IInv, ThreadsBusy

\* What a thread that closes is about to close.
LEMMA TodoType ==
  ASSUME IInv, NEW t \in Thread, th[t].pc \in {"delete", "close", "nb"}
  PROVE  Head(th[t].todo) \in Fd /\ Tail(th[t].todo) \in Seq(Fd)
<1>1. th[t].todo \in Seq(Fd) /\ th[t].todo # <<>>
  BY DEF IInv, ThreadType, ThreadRecord, ThreadsBusy
<1> QED BY <1>1, HeadTailProperties

\* The bounds on faults and races are kept.
LEMMA BoundsKept ==
  ASSUME IInv
  PROVE  /\ Fault => faults' \in 0..MaxFaults
         /\ Race => races' \in 0..MaxRaces
         /\ \A fd : RaceWithClose(fd) => races' \in 0..MaxRaces
<1>1. faults \in 0..MaxFaults /\ races \in 0..MaxRaces
  BY DEF IInv, RestType
<1> QED BY <1>1, ConnectionsAssumption DEF Fault, Race, RaceWithClose

(***************************************************************************)
(* _close_sock                                                             *)
(***************************************************************************)

\* The steps of a thread that closes a descriptor.
LEMMA CloseSockInv ==
  ASSUME IInv, NEW t \in Thread, CloseSock(t)
  PROVE  IInv'
<1>1. CASE DeleteSocket(t)
  <2> DEFINE fd == Head(th[t].todo)
             a == tree[fd]
  <2>1. fd \in Fd
    BY <1>1, TodoType DEF DeleteSocket
  <2>2. th' = [th EXCEPT ![t].pc = "close"]
    BY <1>1, SMTT(30) DEF DeleteSocket
  <2>3. /\ ThreadType' /\ ThreadsBusy'
        /\ \A u \in Thread : th'[u].pc = IF u = t THEN "close" ELSE th[u].pc
    BY <1>1, <2>2, GoesTo, ZenonT(30) DEF DeleteSocket, Pc
  <2>4. Counting' = Counting
    BY <1>1, <2>3 DEF DeleteSocket, Counting
  <2>5. OpenFds' = OpenFds
    BY <1>1 DEF DeleteSocket, OpenFds
  <2>6. Counted'
    BY <1>1, <2>4, <2>5, SameCount DEF DeleteSocket
  <2>7. sock' \in [Agent -> Fd \union {None}]
    BY <1>1, ZenonT(30) DEF DeleteSocket, IInv, RestType
  <2>8. tree' \in [Fd -> Agent \union {None}]
    BY <1>1, ZenonT(30) DEF DeleteSocket, IInv, RestType
  <2>9. RestType'
    BY <1>1, <2>7, <2>8 DEF DeleteSocket, IInv, RestType
  <2>10. ConnType' /\ QueueType'
    BY <1>1 DEF DeleteSocket, IInv, ConnType, QueueType
  <2> QED BY <2>3, <2>6, <2>9, <2>10 DEF IInv
<1>2. CASE Close(t)
  <2> DEFINE fd == Head(th[t].todo)
  <2>1. fd \in Fd /\ Tail(th[t].todo) \in Seq(Fd)
    BY <1>2, TodoType DEF Close
  <2>2. RestType'
    BY <1>2 DEF Close, IInv, RestType
  <2>3. tcp' = tcp
    BY <1>2 DEF Close
  <2>4. CASE conn[fd] # None
    <3>1. conn' = [conn EXCEPT ![fd] = None] /\ th' = [th EXCEPT ![t].pc = "nb"] /\ queue' = queue
      BY <1>2, <2>4, SMTT(30) DEF Close
    <3>2. /\ ThreadType' /\ ThreadsBusy'
          /\ \A u \in Thread : th'[u].pc = IF u = t THEN "nb" ELSE th[u].pc
      BY <1>2, <3>1, GoesTo, ZenonT(30) DEF Close, Pc
    <3>3. ConnType' /\ QueueType'
      BY <2>1, <3>1 DEF IInv, ConnType, QueueType
    <3>4. OpenFds' = OpenFds \ {fd} /\ fd \in OpenFds
      BY <2>1, <2>4, <3>1 DEF IInv, ConnType, OpenFds
    <3>5. Counting' = Counting \union {t} /\ t \notin Counting
      BY <1>2, <3>2 DEF Close, Counting
    <3>6. Cardinality(OpenFds') = Cardinality(OpenFds) - 1
      BY <3>4, SetsFinite, FS_RemoveElement, ZenonT(30)
    <3>7. Cardinality(Counting') = Cardinality(Counting) + 1
      BY <3>5, SetsFinite, FS_AddElement, ZenonT(30)
    <3>8. Counted'
      BY <2>3, <3>6, <3>7, SetsFinite DEF IInv, Counted
    <3> QED BY <2>2, <3>2, <3>3, <3>8 DEF IInv
  <2>5. CASE conn[fd] = None
    <3>1. Closing(t, Tail(th[t].todo)) /\ conn' = conn
      BY <1>2, <2>5 DEF Close
    <3>2. QueueType' /\ ThreadType' /\ ThreadsBusy' /\ Counting' = Counting \ {t}
      BY <2>1, <3>1, ClosingSafe, ZenonT(30)
    <3>3. Counting' = Counting
      BY <1>2, <3>2 DEF Close, Counting
    <3>4. ConnType' /\ OpenFds' = OpenFds
      BY <3>1 DEF IInv, ConnType, OpenFds
    <3>5. Counted'
      BY <2>3, <3>3, <3>4, SameCount
    <3> QED BY <2>2, <3>2, <3>4, <3>5 DEF IInv
  <2> QED BY <2>4, <2>5
<1>3. CASE CloseBuffers(t)
  <2>1. Tail(th[t].todo) \in Seq(Fd)
    BY <1>3, TodoType DEF CloseBuffers
  <2>2. QueueType' /\ ThreadType' /\ ThreadsBusy' /\ Counting' = Counting \ {t}
    BY <1>3, <2>1, ClosingSafe, ZenonT(30) DEF CloseBuffers
  <2>3. t \in Counting
    BY <1>3 DEF CloseBuffers, Counting
  <2>4. Cardinality(Counting') = Cardinality(Counting) - 1
    BY <2>2, <2>3, SetsFinite, FS_RemoveElement, ZenonT(30)
  <2>5. ConnType' /\ OpenFds' = OpenFds
    BY <1>3 DEF CloseBuffers, IInv, ConnType, OpenFds
  <2>6. Counted'
    BY <1>3, <2>4, <2>5, SetsFinite DEF CloseBuffers, IInv, Counted
  <2>7. RestType'
    BY <1>3 DEF CloseBuffers, IInv, RestType
  <2> QED BY <2>2, <2>5, <2>6, <2>7 DEF IInv
<1> QED BY <1>1, <1>2, <1>3 DEF CloseSock

(***************************************************************************)
(* The main thread and the agents                                          *)
(***************************************************************************)

\* A message that main pushes is put in while the queue has room.
LEMMA PushedType ==
  ASSUME IInv, NEW fd \in Fd, conn[fd] # None,
         NEW kind \in {"ctrl", "shutdown", "event", "bad"}, queue' = Pushed(fd, kind)
  PROVE  QueueType'
<1>1. [fd |-> fd, agent |-> conn[fd].agent, kind |-> kind, new |-> TRUE] \in Message
  BY DEF IInv, ConnType, Peer, Message
<1>2. CASE Len(queue) < QueueSize
  BY <1>1, <1>2, ConnectionsAssumption DEF Pushed, IInv, QueueType
<1>3. CASE ~(Len(queue) < QueueSize)
  BY <1>3 DEF Pushed, IInv, QueueType
<1> QED BY <1>2, <1>3

\* A step that leaves the threads alone and opens or closes nothing.
LEMMA AgentStep ==
  ASSUME IInv, th' = th, tcp' = tcp, ConnType', QueueType', RestType',
         \A fd \in Fd : conn'[fd] = None <=> conn[fd] = None
  PROVE  IInv'
<1>1. OpenFds' = OpenFds /\ Counting' = Counting
  BY SameOpen DEF Counting
<1>2. ThreadType' /\ ThreadsBusy'
  BY DEF IInv, ThreadType, ThreadsBusy
<1> QED BY <1>1, <1>2, SameCount DEF IInv

\* A connection gets another side.
LEMMA SideChanges ==
  ASSUME IInv, NEW fd \in Fd, conn[fd] # None, NEW s \in {"start", "sent", "up", "gone"},
         conn' = [conn EXCEPT ![fd].side = s]
  PROVE  ConnType' /\ \A g \in Fd : conn'[g] = None <=> conn[g] = None
<1>1. conn[fd] \in Peer
  BY DEF IInv, ConnType
<1>2. [conn[fd] EXCEPT !.side = s] \in Peer
  BY <1>1 DEF Peer
<1>3. conn' = [conn EXCEPT ![fd] = [conn[fd] EXCEPT !.side = s]]
  OBVIOUS
<1> QED BY <1>2, <1>3, ConnectionsAssumption DEF IInv, ConnType

\* The accepts and the messages, and what agents and the manager do besides.
LEMMA AgentsInv ==
  ASSUME IInv, NEW a \in Agent,
         \/ Accept(a) \/ Receive(a, "ctrl") \/ Receive(a, "event")
         \/ ReceiveRare(a, "bad") \/ ReceiveRare(a, "shutdown")
         \/ Silence(a) \/ ChangeKeys(a)
  PROVE  IInv'
<1>1. CASE Accept(a)
  <2>1. PICK fd \in Fd :
          /\ conn[fd] = None /\ RaceWithClose(fd)
          /\ conn' = [conn EXCEPT ![fd] = [agent |-> a, side |-> "start"]]
          /\ buf' = buf \union {fd}
    BY <1>1, ZenonT(30) DEF Accept
  <2>2. [agent |-> a, side |-> "start"] \in Peer
    BY DEF Peer
  <2>3. ConnType'
    BY <2>1, <2>2 DEF IInv, ConnType
  <2>4. OpenFds' = OpenFds \union {fd} /\ fd \notin OpenFds
    BY <2>1, <2>2, ConnectionsAssumption DEF IInv, ConnType, OpenFds
  <2>5. Cardinality(OpenFds') = Cardinality(OpenFds) + 1
    BY <2>4, SetsFinite, FS_AddElement, ZenonT(30)
  <2>6. Counting' = Counting
    BY <1>1 DEF Accept, Counting
  <2>7. Counted'
    BY <1>1, <2>5, <2>6, SetsFinite DEF Accept, IInv, Counted
  <2>8. RestType'
    BY <1>1, <2>1, BoundsKept, ZenonT(30) DEF Accept, IInv, RestType
  <2>9. QueueType' /\ ThreadType' /\ ThreadsBusy'
    BY <1>1 DEF Accept, IInv, QueueType, ThreadType, ThreadsBusy
  <2> QED BY <2>3, <2>7, <2>8, <2>9 DEF IInv
<1>2. ASSUME NEW kind \in {"ctrl", "event"}, Receive(a, kind) PROVE IInv'
  <2>1. PICK fd \in Fd :
          /\ Open(a, fd) /\ RaceWithClose(fd) /\ queue' = Pushed(fd, kind)
          /\ conn' = IF conn[fd].side = "start" THEN [conn EXCEPT ![fd].side = "sent"] ELSE conn
    BY <1>2, ZenonT(30) DEF Receive
  <2>2. conn[fd] # None
    BY <2>1 DEF Open
  <2>3. QueueType'
    BY <2>1, <2>2, PushedType
  <2>4. ConnType' /\ \A g \in Fd : conn'[g] = None <=> conn[g] = None
    <3>1. CASE conn' = conn
      BY <3>1 DEF IInv, ConnType
    <3>2. CASE conn' = [conn EXCEPT ![fd].side = "sent"]
      BY <2>2, <3>2, SideChanges, ZenonT(30)
    <3> QED BY <2>1, <3>1, <3>2
  <2>5. faults' \in 0..MaxFaults
    BY <1>2, BoundsKept DEF Receive, IInv, RestType
  <2>6. RestType'
    BY <1>2, <2>1, <2>5, BoundsKept DEF Receive, IInv, RestType
  <2> QED BY <1>2, <2>3, <2>4, <2>6, AgentStep DEF Receive
<1>3. ASSUME NEW kind \in {"bad", "shutdown"}, ReceiveRare(a, kind) PROVE IInv'
  <2>1. PICK fd \in Fd :
          /\ Open(a, fd) /\ queue' = Pushed(fd, kind)
          /\ conn' = IF kind = "shutdown" THEN [conn EXCEPT ![fd].side = "gone"] ELSE conn
    BY <1>3, ZenonT(30) DEF ReceiveRare
  <2>2. conn[fd] # None
    BY <2>1 DEF Open
  <2>3. QueueType'
    BY <2>1, <2>2, PushedType
  <2>4. ConnType' /\ \A g \in Fd : conn'[g] = None <=> conn[g] = None
    <3>1. CASE conn' = conn
      BY <3>1 DEF IInv, ConnType
    <3>2. CASE conn' = [conn EXCEPT ![fd].side = "gone"]
      BY <2>2, <3>2, SideChanges, ZenonT(30)
    <3> QED BY <2>1, <3>1, <3>2
  <2>5. RestType'
    BY <1>3, BoundsKept DEF ReceiveRare, IInv, RestType
  <2> QED BY <1>3, <2>3, <2>4, <2>5, AgentStep DEF ReceiveRare
<1>4. CASE Silence(a)
  <2>1. races' \in 0..MaxRaces
    BY <1>4, BoundsKept DEF Silence, IInv, RestType
  <2>2. ConnType' /\ QueueType' /\ RestType'
    BY <1>4, <2>1 DEF Silence, IInv, ConnType, QueueType, RestType
  <2> QED BY <1>4, <2>2, AgentStep DEF Silence
<1>5. CASE ChangeKeys(a)
  <2>1. ConnType' /\ QueueType' /\ RestType'
    BY <1>5, BoundsKept DEF ChangeKeys, IInv, ConnType, QueueType, RestType
  <2> QED BY <1>5, <2>1, AgentStep DEF ChangeKeys
<1> QED BY <1>1, <1>2, <1>3, <1>4, <1>5

\* The other end of a descriptor goes away, and main notices.
LEMMA DescriptorInv ==
  ASSUME IInv, NEW fd \in Fd, PeerCloses(fd) \/ PeerGivesUp(fd) \/ Disconnected(fd)
  PROVE  IInv'
<1>1. CASE PeerCloses(fd)
  <2>1. ConnType' /\ \A g \in Fd : conn'[g] = None <=> conn[g] = None
    BY <1>1, SideChanges, ZenonT(30) DEF PeerCloses
  <2>2. QueueType' /\ RestType'
    BY <1>1, BoundsKept DEF PeerCloses, IInv, QueueType, RestType
  <2> QED BY <1>1, <2>1, <2>2, AgentStep DEF PeerCloses
<1>2. CASE PeerGivesUp(fd)
  <2>1. ConnType' /\ \A g \in Fd : conn'[g] = None <=> conn[g] = None
    BY <1>2, SideChanges, ZenonT(30) DEF PeerGivesUp
  <2>2. QueueType' /\ RestType'
    BY <1>2 DEF PeerGivesUp, IInv, QueueType, RestType
  <2> QED BY <1>2, <2>1, <2>2, AgentStep DEF PeerGivesUp
<1>3. CASE Disconnected(fd)
  <2>1. main \in Thread /\ <<fd>> \in Seq(Fd)
    BY DEF Thread
  <2>2. QueueType' /\ ThreadType' /\ ThreadsBusy' /\ Counting' = Counting \ {main}
    BY <1>3, <2>1, ClosingSafe, ZenonT(30) DEF Disconnected
  <2>3. Counting' = Counting /\ OpenFds' = OpenFds
    BY <1>3, <2>2 DEF Disconnected, Counting, OpenFds
  <2>4. Counted'
    BY <1>3, <2>3, SameCount DEF Disconnected
  <2>5. ConnType' /\ RestType'
    BY <1>3 DEF Disconnected, IInv, ConnType, RestType
  <2> QED BY <2>2, <2>4, <2>5 DEF IInv
<1> QED BY <1>1, <1>2, <1>3

(***************************************************************************)
(* The workers                                                             *)
(***************************************************************************)

\* The descriptor that OS_AddSocket leaves to be closed, if any.
LEMMA IdleSockType ==
  ASSUME IInv, NEW w \in Thread
  PROVE  IdleSock(w) \in Seq(Fd)
<1>1. th[w].idle \in Fd \union {None}
  BY DEF IInv, ThreadType, ThreadRecord
<1> QED BY <1>1, EmptySeq DEF IdleSock

\* A worker that goes on to close, and opens or closes nothing yet.
LEMMA WorkerCloses ==
  ASSUME IInv, NEW w \in Thread, NEW todo \in Seq(Fd), Closing(w, todo), th[w].pc # "nb",
         tcp' = tcp, ConnType', RestType',
         \A fd \in Fd : conn'[fd] = None <=> conn[fd] = None
  PROVE  IInv'
<1>1. QueueType' /\ ThreadType' /\ ThreadsBusy' /\ Counting' = Counting \ {w}
  BY ClosingSafe
<1>2. Counting' = Counting
  BY <1>1 DEF Counting
<1>3. OpenFds' = OpenFds
  BY SameOpen
<1> QED BY <1>1, <1>2, <1>3, SameCount DEF IInv

\* A worker handles a message.
LEMMA WorkerInv ==
  ASSUME IInv, NEW w \in Worker, HandleSecureMessage(w)
  PROVE  IInv'
<1>0. w \in Thread
  BY DEF Thread
<1>1. CASE Lookup(w)
  <2> DEFINE m == Head(queue)
             a == m.agent
             rest == Tail(queue)
             other == sock[a] # None /\ sock[a] # m.fd
             busy(s) == [pc |-> "check", msg |-> m, idle |-> s, todo |-> <<>>]
             refused == a \notin known \/ (other /\ ~(overtake /\ a \in idle))
  <2>1. queue \in Seq(Message) /\ queue # <<>> /\ Len(queue) <= QueueSize /\ th[w].pc = "idle"
    BY <1>1 DEF Lookup, IInv, QueueType
  <2>2. m \in Message /\ rest \in Seq(Message) /\ Len(rest) <= QueueSize
    <3>1. m \in Message /\ rest \in Seq(Message) /\ Len(rest) = Len(queue) - 1
      BY <2>1, HeadTailProperties
    <3> QED BY <2>1, <3>1, LenProperties, ConnectionsAssumption
  <2>3. m.fd \in Fd /\ a \in Agent
    BY <2>2 DEF Message
  <2>4. ConnType' /\ OpenFds' = OpenFds /\ tcp' = tcp
    BY <1>1 DEF Lookup, IInv, ConnType, OpenFds
  <2>5. RestType'
    BY <1>1 DEF Lookup, IInv, RestType
  <2>6. CASE refused
    <3> DEFINE r == [AtRest EXCEPT !.pc = "delete", !.todo = <<m.fd>>]
    <3>1. /\ queue' = [k \in DOMAIN rest |-> Aged(rest[k], m.fd)]
          /\ th' = [u \in Thread |-> IF u = w THEN r ELSE [th[u] EXCEPT !.msg = Aged(@, m.fd)]]
      BY <1>1, <2>6, SMTT(30) DEF Lookup
    <3>2. r \in ThreadRecord /\ r.pc = "delete" /\ r.todo # <<>>
      <4>1. AtRest \in ThreadRecord
        BY EmptySeq DEF AtRest, ThreadRecord, Pc
      <4>2. <<m.fd>> \in Seq(Fd) /\ <<m.fd>> # <<>>
        BY <2>3
      <4>3. ASSUME NEW todo \in Seq(Fd)
            PROVE  /\ [AtRest EXCEPT !.pc = "delete", !.todo = todo] \in ThreadRecord
                   /\ [AtRest EXCEPT !.pc = "delete", !.todo = todo].pc = "delete"
                   /\ [AtRest EXCEPT !.pc = "delete", !.todo = todo].todo = todo
        BY <4>1, ZenonT(30) DEF AtRest, ThreadRecord, Pc
      <4> QED BY <4>2, <4>3, ZenonT(30)
    <3>3. ASSUME NEW u \in Thread
          PROVE  /\ [th[u] EXCEPT !.msg = Aged(@, m.fd)] \in ThreadRecord
                 /\ [th[u] EXCEPT !.msg = Aged(@, m.fd)].pc = th[u].pc
                 /\ [th[u] EXCEPT !.msg = Aged(@, m.fd)].todo = th[u].todo
                 /\ [th[u] EXCEPT !.msg = Aged(@, m.fd)].msg = Aged(th[u].msg, m.fd)
      <4>1. th[u] \in ThreadRecord
        BY DEF IInv, ThreadType
      <4> QED BY <4>1, AgedType DEF ThreadRecord
    <3> HIDE DEF r, m
    <3>4. ThreadType'
      BY <3>1, <3>2, <3>3 DEF ThreadType
    <3>5. QueueType'
      BY <2>2, <3>1, AgedSeqType, ZenonT(30) DEF QueueType
    <3>6. \A u \in Thread : u # w => /\ th'[u].pc = th[u].pc /\ th'[u].todo = th[u].todo
                                     /\ th'[u].msg = Aged(th[u].msg, m.fd)
      BY <3>1, <3>3, ZenonT(30)
    <3>7. th'[w] = r
      BY <1>0, <3>1
    <3>8. ThreadsBusy'
      BY <3>2, <3>6, <3>7, AgedType DEF IInv, ThreadsBusy
    <3>9. Counting' = Counting
      BY <2>1, <3>2, <3>6, <3>7 DEF Counting
    <3> QED BY <2>4, <2>5, <3>4, <3>5, <3>8, <3>9, SameCount DEF IInv
  <2>7. CASE ~refused
    <3>1. queue' = rest /\ th' = [th EXCEPT ![w] = busy(IF other THEN sock[a] ELSE None)]
      BY <1>1, <2>7 DEF Lookup
    <3>2. (IF other THEN sock[a] ELSE None) \in Fd \union {None}
      BY <2>3 DEF IInv, RestType
    <3>3. PICK s \in Fd \union {None} : th' = [th EXCEPT ![w] = busy(s)]
      BY <3>1, <3>2, ZenonT(30)
    <3>4. busy(s) \in ThreadRecord /\ busy(s).pc = "check" /\ busy(s).msg \in Message
      BY <2>2, EmptySeq DEF ThreadRecord, Pc
    <3> HIDE DEF busy
    <3>5. \A u \in Thread : th'[u] = IF u = w THEN busy(s) ELSE th[u]
      BY <3>3 DEF IInv, ThreadType
    <3>6. ThreadType' /\ QueueType'
      BY <2>2, <3>1, <3>3, <3>4, ZenonT(30) DEF IInv, ThreadType, QueueType
    <3>7. ThreadsBusy'
      BY <3>4, <3>5 DEF IInv, ThreadsBusy
    <3>8. Counting' = Counting
      BY <2>1, <3>4, <3>5 DEF Counting
    <3> QED BY <2>4, <2>5, <3>6, <3>7, <3>8, SameCount DEF IInv
  <2> QED BY <2>6, <2>7
<1>2. CASE Check(w)
  <2> DEFINE m == th[w].msg
  <2>1. m \in Message /\ th[w].pc = "check"
    BY <1>0, <1>2 DEF Check, IInv, ThreadsBusy
  <2>2. m.fd \in Fd /\ <<m.fd>> \o IdleSock(w) \in Seq(Fd) /\ IdleSock(w) \in Seq(Fd)
    BY <1>0, <2>1, IdleSockType, ConcatProperties DEF Message
  <2>3. ConnType' /\ conn' = conn /\ tcp' = tcp
    BY <1>2 DEF Check, IInv, ConnType
  <2>4. RestType'
    BY <1>2 DEF Check, IInv, RestType
  <2>5. CASE Closing(w, <<m.fd>> \o IdleSock(w)) \/ Closing(w, IdleSock(w))
    BY <1>0, <2>1, <2>2, <2>3, <2>4, <2>5, WorkerCloses, ZenonT(30)
  <2>6. CASE th' = [th EXCEPT ![w].pc = "store"] /\ queue' = queue
    <3>1. /\ ThreadType' /\ ThreadsBusy'
          /\ \A u \in Thread : th'[u].pc = IF u = w THEN "store" ELSE th[u].pc
      BY <1>0, <2>1, <2>6, GoesTo, ZenonT(30) DEF Pc
    <3>2. Counting' = Counting /\ OpenFds' = OpenFds
      BY <2>1, <2>3, <3>1 DEF Counting, OpenFds
    <3>3. QueueType'
      BY <2>6 DEF IInv, QueueType
    <3> QED BY <2>3, <2>4, <3>1, <3>2, <3>3, SameCount DEF IInv
  <2>7. CASE th' = [th EXCEPT ![w] = AtRest] /\ queue' = queue
    <3>1. Closing(w, <<>>)
      BY <2>7 DEF Closing
    <3> QED BY <1>0, <2>1, <2>3, <2>4, <3>1, EmptySeq, WorkerCloses, ZenonT(30)
  <2> QED BY <1>2, <2>5, <2>6, <2>7 DEF Check
<1>3. CASE Store(w)
  <2>1. th[w].msg \in Message /\ th[w].pc = "store"
    BY <1>0, <1>3 DEF Store, IInv, ThreadsBusy
  <2>2. th[w].msg.fd \in Fd /\ th[w].msg.agent \in Agent
    BY <2>1 DEF Message
  <2>3. sock' \in [Agent -> Fd \union {None}]
    BY <1>3, <2>2 DEF Store, IInv, RestType
  <2>4. RestType'
    BY <1>3, <2>3 DEF Store, IInv, RestType
  <2>5. ConnType' /\ conn' = conn /\ tcp' = tcp
    BY <1>3 DEF Store, IInv, ConnType
  <2>6. CASE Closing(w, IdleSock(w))
    BY <1>0, <2>1, <2>4, <2>5, <2>6, IdleSockType, WorkerCloses
  <2>7. CASE th' = [th EXCEPT ![w].pc = "add"] /\ queue' = queue
    <3>1. /\ ThreadType' /\ ThreadsBusy'
          /\ \A u \in Thread : th'[u].pc = IF u = w THEN "add" ELSE th[u].pc
      BY <1>0, <2>1, <2>7, GoesTo, ZenonT(30) DEF Pc
    <3>2. Counting' = Counting /\ OpenFds' = OpenFds
      BY <2>1, <2>5, <3>1 DEF Counting, OpenFds
    <3>3. QueueType'
      BY <2>7 DEF IInv, QueueType
    <3> QED BY <2>4, <2>5, <3>1, <3>2, <3>3, SameCount, SMTT(30) DEF IInv
  <2> QED BY <1>3, <2>6, <2>7 DEF Store
<1>4. CASE AddSocket(w)
  <2> DEFINE a == th[w].msg.agent
  <2>1. th[w].msg \in Message /\ th[w].pc = "add" /\ a \in Agent /\ th[w].msg.fd \in Fd
    BY <1>0, <1>4 DEF AddSocket, IInv, ThreadsBusy, Message
  <2>2. \A fd \in Fd : Answers(a, fd) => conn[fd] # None
    BY DEF Answers, Open
  <2>3. ASSUME NEW fd \in Fd, conn[fd] # None
        PROVE  [conn[fd] EXCEPT !.side = "up"] \in Peer
    BY <2>3 DEF IInv, ConnType, Peer
  <2>4. conn' = [fd \in Fd |-> IF Answers(a, fd) THEN [conn[fd] EXCEPT !.side = "up"] ELSE conn[fd]]
    BY <1>4 DEF AddSocket
  <2>5. ConnType'
    BY <2>2, <2>3, <2>4 DEF IInv, ConnType
  <2>6. \A fd \in Fd : conn'[fd] = None <=> conn[fd] = None
    BY <2>2, <2>3, <2>4, ConnectionsAssumption
  <2>7. RestType'
    BY <1>4, <2>1 DEF AddSocket, IInv, RestType
  <2> QED BY <1>0, <1>4, <2>1, <2>5, <2>6, <2>7, IdleSockType, WorkerCloses DEF AddSocket
<1> QED BY <1>1, <1>2, <1>3, <1>4 DEF HandleSecureMessage

(***************************************************************************)
(* The key reloader, and the theorem                                       *)
(***************************************************************************)

\* The keys are read again.
LEMMA ReloadInv ==
  ASSUME IInv, CheckUpdateKeys \/ UpdateKeys
  PROVE  IInv'
<1>1. CASE CheckUpdateKeys
  <2>1. ConnType' /\ QueueType' /\ RestType'
    BY <1>1 DEF CheckUpdateKeys, IInv, ConnType, QueueType, RestType
  <2> QED BY <1>1, <2>1, AgentStep DEF CheckUpdateKeys
<1>2. CASE UpdateKeys
  <2>1. sock' \in [Agent -> Fd \union {None}]
    BY <1>2 DEF UpdateKeys, IInv, RestType
  <2>2. tree' \in [Fd -> Agent \union {None}]
    BY <1>2 DEF UpdateKeys
  <2>3. idle' \subseteq Agent /\ known' \subseteq Agent
    BY <1>2 DEF UpdateKeys, IInv, RestType
  <2>4. RestType'
    BY <1>2, <2>1, <2>2, <2>3, ZenonT(30) DEF UpdateKeys, IInv, RestType
  <2>5. ConnType' /\ QueueType'
    BY <1>2 DEF UpdateKeys, IInv, ConnType, QueueType
  <2> QED BY <1>2, <2>4, <2>5, AgentStep DEF UpdateKeys
<1> QED BY <1>1, <1>2

\* Every step of the specification keeps the invariant.
LEMMA NextInv == IInv /\ [Next]_vars => IInv'
<1> SUFFICES ASSUME IInv, [Next]_vars PROVE IInv'
  OBVIOUS
<1>1. CASE UNCHANGED vars
  <2>1. ConnType' /\ QueueType' /\ RestType'
    BY <1>1 DEF vars, IInv, ConnType, QueueType, RestType
  <2> QED BY <1>1, <2>1, AgentStep DEF vars
<1>2. CASE Next
  BY <1>2, CloseSockInv, WorkerInv, AgentsInv, DescriptorInv, ReloadInv DEF Next
<1> QED BY <1>1, <1>2

\* The sessions that remoted reports are the open descriptors and those whose close is
\* not yet counted, whichever threads close them and whoever gets their numbers.
THEOREM SessionsRight == Spec => []SessionsCounted
BY InitInv, NextInv, InvImplies, PTL DEF Spec

(***************************************************************************)
(* The entries of the key store                                            *)
(***************************************************************************)

\* A worker works on an entry, and a socket is kept and looked up, for agents of the
\* key store only: the reload of OS_UpdateKeys frees no entry that HandleSecureMessage
\* still uses or that keytree_sock leads OS_DeleteSocket to.
EntriesAlive ==
  /\ \A w \in Reader : th[w].msg.agent \in known
  /\ \A a \in Agent : sock[a] # None => a \in known
  /\ \A fd \in Fd : tree[fd] # None => tree[fd] \in known

\* Where a worker holds the read lock.
Handling == {"check", "store", "add"}

\* Who handles a message after a step has handled it before, for the same agent.
SameAgents ==
  \A w \in Worker : th'[w].pc \in Handling =>
    th[w].pc \in Handling /\ th'[w].msg.agent = th[w].msg.agent

\* Without a new reader or a reload only the sockets matter.
LEMMA AliveKept ==
  ASSUME EntriesAlive, SameAgents, known' = known,
         \A a \in Agent : sock'[a] # None => sock[a] # None \/ a \in known,
         \A fd \in Fd : tree'[fd] # None => tree[fd] = tree'[fd] \/ tree'[fd] \in known
  PROVE  EntriesAlive'
<1>1. \A w \in Reader' : th'[w].msg.agent \in known'
  BY ZenonT(30) DEF EntriesAlive, SameAgents, Reader, Handling
<1> QED BY <1>1, ZenonT(30) DEF EntriesAlive

\* A message is for the same agent when its descriptor is closed.
LEMMA AgedAgent ==
  ASSUME NEW m \in Message, NEW fd
  PROVE  Aged(m, fd).agent = m.agent
BY SMTT(30) DEF Aged, Message

\* A thread whose message is aged keeps its place and its agent.
LEMMA AgedThread ==
  ASSUME IInv, NEW u \in Worker, NEW fd,
         th'[u] = [th[u] EXCEPT !.msg = Aged(@, fd)], th'[u].pc \in Handling
  PROVE  th[u].pc \in Handling /\ th'[u].msg.agent = th[u].msg.agent
<1>1. u \in Thread /\ th[u] \in ThreadRecord
  BY DEF IInv, ThreadType, Thread
<1>2. th'[u].pc = th[u].pc /\ th'[u].msg = Aged(th[u].msg, fd)
  BY <1>1, SMTT(30) DEF ThreadRecord
<1>3. th[u].msg \in Message
  BY <1>1, <1>2, ZenonT(30) DEF IInv, ThreadsBusy, Handling
<1>4. Aged(th[u].msg, fd).agent = th[u].msg.agent
  BY <1>3, AgedAgent
<1>5. th'[u].msg.agent = th[u].msg.agent
  BY <1>2, <1>4
<1> QED BY <1>2, <1>5

\* A thread that goes on to close, or comes to rest, leaves the others at their agents.
LEMMA ClosingAgents ==
  ASSUME IInv, NEW t \in Thread, NEW todo, Closing(t, todo)
  PROVE  SameAgents
<1> SUFFICES ASSUME NEW u \in Worker, th'[u].pc \in Handling
             PROVE  th[u].pc \in Handling /\ th'[u].msg.agent = th[u].msg.agent
  BY ZenonT(30) DEF SameAgents
<1>1. u \in Thread /\ DOMAIN th = Thread
  BY DEF IInv, ThreadType, Thread
<1>2. CASE todo = <<>>
  <2>1. th'[u] = IF u = t THEN AtRest ELSE th[u]
    BY <1>1, <1>2, SMTT(30) DEF Closing
  <2>2. AtRest.pc \notin Handling
    BY SMTT(30) DEF AtRest, Handling
  <2> QED BY <2>1, <2>2, ZenonT(30)
<1>3. CASE todo # <<>>
  <2>1. th'[u] = IF u = t THEN [AtRest EXCEPT !.pc = "delete", !.todo = todo]
                 ELSE [th[u] EXCEPT !.msg = Aged(@, Head(todo))]
    BY <1>1, <1>3, ZenonT(30) DEF Closing
  <2>2. [AtRest EXCEPT !.pc = "delete", !.todo = todo].pc \notin Handling
    BY SMTT(30) DEF AtRest, Handling
  <2>3. th'[u] = [th[u] EXCEPT !.msg = Aged(@, Head(todo))]
    BY <2>1, <2>2, ZenonT(30)
  <2> QED BY <2>3, AgedThread, ZenonT(30)
<1> QED BY <1>2, <1>3, ZenonT(30)

\* So does one that goes to another place.
LEMMA GoingAgents ==
  ASSUME IInv, NEW t \in Thread, NEW p, th' = [th EXCEPT ![t].pc = p],
         p \in Handling => th[t].pc \in Handling
  PROVE  SameAgents
<1>1. \A u \in Worker : u \in Thread /\ th[u] \in ThreadRecord
  BY DEF IInv, ThreadType, Thread
<1>2. DOMAIN th = Thread
  BY DEF IInv, ThreadType
<1>3. \A u \in Worker : /\ th'[u].pc = IF u = t THEN p ELSE th[u].pc
                        /\ th'[u].msg = th[u].msg
  BY <1>1, <1>2, SMTT(30) DEF ThreadRecord
<1> QED BY <1>3, ZenonT(30) DEF SameAgents

\* _close_sock takes sockets out of the entries and of the tree.
LEMMA CloseAlive ==
  ASSUME IInv, EntriesAlive, NEW t \in Thread, CloseSock(t)
  PROVE  EntriesAlive'
<1>1. CASE DeleteSocket(t)
  <2>1. SameAgents
    BY <1>1, GoingAgents, ZenonT(30) DEF DeleteSocket, Handling
  <2>2. sock \in [Agent -> Fd \union {None}] /\ tree \in [Fd -> Agent \union {None}]
    BY DEF IInv, RestType
  <2>3. \A a \in Agent : sock'[a] # None => sock[a] # None
    BY <1>1, <2>2, SMTT(30) DEF DeleteSocket
  <2>4. \A fd \in Fd : tree'[fd] # None => tree[fd] = tree'[fd]
    BY <1>1, <2>2, SMTT(30) DEF DeleteSocket
  <2>5. known' = known
    BY <1>1 DEF DeleteSocket
  <2> QED BY <2>1, <2>3, <2>4, <2>5, AliveKept, ZenonT(30)
<1>2. CASE Close(t)
  <2>1. SameAgents
    <3>1. CASE Closing(t, Tail(th[t].todo))
      BY <3>1, ClosingAgents, ZenonT(30)
    <3>2. CASE th' = [th EXCEPT ![t].pc = "nb"]
      BY <3>2, GoingAgents, ZenonT(30) DEF Handling
    <3> QED BY <1>2, <3>1, <3>2, ZenonT(30) DEF Close
  <2>2. known' = known /\ sock' = sock /\ tree' = tree
    BY <1>2 DEF Close
  <2> QED BY <2>1, <2>2, AliveKept, ZenonT(30)
<1>3. CASE CloseBuffers(t)
  <2>1. SameAgents
    BY <1>3, ClosingAgents, ZenonT(30) DEF CloseBuffers
  <2>2. known' = known /\ sock' = sock /\ tree' = tree
    BY <1>3 DEF CloseBuffers
  <2> QED BY <2>1, <2>2, AliveKept, ZenonT(30)
<1> QED BY <1>1, <1>2, <1>3 DEF CloseSock
\* A worker takes a message of an agent whose entry is there, under the read lock.
LEMMA LookupAlive ==
  ASSUME IInv, EntriesAlive, NEW w \in Worker, Lookup(w)
  PROVE  EntriesAlive'
<1> DEFINE m == Head(queue)
           s == IF sock[m.agent] # None /\ sock[m.agent] # m.fd THEN sock[m.agent] ELSE None
           busy == [pc |-> "check", msg |-> m, idle |-> s, todo |-> <<>>]
           gone == [AtRest EXCEPT !.pc = "delete", !.todo = <<m.fd>>]
<1>1. known' = known /\ sock' = sock /\ tree' = tree
  BY DEF Lookup
<1>2. w \in Thread /\ Worker \subseteq Thread /\ DOMAIN th = Thread
  BY DEF IInv, ThreadType, Thread
<1>3. \/ th' = [u \in Thread |-> IF u = w THEN gone ELSE [th[u] EXCEPT !.msg = Aged(@, m.fd)]]
      \/ m.agent \in known /\ th' = [th EXCEPT ![w] = busy]
  BY ZenonT(30) DEF Lookup
<1>4. gone.pc \notin Handling
  BY SMTT(30) DEF AtRest, Handling
<1>5. busy.msg = m
  BY SMTT(30)
<1> HIDE DEF m, s, busy, gone
<1>6. ASSUME th' = [u \in Thread |-> IF u = w THEN gone ELSE [th[u] EXCEPT !.msg = Aged(@, m.fd)]]
      PROVE  EntriesAlive'
  <2>1. ASSUME NEW u \in Worker, th'[u].pc \in Handling
        PROVE  th[u].pc \in Handling /\ th'[u].msg.agent = th[u].msg.agent
    <3>1. th'[u] = IF u = w THEN gone ELSE [th[u] EXCEPT !.msg = Aged(@, m.fd)]
      BY <1>2, <1>6, ZenonT(30)
    <3>2. th'[u] = [th[u] EXCEPT !.msg = Aged(@, m.fd)]
      BY <1>4, <2>1, <3>1, ZenonT(30)
    <3> QED BY <2>1, <3>2, AgedThread, ZenonT(30)
  <2>2. SameAgents
    BY <2>1, ZenonT(30) DEF SameAgents
  <2> QED BY <1>1, <2>2, AliveKept, ZenonT(30)
<1>7. ASSUME m.agent \in known, th' = [th EXCEPT ![w] = busy]
      PROVE  EntriesAlive'
  <2>1. \A u \in Worker : th'[u] = IF u = w THEN busy ELSE th[u]
    BY <1>2, <1>7, SMTT(30)
  <2>2. \A u \in Reader' : th'[u].msg.agent \in known'
    <3>1. TAKE u \in Reader'
    <3>2. u \in Worker /\ th'[u].pc \in Handling
      BY DEF Reader, Handling
    <3>3. CASE u = w
      BY <1>1, <1>5, <1>7, <2>1, <3>2, <3>3
    <3>4. CASE u # w
      <4>1. th'[u] = th[u]
        BY <2>1, <3>2, <3>4
      <4>2. u \in Reader
        BY <3>2, <4>1 DEF Reader, Handling
      <4> QED BY <1>1, <4>1, <4>2 DEF EntriesAlive
    <3> QED BY <3>3, <3>4
  <2> QED BY <1>1, <2>2, ZenonT(30) DEF EntriesAlive
<1> QED BY <1>3, <1>6, <1>7, ZenonT(30)

\* What it does with it afterwards is done to that entry.
LEMMA WorkerAlive ==
  ASSUME IInv, EntriesAlive, NEW w \in Worker, Check(w) \/ Store(w) \/ AddSocket(w)
  PROVE  EntriesAlive'
<1> DEFINE a == th[w].msg.agent
<1>1. w \in Thread /\ th[w].pc \in Handling /\ known' = known
  BY DEF Check, Store, AddSocket, Thread, Handling
<1>2. a \in known
  BY <1>1, ZenonT(30) DEF EntriesAlive, Reader, Handling
<1>3. SameAgents
  <2>1. \/ \E todo : Closing(w, todo)
        \/ \E p : th' = [th EXCEPT ![w].pc = p]
        \/ th' = [th EXCEPT ![w] = AtRest] /\ queue' = queue
    BY ZenonT(30) DEF Check, Store, AddSocket
  <2>2. th' = [th EXCEPT ![w] = AtRest] /\ queue' = queue => Closing(w, <<>>)
    BY ZenonT(30) DEF Closing
  <2> QED BY <1>1, <2>1, <2>2, ClosingAgents, GoingAgents, ZenonT(30)
<1>4. sock \in [Agent -> Fd \union {None}] /\ tree \in [Fd -> Agent \union {None}]
  BY DEF IInv, RestType
<1> HIDE DEF a
<1>5. \/ sock' = sock
      \/ \E fd : sock' = [sock EXCEPT ![a] = fd]
  BY ZenonT(30) DEF Check, Store, AddSocket, a
<1>6. \/ tree' = tree
      \/ \E fd : tree' = [tree EXCEPT ![fd] = a]
  BY ZenonT(30) DEF Check, Store, AddSocket, a
<1>7. \A b \in Agent : sock'[b] # None => sock[b] # None \/ b \in known
  BY <1>2, <1>4, <1>5, SMTT(30)
<1>8. \A fd \in Fd : tree'[fd] # None => tree[fd] = tree'[fd] \/ tree'[fd] \in known
  BY <1>2, <1>4, <1>6, SMTT(30)
<1> QED BY <1>1, <1>3, <1>7, <1>8, AliveKept, ZenonT(30)

\* OS_UpdateKeys waits until nobody holds the read lock, and takes over the sockets of
\* the agents that stay.
LEMMA ReloadAlive ==
  ASSUME IInv, EntriesAlive, UpdateKeys
  PROVE  EntriesAlive'
<1> DEFINE stay == known \intersect file
<1>1. Reader' = {}
  BY DEF UpdateKeys, Reader
<1>2. known' = file /\ stay \subseteq file
  BY DEF UpdateKeys
<1>3. \A a \in Agent : sock'[a] # None => a \in stay
  BY SMTT(30) DEF UpdateKeys
<1>4. \A fd \in Fd : tree'[fd] # None => tree'[fd] \in stay
  BY SMTT(30) DEF UpdateKeys
<1> QED BY <1>1, <1>2, <1>3, <1>4, ZenonT(30) DEF EntriesAlive

\* Agents, descriptors, time and authd do not touch threads at work or the store.
LEMMA OthersAlive ==
  ASSUME IInv, EntriesAlive, [Next]_vars,
         ~ \E t \in Thread : CloseSock(t),
         ~ \E w \in Worker : HandleSecureMessage(w),
         ~UpdateKeys
  PROVE  EntriesAlive'
<1>1. CASE UNCHANGED <<th, known, sock, tree>>
  BY <1>1, ZenonT(30) DEF EntriesAlive, Reader
<1>2. ASSUME NEW fd \in Fd, Disconnected(fd)
      PROVE  EntriesAlive'
  <2>1. SameAgents
    BY <1>2, ClosingAgents, ZenonT(30) DEF Disconnected, Thread
  <2>2. known' = known /\ sock' = sock /\ tree' = tree
    BY <1>2 DEF Disconnected
  <2> QED BY <2>1, <2>2, AliveKept, ZenonT(30)
<1>3. ASSUME NEW a \in Agent,
             \/ Accept(a) \/ Receive(a, "ctrl") \/ Receive(a, "event")
             \/ ReceiveRare(a, "bad") \/ ReceiveRare(a, "shutdown")
             \/ Silence(a) \/ ChangeKeys(a)
      PROVE  UNCHANGED <<th, known, sock, tree>>
  BY <1>3, ZenonT(30) DEF Accept, Receive, ReceiveRare, Silence, ChangeKeys
<1>4. ASSUME NEW fd \in Fd, PeerCloses(fd) \/ PeerGivesUp(fd)
      PROVE  UNCHANGED <<th, known, sock, tree>>
  BY <1>4, ZenonT(30) DEF PeerCloses, PeerGivesUp
<1>5. CheckUpdateKeys \/ UNCHANGED vars => UNCHANGED <<th, known, sock, tree>>
  BY ZenonT(30) DEF CheckUpdateKeys, vars
<1> QED BY <1>1, <1>2, <1>3, <1>4, <1>5, ZenonT(30) DEF Next

\* Although the reloader replaces the whole key store, and closes and look-ups of any
\* number of workers are under way, HandleSecureMessage works on entries that are
\* there, and neither sock nor keytree_sock leads to one that was freed.
THEOREM NoEntryFreedInUse == Spec => []EntriesAlive
<1>1. Init => EntriesAlive
  <2> SUFFICES ASSUME Init PROVE EntriesAlive
    OBVIOUS
  <2>1. Reader = {}
    BY SMTT(30) DEF Init, Reader, Thread, AtRest
  <2>2. /\ \A a \in Agent : sock[a] = None
        /\ \A fd \in Fd : tree[fd] = None
    BY SMTT(30) DEF Init
  <2> QED BY <2>1, <2>2, ZenonT(30) DEF EntriesAlive
<1>2. IInv /\ EntriesAlive /\ [Next]_vars => EntriesAlive'
  BY CloseAlive, LookupAlive, WorkerAlive, ReloadAlive, OthersAlive, ZenonT(30)
  DEF HandleSecureMessage
<1> QED BY <1>1, <1>2, InitInv, NextInv, PTL DEF Spec
=============================================================================
