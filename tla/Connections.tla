----------------------------- MODULE Connections -----------------------------
(***************************************************************************)
(* The TCP connections of wazuh-remoted and its key store                  *)
(* (src/src/remoted/secure.c, queue.c, netcounter.c, sendmsg.c and         *)
(* src/src/os_crypto/shared/keys.c).                                       *)
(*                                                                         *)
(* The main thread accepts connections, reads messages into a queue and    *)
(* closes what the peer has closed.  Workers take messages from the queue, *)
(* note in the key store over which descriptor an agent is reached, and    *)
(* close descriptors too.  A descriptor that is closed can be given to the *)
(* next connection at once.  The key reloader replaces the whole store     *)
(* under the write lock; workers hold the read lock while they use it.     *)
(*                                                                         *)
(* A message counts as new if its counter is greater than the one that     *)
(* rem_setCounter noted for its descriptor.  Counters only grow, so this   *)
(* is a flag: new until _close_sock notes the counter for the descriptor.  *)
(***************************************************************************)
EXTENDS Integers, Sequences, FiniteSets

CONSTANTS
  Agent,      \* agents
  Fd,         \* descriptors
  Worker,     \* threads of rem_handler_main
  main,       \* the thread of HandleSecure
  overtake,   \* connection_overtake_time > 0
  QueueSize,  \* places in the queue of messages
  MaxFaults,  \* bound: peers that close, messages that do not decrypt or find the queue
              \* full, changes of client.keys
  MaxRaces,   \* bound: uses of a descriptor that is being closed, and workers that are slow
  None

\* The agent at the other end of a connection, and its side of it.
Peer == [agent : Agent, side : {"start", "sent", "up", "gone"}]

ASSUME ConnectionsAssumption ==
  /\ IsFiniteSet(Worker) /\ main \notin Worker
  /\ IsFiniteSet(Fd)
  /\ overtake \in BOOLEAN
  /\ QueueSize \in Nat \ {0} /\ MaxFaults \in Nat /\ MaxRaces \in Nat
  /\ None \notin Agent \union Fd \union Peer

VARIABLES
  conn,     \* of a descriptor: None, or a peer, whose side is "start", "sent" while it
            \* waits for the answer to its startup message, "up", or "gone"
  buf,      \* descriptors that have network buffers (nb_open, nb_close)
  tcp,      \* sessions counted by rem_inc_tcp and rem_dec_tcp
  queue,    \* messages read and not yet taken
  known,    \* agents in the key store
  sock,     \* keyentry.sock
  tree,     \* keytree_sock: of a descriptor, the agent that OS_DeleteSocket finds
  idle,     \* agents with current_ts - rcvd > connection_overtake_time
  th,       \* threads: place, message, sock_idle and descriptors to close
  reload,   \* the reloader has asked for the write lock
  file,     \* agents in client.keys
  faults,   \* faults and races so far
  races

vars == <<conn, buf, tcp, queue, known, sock, tree, idle, th, reload, file, faults, races>>

Thread == Worker \union {main}
Message == [fd : Fd, agent : Agent, kind : {"ctrl", "shutdown", "event", "bad"}, new : BOOLEAN]
AtRest == [pc |-> "idle", msg |-> None, idle |-> None, todo |-> <<>>]

Init ==
  /\ conn = [fd \in Fd |-> None] /\ buf = {} /\ tcp = 0
  /\ queue = <<>>
  /\ known = Agent /\ file = Agent
  /\ sock = [a \in Agent |-> None] /\ tree = [fd \in Fd |-> None] /\ idle = Agent
  /\ th = [t \in Thread |-> AtRest]
  /\ reload = FALSE
  /\ faults = 0 /\ races = 0

Open(a, fd) == conn[fd] # None /\ conn[fd].agent = a /\ conn[fd].side # "gone"

\* Over fd a message for agent a that send_msg queues reaches it.
Answers(a, fd) == sock[a] = fd /\ Open(a, fd) /\ fd \in buf

\* Threads that hold the read lock.
Reader == {t \in Worker : th[t].pc \in {"check", "store", "add"}}

\* Mutant: readers overtake a writer that waits.
MayRead_always == TRUE

\* rwlock_lock_read: a writer that waits holds the mutex that readers pass.
MayRead == ~reload

Fault == faults < MaxFaults /\ faults' = faults + 1
Race == races < MaxRaces /\ races' = races + 1

(***************************************************************************)
(* _close_sock: rem_setCounter, OS_DeleteSocket, close, nb_close           *)
(***************************************************************************)

\* rem_setCounter: the messages of fd that were read so far are no longer new.
Aged(m, fd) == IF m # None /\ m.fd = fd THEN [m EXCEPT !.new = FALSE] ELSE m
AgedQueue(fd) == [k \in DOMAIN queue |-> Aged(queue[k], fd)]

\* Thread t goes on to close the descriptors todo in turn.
Closing(t, todo) ==
  IF todo = <<>>
  THEN queue' = queue /\ th' = [th EXCEPT ![t] = AtRest]
  ELSE /\ queue' = AgedQueue(Head(todo))
       /\ th' = [u \in Thread |->
                   IF u = t THEN [AtRest EXCEPT !.pc = "delete", !.todo = todo]
                   ELSE [th[u] EXCEPT !.msg = Aged(@, Head(todo))]]

\* OS_DeleteSocket under the read lock: the entry that the tree names for fd loses fd.
DeleteSocket(t) ==
  LET fd == Head(th[t].todo)
      a == tree[fd]
  IN
  /\ th[t].pc = "delete" /\ MayRead
  /\ sock' = IF a # None /\ sock[a] = fd THEN [sock EXCEPT ![a] = None] ELSE sock
  /\ tree' = [tree EXCEPT ![fd] = None]
  /\ th' = [th EXCEPT ![t].pc = "close"]
  /\ UNCHANGED <<conn, buf, tcp, queue, known, idle, reload, file, faults, races>>

\* Mutant: the session is taken off the count though close failed.
Close_count(t) ==
  LET fd == Head(th[t].todo) IN
  /\ th[t].pc = "close"
  /\ IF conn[fd] # None
     THEN /\ conn' = [conn EXCEPT ![fd] = None]
          /\ th' = [th EXCEPT ![t].pc = "nb"]
          /\ UNCHANGED <<queue, tcp>>
     ELSE Closing(t, Tail(th[t].todo)) /\ tcp' = tcp - 1 /\ UNCHANGED conn
  /\ UNCHANGED <<buf, known, sock, tree, idle, reload, file, faults, races>>

\* close: the descriptor is free.  If it was free already the rest is skipped.
Close(t) ==
  LET fd == Head(th[t].todo) IN
  /\ th[t].pc = "close"
  /\ IF conn[fd] # None
     THEN /\ conn' = [conn EXCEPT ![fd] = None]
          /\ th' = [th EXCEPT ![t].pc = "nb"]
          /\ UNCHANGED queue
     ELSE Closing(t, Tail(th[t].todo)) /\ UNCHANGED conn
  /\ UNCHANGED <<buf, tcp, known, sock, tree, idle, reload, file, faults, races>>

\* nb_close for both directions, and rem_dec_tcp.
CloseBuffers(t) ==
  /\ th[t].pc = "nb"
  /\ buf' = buf \ {Head(th[t].todo)}
  /\ tcp' = tcp - 1
  /\ Closing(t, Tail(th[t].todo))
  /\ UNCHANGED <<conn, known, sock, tree, idle, reload, file, faults, races>>

CloseSock(t) == DeleteSocket(t) \/ Close(t) \/ CloseBuffers(t)

\* The main thread uses a descriptor that a worker is closing: counted as a race.
RaceWithClose(fd) ==
  IF \E w \in Worker : th[w].pc \in {"delete", "close", "nb"} /\ Head(th[w].todo) = fd
  THEN Race
  ELSE UNCHANGED races

(***************************************************************************)
(* The main thread and the agents                                          *)
(***************************************************************************)

\* The agent connects (connect_server) and handle_new_tcp_connection accepts.
Accept(a) ==
  /\ th[main].pc = "idle"
  /\ \A fd \in Fd : ~Open(a, fd)
  /\ \E fd \in Fd :
       /\ conn[fd] = None
       /\ RaceWithClose(fd)
       /\ conn' = [conn EXCEPT ![fd] = [agent |-> a, side |-> "start"]]
       /\ buf' = buf \union {fd}
  /\ tcp' = tcp + 1
  /\ UNCHANGED <<queue, known, sock, tree, idle, th, reload, file, faults>>

\* rem_msgpush: a full queue refuses the message.
Pushed(fd, kind) ==
  IF Len(queue) < QueueSize
  THEN Append(queue, [fd |-> fd, agent |-> conn[fd].agent, kind |-> kind, new |-> TRUE])
  ELSE queue

\* The agent sends, and handle_incoming_data_from_tcp_socket reads.  The startup message
\* comes first (agent_handshake_to_server); keep-alives and events once it is answered.
\* A message that the full queue refuses is lost: counted as a fault.
Receive(a, kind) ==
  /\ th[main].pc = "idle"
  /\ IF Len(queue) < QueueSize THEN UNCHANGED faults ELSE Fault
  /\ \E fd \in Fd :
       /\ Open(a, fd)
       /\ conn[fd].side = "up" \/ (conn[fd].side = "start" /\ kind = "ctrl")
       /\ conn' = IF conn[fd].side = "start" THEN [conn EXCEPT ![fd].side = "sent"] ELSE conn
       /\ RaceWithClose(fd)
       /\ queue' = Pushed(fd, kind)
  /\ UNCHANGED <<buf, tcp, known, sock, tree, idle, th, reload, file>>

\* Another message than an agent sends all the time: one that does not decrypt, or
\* the shutdown message, after which the agent closes.
ReceiveRare(a, kind) ==
  /\ th[main].pc = "idle"
  /\ \E fd \in Fd :
       /\ Open(a, fd) /\ (kind = "shutdown" => conn[fd].side # "start")
       /\ queue' = Pushed(fd, kind)
       /\ conn' = IF kind = "shutdown" THEN [conn EXCEPT ![fd].side = "gone"] ELSE conn
  /\ Fault
  /\ UNCHANGED <<buf, tcp, known, sock, tree, idle, th, reload, file, races>>

\* The connection breaks, or the agent closes it for reasons of its own.
PeerCloses(fd) ==
  /\ conn[fd] # None /\ conn[fd].side # "gone"
  /\ conn' = [conn EXCEPT ![fd].side = "gone"]
  /\ Fault
  /\ UNCHANGED <<buf, tcp, queue, known, sock, tree, idle, th, reload, file, races>>

\* A message that came over fd is queued or in the hands of a worker.
InFlight(fd) ==
  \/ \E k \in DOMAIN queue : queue[k].fd = fd
  \/ \E w \in Worker : th[w].msg # None /\ th[w].msg.fd = fd

\* The agent waits in vain for an answer and connects anew: the connection has no
\* buffers, or its message was dropped.
PeerGivesUp(fd) ==
  /\ conn[fd] # None /\ conn[fd].side # "gone"
  /\ fd \notin buf \/ (conn[fd].side = "sent" /\ ~InFlight(fd))
  /\ conn' = [conn EXCEPT ![fd].side = "gone"]
  /\ UNCHANGED <<buf, tcp, queue, known, sock, tree, idle, th, reload, file, faults, races>>

\* recv returns 0 or an error: the main thread closes the descriptor.
Disconnected(fd) ==
  /\ th[main].pc = "idle"
  /\ conn[fd] # None /\ conn[fd].side = "gone"
  /\ Closing(main, <<fd>>)
  /\ UNCHANGED <<conn, buf, tcp, known, sock, tree, idle, reload, file, faults, races>>

(***************************************************************************)
(* A worker: HandleSecureMessage                                           *)
(***************************************************************************)

\* The message is taken, the read lock acquired and the agent looked up.  A socket
\* that differs from the one in the entry is refused, or overtakes it if the entry is
\* idle.
Lookup(w) ==
  LET m == Head(queue)
      a == m.agent
      other == sock[a] # None /\ sock[a] # m.fd
      rest == Tail(queue)
      busy(s) == [pc |-> "check", msg |-> m, idle |-> s, todo |-> <<>>]
  IN
  /\ th[w].pc = "idle" /\ queue # <<>> /\ MayRead
  /\ IF a \notin known \/ (other /\ ~(overtake /\ a \in idle))
     THEN /\ queue' = [k \in DOMAIN rest |-> Aged(rest[k], m.fd)]
          /\ th' = [u \in Thread |->
                      IF u = w THEN [AtRest EXCEPT !.pc = "delete", !.todo = <<m.fd>>]
                      ELSE [th[u] EXCEPT !.msg = Aged(@, m.fd)]]
          /\ UNCHANGED idle
     ELSE /\ queue' = rest
          /\ th' = [th EXCEPT ![w] = busy(IF other THEN sock[a] ELSE None)]
          /\ idle' = IF other THEN idle \ {a} ELSE idle
  /\ UNCHANGED <<conn, buf, tcp, known, sock, tree, reload, file, faults, races>>

IdleSock(w) == IF th[w].idle = None THEN <<>> ELSE <<th[w].idle>>

\* ReadSecMSG, and the first test of the counter for control messages.  Events go to
\* analysisd; a control message that is not new is dropped, without closing sock_idle.
Check(w) ==
  LET m == th[w].msg IN
  /\ th[w].pc = "check"
  /\ IF m.kind = "bad"
     THEN Closing(w, <<m.fd>> \o IdleSock(w)) /\ UNCHANGED idle
     ELSE /\ idle' = idle \ {m.agent}
          /\ \/ m.kind = "event" /\ Closing(w, IdleSock(w))
             \/ /\ m.kind = "shutdown" \/ (m.kind = "ctrl" /\ m.new)
                /\ th' = [th EXCEPT ![w].pc = "store"]
                /\ UNCHANGED queue
             \/ /\ m.kind = "ctrl" /\ ~m.new
                /\ th' = [th EXCEPT ![w] = AtRest]
                /\ UNCHANGED queue
  /\ UNCHANGED <<conn, buf, tcp, known, sock, tree, reload, file, faults, races>>

\* Mutant: the socket of the entry is not replaced when it is overtaken.
Store_keep(w) ==
  LET m == th[w].msg IN
  /\ th[w].pc = "store"
  /\ sock' = IF th[w].idle = None /\ m.new THEN [sock EXCEPT ![m.agent] = m.fd] ELSE sock
  /\ IF m.kind = "shutdown"
     THEN Closing(w, IdleSock(w))
     ELSE th' = [th EXCEPT ![w].pc = "add"] /\ UNCHANGED queue
  /\ UNCHANGED <<conn, buf, tcp, known, tree, idle, reload, file, faults, races>>

\* Under the mutex of the entry, with the second test of the counter.
Store(w) ==
  LET m == th[w].msg IN
  /\ th[w].pc = "store"
  /\ sock' = IF th[w].idle # None \/ m.new THEN [sock EXCEPT ![m.agent] = m.fd] ELSE sock
  /\ IF m.kind = "shutdown"
     THEN Closing(w, IdleSock(w))
     ELSE th' = [th EXCEPT ![w].pc = "add"] /\ UNCHANGED queue
  /\ UNCHANGED <<conn, buf, tcp, known, tree, idle, reload, file, faults, races>>

\* OS_AddSocket, then the read lock is released and sock_idle closed; save_controlmsg
\* acknowledges with send_msg.
AddSocket(w) ==
  LET a == th[w].msg.agent IN
  /\ th[w].pc = "add"
  /\ tree' = [tree EXCEPT ![th[w].msg.fd] = a]
  /\ Closing(w, IdleSock(w))
  /\ conn' = [fd \in Fd |-> IF Answers(a, fd) THEN [conn[fd] EXCEPT !.side = "up"] ELSE conn[fd]]
  /\ UNCHANGED <<buf, tcp, known, sock, idle, reload, file, faults, races>>

HandleSecureMessage(w) == Lookup(w) \/ Check(w) \/ Store(w) \/ AddSocket(w)

\* No valid message of the agent for longer than connection_overtake_time.  That a worker
\* takes so long for one message is counted as a race.
Silence(a) ==
  /\ a \notin idle
  /\ idle' = idle \union {a}
  /\ IF \E w \in Worker : th[w].pc # "idle" THEN Race ELSE UNCHANGED races
  /\ UNCHANGED <<conn, buf, tcp, queue, known, sock, tree, th, reload, file, faults>>

(***************************************************************************)
(* The key reloader                                                        *)
(***************************************************************************)

\* authd writes client.keys.
ChangeKeys(a) ==
  /\ file' = IF a \in file THEN file \ {a} ELSE file \union {a}
  /\ Fault
  /\ UNCHANGED <<conn, buf, tcp, queue, known, sock, tree, idle, th, reload, races>>

\* check_keyupdate sees a change and asks for the write lock.
CheckUpdateKeys ==
  /\ ~reload /\ file # known
  /\ reload' = TRUE
  /\ UNCHANGED <<conn, buf, tcp, queue, known, sock, tree, idle, th, file, faults, races>>

\* OS_UpdateKeys under the write lock: a new store, to which move_netdata takes over the
\* sockets of the agents that stay.  Of two entries with one socket the tree has one.
UpdateKeys ==
  LET stay == known \intersect file IN
  /\ reload /\ Reader = {}
  /\ known' = file
  /\ sock' = [a \in Agent |-> IF a \in stay THEN sock[a] ELSE None]
  /\ idle' = (idle \intersect stay) \union (Agent \ stay)
  /\ tree' \in {t \in [Fd -> Agent \union {None}] :
                  \A fd \in Fd : LET S == {a \in stay : sock[a] = fd} IN
                    IF S = {} THEN t[fd] = None ELSE t[fd] \in S}
  /\ reload' = FALSE
  /\ UNCHANGED <<conn, buf, tcp, queue, th, file, faults, races>>

(***************************************************************************)
(* The specification                                                       *)
(***************************************************************************)
Next ==
  \/ \E t \in Thread : CloseSock(t)
  \/ \E w \in Worker : HandleSecureMessage(w)
  \/ \E a \in Agent :
       \/ Accept(a) \/ Receive(a, "ctrl") \/ Receive(a, "event")
       \/ ReceiveRare(a, "bad") \/ ReceiveRare(a, "shutdown")
       \/ Silence(a) \/ ChangeKeys(a)
  \/ \E fd \in Fd : PeerCloses(fd) \/ PeerGivesUp(fd) \/ Disconnected(fd)
  \/ CheckUpdateKeys \/ UpdateKeys

Spec == Init /\ [][Next]_vars

\* Threads run; the main thread serves every descriptor that is ready; agents connect
\* again and send keep-alives; time passes.
Fairness ==
  /\ \A t \in Thread : WF_vars(CloseSock(t))
  /\ \A w \in Worker : WF_vars(HandleSecureMessage(w))
  /\ \A a \in Agent : SF_vars(Accept(a)) /\ SF_vars(Receive(a, "ctrl")) /\ SF_vars(Silence(a))
  /\ \A fd \in Fd : WF_vars(PeerGivesUp(fd)) /\ WF_vars(Disconnected(fd))
  /\ WF_vars(CheckUpdateKeys) /\ WF_vars(UpdateKeys)

FairSpec == Spec /\ Fairness

(***************************************************************************)
(* Properties                                                              *)
(***************************************************************************)

\* Every variable keeps its type.
TypeOK ==
  /\ conn \in [Fd -> Peer \union {None}]
  /\ buf \subseteq Fd /\ tcp \in 0..(Cardinality(Fd) + Cardinality(Thread))
  /\ queue \in Seq(Message) /\ Len(queue) <= QueueSize
  /\ known \subseteq Agent /\ file \subseteq Agent /\ idle \subseteq Agent
  /\ sock \in [Agent -> Fd \union {None}] /\ tree \in [Fd -> Agent \union {None}]
  /\ \A t \in Thread :
       /\ th[t].pc \in {"idle", "check", "store", "add", "delete", "close", "nb"}
       /\ th[t].msg \in Message \union {None} /\ th[t].idle \in Fd \union {None}
       /\ \A k \in DOMAIN th[t].todo : th[t].todo[k] \in Fd
  /\ reload \in BOOLEAN /\ faults \in 0..MaxFaults /\ races \in 0..MaxRaces

\* Every variable keeps its type.  The sessions that remoted reports are the
\* descriptors that are open and those whose close has succeeded and is not yet
\* counted, also when two threads close one descriptor or close the next connection
\* that was given its number.
SessionsCounted ==
  /\ TypeOK
  /\ tcp = Cardinality({fd \in Fd : conn[fd] # None}) + Cardinality({t \in Thread : th[t].pc = "nb"})

\* Whatever the races of closing, reusing and storing descriptors leave in the key store,
\* once peers stop to fail every agent of client.keys can be reached again, and stays so.
Settles == <>[](\A a \in file : \E fd \in Fd : Answers(a, fd))

\* A change of client.keys is loaded: workers that take the read lock in turn do not keep
\* the reloader out.
KeysReloaded == \A a \in Agent : (a \notin file) ~> (a \notin known \/ a \in file)
=============================================================================
