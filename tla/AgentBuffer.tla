----------------------------- MODULE AgentBuffer -----------------------------
(***************************************************************************)
(* The agent's anti-flooding buffer (src/src/client-agent/buffer.c): a     *)
(* ring of buflength + 1 slots under mutex_lock.  Producer threads call    *)
(* buffer_append; one thread runs dispatch_buffer.  The buffer also has a  *)
(* level (state) that buffer_append raises and dispatch_buffer lowers, and *)
(* a word of four bit fields (buff) that asks the dispatcher to report a   *)
(* change of level to the manager.  The dispatcher tests and clears those  *)
(* bits after it has released the mutex, so every assignment to a bit is a *)
(* load of the word followed by a store, and the two can interleave with a *)
(* load and a store of a producer.                                         *)
(***************************************************************************)
EXTENDS Integers

CONSTANTS
  Msg,           \* event contents
  Producer,      \* threads that call buffer_append
  None,          \* no event, no result, mutex not held
  buflength,     \* agt->buflength
  warn_level,    \* agent.warn_level, percent
  normal_level,  \* agent.normal_level, percent
  tolerance,     \* agent.tolerance, in ticks of the clock
  WarnTie,       \* sign of (float)o/buflength - warn_level/100.0 when the two
                 \* are equal as rationals: -1, 0 or 1, decided by rounding
  NormalTie      \* the same for normal_level

ASSUME BufferAssumption ==
  /\ buflength \in Nat \ {0}
  /\ warn_level \in 1..100
  /\ normal_level \in 0..(warn_level - 1)
  /\ tolerance \in Nat
  /\ WarnTie \in {-1, 0, 1}
  /\ NormalTie \in {-1, 0, 1}
  /\ None \notin Msg
  /\ None \notin Producer
  /\ None \notin {0, -1}

VARIABLES
  i, j,          \* next slot to write, next slot to read
  buffer,        \* the slots
  state,         \* level: "NORMAL", "WARNING", "FULL" or "FLOOD"
  age,           \* at FULL: seconds since start, saturated at tolerance
  buff,          \* the set of bits that are 1 in buff
  mutex,         \* holder of mutex_lock across two steps, or None
  pc,            \* per producer: "idle", "append" or "store"
  msg,           \* per producer: the argument of its call
  rc,            \* per producer: result of its last call, None during a call
  word,          \* per producer: the bits it is about to store into buff
  dpc,           \* the dispatcher's program counter
  msg_output,    \* the event the dispatcher has popped
  notice,        \* the bit the dispatcher is testing or clearing
  dword,         \* the value of buff the dispatcher has loaded
  wait_lock,     \* os_setwait() is in force: the agent is reconnecting
  owed           \* history: level changes flagged and not yet reported

vars == <<i, j, buffer, state, age, buff, mutex, pc, msg, rc, word,
          dpc, msg_output, notice, dword, wait_lock, owed>>

Size == buflength + 1
Slot == 0..buflength
Level == {"NORMAL", "WARNING", "FULL", "FLOOD"}
Flag == {"warn", "full", "flood", "normal"}

(***************************************************************************)
(* The macros of agentd.h.  A quotient of two ints in single precision is  *)
(* compared with a quotient in double precision: with buflength <= 100000  *)
(* two different rationals stay apart, and equal ones compare as the tie   *)
(* constants say.                                                          *)
(***************************************************************************)
full(a, b) == (a + 1) % Size = b
empty(a, b) == a = b
\* Mutant: the index is not wrapped.
forward_nowrap(x) == x + 1

forward(x) == (x + 1) % Size
occupied(a, b) == (a - b + Size) % Size

AtLeastWarn(o) ==
  \/ 100 * o > warn_level * buflength
  \/ 100 * o = warn_level * buflength /\ WarnTie >= 0
AtMostWarn(o) ==
  \/ 100 * o < warn_level * buflength
  \/ 100 * o = warn_level * buflength /\ WarnTie <= 0
AtMostNormal(o) ==
  \/ 100 * o < normal_level * buflength
  \/ 100 * o = normal_level * buflength /\ NormalTie <= 0

warn(a, b) == AtLeastWarn(occupied(a, b))
nowarn(a, b) == AtMostWarn(occupied(a, b))
normal(a, b) == AtMostNormal(occupied(a, b))

Init ==
  /\ i = 0
  /\ j = 0
  /\ buffer = [s \in Slot |-> None]
  /\ state = "NORMAL"
  /\ age = 0
  /\ buff = {}
  /\ mutex = None
  /\ pc = [p \in Producer |-> "idle"]
  /\ msg = [p \in Producer |-> None]
  /\ rc = [p \in Producer |-> 0]
  /\ word = [p \in Producer |-> {}]
  /\ dpc = "start"
  /\ msg_output = None
  /\ notice = "warn"
  /\ dword = {}
  /\ wait_lock = FALSE
  /\ owed = {}

(***************************************************************************)
(* buffer_append                                                           *)
(***************************************************************************)

\* The switch on state: the level after it and the bits it sets.
RaisedLevel ==
  CASE state \in {"NORMAL", "WARNING"} /\ full(i, j) -> [level |-> "FULL", set |-> {"full"}]
    [] state = "NORMAL" /\ ~full(i, j) /\ warn(i, j) -> [level |-> "WARNING", set |-> {"warn"}]
    [] state = "FULL" /\ age >= tolerance            -> [level |-> "FLOOD", set |-> {"flood"}]
    [] OTHER                                         -> [level |-> state, set |-> {}]

\* Mutant: the consumer is not signalled.
SignalNoEmpty_lost == UNCHANGED dpc

\* w_cond_signal(&cond_no_empty)
SignalNoEmpty == dpc' = IF dpc = "waiting" THEN "start" ELSE dpc

\* Mutant: the ring is tested for being full after the event is stored.
Insert_unchecked(p) ==
  /\ buffer' = [buffer EXCEPT ![i] = msg[p]]
  /\ i' = forward(i)
  /\ SignalNoEmpty
  /\ rc' = [rc EXCEPT ![p] = 0]

\* The event is dropped when the ring is full, else stored and signalled.
Insert(p) ==
  \/ /\ full(i, j)
     /\ rc' = [rc EXCEPT ![p] = -1]
     /\ UNCHANGED <<i, buffer, dpc>>
  \/ /\ ~full(i, j)
     /\ buffer' = [buffer EXCEPT ![i] = msg[p]]
     /\ i' = forward(i)
     /\ SignalNoEmpty
     /\ rc' = [rc EXCEPT ![p] = 0]

Call(p, m) ==
  /\ pc[p] = "idle"
  /\ pc' = [pc EXCEPT ![p] = "append"]
  /\ msg' = [msg EXCEPT ![p] = m]
  /\ rc' = [rc EXCEPT ![p] = None]
  /\ UNCHANGED <<i, j, buffer, state, age, buff, mutex, word, dpc, msg_output,
                 notice, dword, wait_lock, owed>>

\* A call that leaves the level alone is one critical section.
AppendSameLevel(p) ==
  /\ pc[p] = "append"
  /\ mutex = None
  /\ RaisedLevel.set = {}
  /\ Insert(p)
  /\ pc' = [pc EXCEPT ![p] = "idle"]
  /\ msg' = [msg EXCEPT ![p] = None]
  /\ UNCHANGED <<j, state, age, buff, mutex, word, msg_output, notice, dword,
                 wait_lock, owed>>

\* A call that raises the level loads buff to set a bit in it ...
AppendRaise(p) ==
  /\ pc[p] = "append"
  /\ mutex = None
  /\ RaisedLevel.set # {}
  /\ mutex' = p
  /\ state' = RaisedLevel.level
  /\ age' = IF RaisedLevel.level = "FULL" THEN 0 ELSE age
  /\ word' = [word EXCEPT ![p] = buff \union RaisedLevel.set]
  /\ owed' = owed \union RaisedLevel.set
  /\ pc' = [pc EXCEPT ![p] = "store"]
  /\ UNCHANGED <<i, j, buffer, buff, msg, rc, dpc, msg_output, notice, dword,
                 wait_lock>>

\* ... and stores it back, still inside the critical section.
AppendStore(p) ==
  /\ pc[p] = "store"
  /\ buff' = word[p]
  /\ Insert(p)
  /\ mutex' = None
  /\ pc' = [pc EXCEPT ![p] = "idle"]
  /\ msg' = [msg EXCEPT ![p] = None]
  /\ word' = [word EXCEPT ![p] = {}]
  /\ UNCHANGED <<j, state, age, msg_output, notice, dword, wait_lock, owed>>

(***************************************************************************)
(* dispatch_buffer                                                         *)
(***************************************************************************)

\* Mutant: the levels FULL and FLOOD are left only for NORMAL.
LoweredLevel_skip == IF state # "NORMAL" /\ normal(i, j) THEN "NORMAL" ELSE state

\* The switch on state before the pop.
LoweredLevel ==
  CASE state # "NORMAL" /\ normal(i, j)            -> "NORMAL"
    [] state \in {"FULL", "FLOOD"} /\ nowarn(i, j)
                               /\ ~normal(i, j)    -> "WARNING"
    [] OTHER                                       -> state

DispatchWait ==
  /\ dpc = "start"
  /\ mutex = None
  /\ empty(i, j)
  /\ dpc' = "waiting"
  /\ UNCHANGED <<i, j, buffer, state, age, buff, mutex, pc, msg, rc, word,
                 msg_output, notice, dword, wait_lock, owed>>

\* pthread_cond_wait may return without a signal; the loop tests again.
SpuriousWakeup ==
  /\ dpc = "waiting"
  /\ dpc' = "start"
  /\ UNCHANGED <<i, j, buffer, state, age, buff, mutex, pc, msg, rc, word,
                 msg_output, notice, dword, wait_lock, owed>>

\* One critical section: lower the level, pop, release the mutex.  No
\* producer is between its load and its store while the mutex is free.
DispatchPop ==
  /\ dpc = "start"
  /\ mutex = None
  /\ ~empty(i, j)
  /\ state' = LoweredLevel
  /\ buff' = IF LoweredLevel = "NORMAL" /\ state # "NORMAL" THEN buff \union {"normal"} ELSE buff
  /\ owed' = IF LoweredLevel = "NORMAL" /\ state # "NORMAL" THEN owed \union {"normal"} ELSE owed
  /\ msg_output' = buffer[j]
  /\ j' = forward(j)
  /\ dpc' = "check"
  /\ UNCHANGED <<i, buffer, age, mutex, pc, msg, rc, word, notice, dword,
                 wait_lock>>

\* The four ifs, in the order of the code.
AfterNotice ==
  CASE notice = "warn"   -> [dpc |-> "check", notice |-> "full"]
    [] notice = "full"   -> [dpc |-> "check", notice |-> "flood"]
    [] notice = "flood"  -> [dpc |-> "check", notice |-> "normal"]
    [] notice = "normal" -> [dpc |-> "os_wait", notice |-> "warn"]

SkipNotice ==
  /\ dpc = "check"
  /\ notice \notin buff
  /\ dpc' = AfterNotice.dpc
  /\ notice' = AfterNotice.notice
  /\ UNCHANGED <<i, j, buffer, state, age, buff, mutex, pc, msg, rc, word,
                 msg_output, dword, wait_lock, owed>>

LoadNotice ==
  /\ dpc = "check"
  /\ notice \in buff
  /\ dword' = buff
  /\ dpc' = "clear"
  /\ UNCHANGED <<i, j, buffer, state, age, buff, mutex, pc, msg, rc, word,
                 msg_output, notice, wait_lock, owed>>

\* Mutant: the whole word is cleared, not one bit.
ClearNotice_all ==
  /\ dpc = "clear"
  /\ buff' = {}
  /\ owed' = owed \ {notice}
  /\ dpc' = AfterNotice.dpc
  /\ notice' = AfterNotice.notice
  /\ dword' = {}
  /\ UNCHANGED <<i, j, buffer, state, age, mutex, pc, msg, rc, word,
                 msg_output, wait_lock>>

\* Store the word without the bit, then log and send the notice.
ClearNotice ==
  /\ dpc = "clear"
  /\ buff' = dword \ {notice}
  /\ owed' = owed \ {notice}
  /\ dpc' = AfterNotice.dpc
  /\ notice' = AfterNotice.notice
  /\ dword' = {}
  /\ UNCHANGED <<i, j, buffer, state, age, mutex, pc, msg, rc, word,
                 msg_output, wait_lock>>

\* os_wait() returns when it finds the lock released.
os_wait ==
  /\ dpc = "os_wait"
  /\ ~wait_lock
  /\ dpc' = "send"
  /\ UNCHANGED <<i, j, buffer, state, age, buff, mutex, pc, msg, rc, word,
                 msg_output, notice, dword, wait_lock, owed>>

\* send_msg, free and delay; the result of send_msg is ignored.
DispatchSend ==
  /\ dpc = "send"
  /\ msg_output' = None
  /\ dpc' = "start"
  /\ UNCHANGED <<i, j, buffer, state, age, buff, mutex, pc, msg, rc, word,
                 notice, dword, wait_lock, owed>>

(***************************************************************************)
(* The environment: the threads that reconnect the agent, and the clock.   *)
(***************************************************************************)
os_setwait ==
  /\ ~wait_lock
  /\ wait_lock' = TRUE
  /\ UNCHANGED <<i, j, buffer, state, age, buff, mutex, pc, msg, rc, word,
                 dpc, msg_output, notice, dword, owed>>

os_delwait ==
  /\ wait_lock
  /\ wait_lock' = FALSE
  /\ UNCHANGED <<i, j, buffer, state, age, buff, mutex, pc, msg, rc, word,
                 dpc, msg_output, notice, dword, owed>>

Tick ==
  /\ state = "FULL"
  /\ age < tolerance
  /\ age' = age + 1
  /\ UNCHANGED <<i, j, buffer, state, buff, mutex, pc, msg, rc, word,
                 dpc, msg_output, notice, dword, wait_lock, owed>>

buffer_append(p) == AppendSameLevel(p) \/ AppendRaise(p) \/ AppendStore(p)

dispatch_buffer ==
  \/ DispatchWait
  \/ DispatchPop
  \/ SkipNotice
  \/ LoadNotice
  \/ ClearNotice
  \/ DispatchSend

Next ==
  \/ \E p \in Producer : buffer_append(p) \/ \E m \in Msg : Call(p, m)
  \/ dispatch_buffer
  \/ SpuriousWakeup
  \/ os_wait
  \/ os_setwait
  \/ os_delwait
  \/ Tick

Spec == Init /\ [][Next]_vars

\* Threads that can run do run; a reconnection ends; the agent's poll of the
\* lock does not miss every period in which it is released.
Fairness ==
  /\ \A p \in Producer : WF_vars(buffer_append(p))
  /\ WF_vars(dispatch_buffer)
  /\ WF_vars(os_delwait)
  /\ SF_vars(os_wait)

FairSpec == Spec /\ Fairness

(***************************************************************************)
(* Properties                                                              *)
(***************************************************************************)

\* Every variable keeps its type; the indices stay inside the ring, and the
\* mutex is held exactly by the producer between its load and its store.
TypeOK ==
  /\ i \in Slot /\ j \in Slot
  /\ buffer \in [Slot -> Msg \union {None}]
  /\ state \in Level
  /\ age \in 0..tolerance
  /\ buff \in SUBSET Flag
  /\ mutex \in Producer \union {None}
  /\ pc \in [Producer -> {"idle", "append", "store"}]
  /\ \A p \in Producer : pc[p] = "store" <=> mutex = p
  /\ msg \in [Producer -> Msg \union {None}]
  /\ \A p \in Producer : pc[p] # "idle" => msg[p] \in Msg
  /\ rc \in [Producer -> {0, -1, None}]
  /\ word \in [Producer -> SUBSET Flag]
  /\ dpc \in {"start", "waiting", "check", "clear", "os_wait", "send"}
  /\ msg_output \in Msg \union {None}
  /\ notice \in Flag
  /\ dword \in SUBSET Flag
  /\ wait_lock \in BOOLEAN
  /\ owed \in SUBSET Flag

\* The level that buffer_append and dispatch_buffer keep between them follows
\* the occupation of the ring with a lag of one event: at NORMAL no more than
\* one event has gone in since the ring was under the warning level, and a
\* level that has been raised stands for a ring at most one event below the
\* threshold that lowers it.
LevelTracksOccupancy ==
  LET o == occupied(i, j) IN
  /\ state = "NORMAL" => o = 0 \/ ~AtLeastWarn(o - 1)
  /\ state = "WARNING" => ~AtMostNormal(o + 1)
  /\ state \in {"FULL", "FLOOD"} => ~AtMostWarn(o + 1) /\ ~AtMostNormal(o + 1)

\* The events stored in the ring, oldest first.
Stored == [k \in 1..occupied(i, j) |-> buffer[(j + k - 1) % Size]]

Fifo == INSTANCE BoundedFifo
  WITH Caller <- Producer, Value <- Msg, Capacity <- buflength,
       queue <- Stored, out <- msg_output

\* The ring with its two indices, its drop when full and its pop implements a
\* bounded FIFO: no event is lost, duplicated, reordered or overwritten, and
\* buffer_append returns -1 only when buflength events are stored.
ImplementsFifo == Fifo!Spec

\* The request to report the return to normal, set by dispatch_buffer under
\* the mutex, is never lost to the unlocked updates of buff.
NormalNoticeKept == "normal" \in owed => "normal" \in buff

\* Every stored event reaches the head of the ring and is popped: as long as there
\* are any, dispatch_buffer goes on popping them.  It is not left asleep in
\* w_cond_wait, nor stuck behind os_wait.
HeadIsPopped == <>[](~empty(i, j)) => []<><<j' # j>>_j
=============================================================================
