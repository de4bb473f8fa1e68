--------------------------- MODULE SecureCounters ---------------------------
(***************************************************************************)
(* The message counters of the agent protocol                              *)
(* (src/src/os_crypto/shared/msgs.c).  CreateSecMSG numbers every message  *)
(* of a sender with a pair global:local and saves the pair in the sender's *)
(* rids file before the message leaves; ReadSecMSG accepts a message only  *)
(* if its pair is greater than the last one accepted from that agent, and  *)
(* saves the pair of the agent at hand once every _s_recv_flush accepted   *)
(* messages, of whatever agent.  Either side may crash and reload what it  *)
(* saved; the network loses, delays, duplicates and reorders messages.     *)
(*                                                                         *)
(* The module has many senders and one receiver: agents and wazuh-remoted. *)
(* The way back (one sender, each agent a receiver with one key entry)     *)
(* runs the same two functions.  No one replaces the rids files under the  *)
(* running daemons, so ReloadCounter finds the inode it knows.             *)
(*                                                                         *)
(* One worker reads the messages: main.c refuses to start with several     *)
(* when the counters are verified.  With verification off there may be     *)
(* more; the mutex of the entry still makes each acceptance one step, and  *)
(* only the choice of the message whose pair is saved may differ.          *)
(***************************************************************************)
EXTENDS Integers

CONSTANTS
  Agent,             \* the senders
  LocalMax,          \* 9997, the last local number under a global number
  _s_recv_flush,     \* remoted.recv_counter_flush
  _s_verify_counter, \* remoted.verify_msg_id, as a BOOLEAN
  MaxGlobal          \* bound of the model on global numbers

ASSUME CounterAssumption ==
  /\ LocalMax \in Nat \ {0}
  /\ _s_recv_flush \in Nat
  /\ _s_verify_counter \in BOOLEAN
  /\ MaxGlobal \in Nat

VARIABLES
  count,      \* global_count:local_count of each agent's process
  senderFile, \* the pair in each agent's rids/sender
  net,        \* the messages that have been sent: any of them may arrive,
              \* at any time, any number of times
  entry,      \* global:local of each key entry of the receiver
  ridsFile,   \* the pair in rids/<id> at the receiver
  rcv_count,  \* messages accepted since a pair was saved
  result,     \* what ReadSecMSG returned last
  seen        \* history: messages accepted since the receiver loaded its pairs

vars == <<count, senderFile, net, entry, ridsFile, rcv_count, result, seen>>

Pair == [global : 0..MaxGlobal, local : 0..LocalMax]
Message == [agent : Agent, pair : Pair]
Zero == [global |-> 0, local |-> 0]

Less(x, y) ==
  \/ x.global < y.global
  \/ x.global = y.global /\ x.local < y.local
AtMost(x, y) == x = y \/ Less(x, y)

\* OS_StartCounter on empty rids files.
Init ==
  /\ count = [a \in Agent |-> Zero]
  /\ senderFile = [a \in Agent |-> Zero]
  /\ net = {}
  /\ entry = [a \in Agent |-> Zero]
  /\ ridsFile = [a \in Agent |-> Zero]
  /\ rcv_count = 0
  /\ result = "none"
  /\ seen = {}

(***************************************************************************)
(* The sender                                                              *)
(***************************************************************************)

\* Mutant: the global number is not increased when the local one wraps.
Increase_noglobal(c) ==
  IF c.local >= LocalMax
  THEN [global |-> c.global, local |-> 1]
  ELSE [global |-> c.global, local |-> c.local + 1]

\* The next pair of a sender.
Increase(c) ==
  IF c.local >= LocalMax
  THEN [global |-> c.global + 1, local |-> 1]
  ELSE [global |-> c.global, local |-> c.local + 1]

\* Mutant: the pair is not saved before the message leaves.
CreateSecMSG_nostore(a) ==
  LET c == Increase(count[a]) IN
  /\ c.global <= MaxGlobal
  /\ count' = [count EXCEPT ![a] = c]
  /\ net' = net \union {[agent |-> a, pair |-> c]}
  /\ UNCHANGED <<senderFile, entry, ridsFile, rcv_count, result, seen>>

\* Under the mutex of the sender entry: number the message, compress it,
\* save the pair.  The caller sends the message after that.
CreateSecMSG(a) ==
  LET c == Increase(count[a]) IN
  /\ c.global <= MaxGlobal
  /\ count' = [count EXCEPT ![a] = c]
  /\ senderFile' = [senderFile EXCEPT ![a] = c]
  /\ net' = net \union {[agent |-> a, pair |-> c]}
  /\ UNCHANGED <<entry, ridsFile, rcv_count, result, seen>>

\* os_zlib_compress fails: the pair is used up in memory and not saved.
CompressError(a) ==
  LET c == Increase(count[a]) IN
  /\ c.global <= MaxGlobal
  /\ count' = [count EXCEPT ![a] = c]
  /\ UNCHANGED <<senderFile, net, entry, ridsFile, rcv_count, result, seen>>

\* The agent crashes or restarts: OS_StartCounter reads the sender's pair.
SenderRestart(a) ==
  /\ count' = [count EXCEPT ![a] = senderFile[a]]
  /\ UNCHANGED <<senderFile, net, entry, ridsFile, rcv_count, result, seen>>

(***************************************************************************)
(* The receiver: ReadSecMSG, under the mutex of the key entry.             *)
(***************************************************************************)
NeedsFlush == rcv_count >= _s_recv_flush

\* Mutant: the count is not reset after a pair is saved.
Accept_noreset(m) ==
  /\ entry' = [entry EXCEPT ![m.agent] = m.pair]
  /\ ridsFile' = IF NeedsFlush THEN [ridsFile EXCEPT ![m.agent] = m.pair] ELSE ridsFile
  /\ rcv_count' = rcv_count + 1
  /\ result' = "KS_VALID"
  /\ seen' = seen \union {m}

\* StoreCounter when the count of accepted messages has reached the flush.
Accept(m) ==
  /\ entry' = [entry EXCEPT ![m.agent] = m.pair]
  /\ ridsFile' = IF NeedsFlush THEN [ridsFile EXCEPT ![m.agent] = m.pair] ELSE ridsFile
  /\ rcv_count' = IF NeedsFlush THEN 1 ELSE rcv_count + 1
  /\ result' = "KS_VALID"
  /\ seen' = seen \union {m}

\* Mutant: >= instead of > on the local number.
IsNewer_equal(m) == AtMost(entry[m.agent], m.pair)

IsNewer(m) == Less(entry[m.agent], m.pair)

ReadValid(m) ==
  /\ ~_s_verify_counter \/ IsNewer(m)
  /\ Accept(m)
  /\ UNCHANGED <<count, senderFile, net>>

\* A pair that is not greater, under the current global number.
ReadDuplicate(m) ==
  /\ _s_verify_counter
  /\ ~IsNewer(m)
  /\ m.pair.global = entry[m.agent].global
  /\ result' = "KS_RIDS"
  /\ UNCHANGED <<count, senderFile, net, entry, ridsFile, rcv_count, seen>>

\* A pair under an older global number falls through to the last statement.
ReadOlder(m) ==
  /\ _s_verify_counter
  /\ ~IsNewer(m)
  /\ m.pair.global # entry[m.agent].global
  /\ result' = "KS_ENCKEY"
  /\ UNCHANGED <<count, senderFile, net, entry, ridsFile, rcv_count, seen>>

ReadSecMSG(m) == ReadValid(m) \/ ReadDuplicate(m) \/ ReadOlder(m)

\* The receiver loads its pairs again: OS_UpdateKeys on a change of
\* client.keys keeps rcv_count, a restart of the daemon clears it.
KeyReload ==
  /\ entry' = ridsFile
  /\ seen' = {}
  /\ UNCHANGED <<count, senderFile, net, ridsFile, rcv_count, result>>

ReceiverRestart ==
  /\ entry' = ridsFile
  /\ rcv_count' = 0
  /\ result' = "none"
  /\ seen' = {}
  /\ UNCHANGED <<count, senderFile, net, ridsFile>>

Next ==
  \/ \E a \in Agent : CreateSecMSG(a) \/ CompressError(a) \/ SenderRestart(a)
  \/ \E m \in net : ReadSecMSG(m)
  \/ KeyReload
  \/ ReceiverRestart

Spec == Init /\ [][Next]_vars

(***************************************************************************)
(* Properties                                                              *)
(***************************************************************************)

\* Every variable keeps its type, and the count of accepted messages stays
\* within one of the flush.
TypeOK ==
  /\ count \in [Agent -> Pair]
  /\ senderFile \in [Agent -> Pair]
  /\ net \subseteq Message
  /\ entry \in [Agent -> Pair]
  /\ ridsFile \in [Agent -> Pair]
  /\ rcv_count \in 0..(_s_recv_flush + 1)
  /\ result \in {"none", "KS_VALID", "KS_RIDS", "KS_ENCKEY"}
  /\ seen \subseteq net

\* No sequence of crashes, reloads and out-of-order deliveries puts the pair
\* the receiver holds for an agent ahead of that agent's own: an agent is never
\* locked out, its next message passes the test of ReadSecMSG.
NotLockedOut == \A a \in Agent : AtMost(entry[a], count[a])

\* Every number that has left an agent is covered by its rids file, so a crash
\* of the agent cannot lead CreateSecMSG to number a message with it again.
SentIsSaved == \A m \in net : AtMost(m.pair, senderFile[m.agent])

\* CreateSecMSG never gives a message a pair it has given before, across
\* restarts of the agent and failures to compress.
NumbersFresh == [][\A a \in Agent : CreateSecMSG(a) => net' # net]_vars

\* Between two loads of its pairs, the receiver accepts no message twice, nor a
\* message older than one it has accepted from the same agent.
NoReplay == [][\A m \in net : ReadValid(m) =>
                 \A s \in seen : s.agent = m.agent => Less(s.pair, m.pair)]_vars
=============================================================================
