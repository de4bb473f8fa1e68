------------------------ MODULE SecureCountersProofs ------------------------
(***************************************************************************)
(* Proofs about SecureCounters for any number of agents, any flush and any *)
(* size of the local number, with the counters verified or not.            *)
(***************************************************************************)
EXTENDS SecureCounters, TLAPS

(***************************************************************************)
(* The order of the pairs.                                                 *)
(***************************************************************************)

\* The comparison of ReadSecMSG is a strict total order on pairs.
LEMMA PairOrder ==
  ASSUME NEW x \in Pair, NEW y \in Pair, NEW z \in Pair
  PROVE  /\ AtMost(x, y) /\ AtMost(y, z) => AtMost(x, z)
         /\ AtMost(x, y) /\ Less(y, z) => Less(x, z)
         /\ ~Less(x, x)
         /\ AtMost(Zero, x)
<1>1. /\ x.global \in Nat /\ x.local \in Nat /\ y.global \in Nat /\ y.local \in Nat
      /\ z.global \in Nat /\ z.local \in Nat
      /\ x = [global |-> x.global, local |-> x.local]
  BY CounterAssumption DEF Pair
<1>2. AtMost(Zero, x)
  BY <1>1 DEF AtMost, Less, Zero
<1> QED BY <1>1, <1>2 DEF AtMost, Less

\* The pair CreateSecMSG moves to is greater than the one it leaves.
LEMMA IncreaseGrows ==
  ASSUME NEW c \in Pair, Increase(c).global <= MaxGlobal
  PROVE  Increase(c) \in Pair /\ Less(c, Increase(c))
<1>1. c.global \in Nat /\ c.local \in Nat /\ c.local <= LocalMax /\ c.global <= MaxGlobal
  BY CounterAssumption DEF Pair
<1>2. CASE c.local >= LocalMax
  <2>1. Increase(c) = [global |-> c.global + 1, local |-> 1]
    BY <1>2 DEF Increase
  <2> QED BY <1>1, <2>1, CounterAssumption DEF Pair, Less
<1>3. CASE ~(c.local >= LocalMax)
  <2>1. Increase(c) = [global |-> c.global, local |-> c.local + 1]
    BY <1>3 DEF Increase
  <2> QED BY <1>1, <1>3, <2>1, CounterAssumption DEF Pair, Less
<1> QED BY <1>2, <1>3

(***************************************************************************)
(* The inductive invariant: the rids file of the sender lies between       *)
(* everything that the receiver may hold and the sender's own counter.     *)
(***************************************************************************)
ChainInv ==
  /\ \A m \in net : AtMost(m.pair, senderFile[m.agent])
  /\ \A a \in Agent : /\ AtMost(ridsFile[a], senderFile[a])
                      /\ AtMost(entry[a], senderFile[a])
                      /\ AtMost(senderFile[a], count[a])

SeenInv == _s_verify_counter => \A s \in seen : AtMost(s.pair, entry[s.agent])

IInv == TypeOK /\ ChainInv /\ SeenInv

\* A new sender starts with a pair.
LEMMA ZeroIsPair == Zero \in Pair
  BY CounterAssumption DEF Zero, Pair

\* Nothing is sent, saved or accepted at first.
LEMMA InitInvariant == Init => IInv
<1> SUFFICES ASSUME Init PROVE IInv
  OBVIOUS
<1>1. TypeOK
  BY ZeroIsPair, CounterAssumption DEF Init, TypeOK
<1>2. ChainInv
  BY DEF Init, ChainInv, AtMost
<1>3. SeenInv
  BY DEF Init, SeenInv
<1> QED BY <1>1, <1>2, <1>3 DEF IInv

\* Numbering a message, saved (CreateSecMSG) or not (CompressError).
LEMMA CreateStep ==
  ASSUME IInv, NEW a \in Agent, CreateSecMSG(a)
  PROVE  IInv'
<1> DEFINE c == Increase(count[a])
<1>1. c \in Pair /\ Less(count[a], c)
  BY IncreaseGrows DEF IInv, TypeOK, CreateSecMSG
<1>2. TypeOK'
  BY <1>1 DEF IInv, TypeOK, CreateSecMSG, Message
<1>3. ChainInv'
  <2> HIDE DEF c
  <2>1. senderFile' = [senderFile EXCEPT ![a] = c] /\ count' = [count EXCEPT ![a] = c]
        /\ net' = net \union {[agent |-> a, pair |-> c]} /\ UNCHANGED <<entry, ridsFile>>
    BY DEF CreateSecMSG, c
  <2>2. \A x \in Pair : AtMost(x, senderFile[a]) => AtMost(x, c)
    BY <1>1, PairOrder DEF IInv, TypeOK, ChainInv, AtMost
  <2>3. ASSUME NEW m \in net' PROVE AtMost(m.pair, senderFile'[m.agent])
    BY <2>1, <2>2, <2>3 DEF IInv, TypeOK, ChainInv, Message, AtMost
  <2>4. ASSUME NEW b \in Agent
        PROVE  /\ AtMost(ridsFile'[b], senderFile'[b])
               /\ AtMost(entry'[b], senderFile'[b])
               /\ AtMost(senderFile'[b], count'[b])
    BY <2>1, <2>2 DEF IInv, TypeOK, ChainInv, AtMost
  <2> QED BY <2>3, <2>4 DEF ChainInv, AtMost, Less
<1>4. SeenInv'
  BY DEF IInv, SeenInv, CreateSecMSG, AtMost, Less
<1> QED BY <1>2, <1>3, <1>4 DEF IInv

\* A message that cannot be compressed uses its number up.
LEMMA CompressStep ==
  ASSUME IInv, NEW a \in Agent, CompressError(a)
  PROVE  IInv'
<1> DEFINE c == Increase(count[a])
<1>1. c \in Pair /\ Less(count[a], c)
  BY IncreaseGrows DEF IInv, TypeOK, CompressError
<1>2. TypeOK'
  BY <1>1 DEF IInv, TypeOK, CompressError
<1>3. ChainInv'
  <2> HIDE DEF c
  <2>1. count' = [count EXCEPT ![a] = c] /\ UNCHANGED <<senderFile, net, entry, ridsFile>>
    BY DEF CompressError, c
  <2>2. AtMost(senderFile[a], c)
    BY <1>1, PairOrder DEF IInv, TypeOK, ChainInv, AtMost
  <2> QED BY <2>1, <2>2 DEF IInv, TypeOK, ChainInv, AtMost, Less
<1>4. SeenInv'
  BY DEF IInv, SeenInv, CompressError, AtMost, Less
<1> QED BY <1>2, <1>3, <1>4 DEF IInv

\* A crash and restart of an agent, or a load of the receiver's pairs.
LEMMA RestartStep ==
  ASSUME IInv, (\E a \in Agent : SenderRestart(a)) \/ KeyReload \/ ReceiverRestart
  PROVE  IInv'
<1>1. ASSUME NEW a \in Agent, SenderRestart(a) PROVE IInv'
  <2>1. TypeOK'
    BY <1>1 DEF IInv, TypeOK, SenderRestart
  <2>2. ChainInv'
    BY <1>1 DEF IInv, TypeOK, ChainInv, SenderRestart, AtMost, Less
  <2>3. SeenInv'
    BY <1>1 DEF IInv, SeenInv, SenderRestart, AtMost, Less
  <2> QED BY <2>1, <2>2, <2>3 DEF IInv
<1>2. CASE KeyReload \/ ReceiverRestart
  <2>1. TypeOK'
    BY <1>2, CounterAssumption DEF IInv, TypeOK, KeyReload, ReceiverRestart
  <2>2. ChainInv'
    BY <1>2 DEF IInv, TypeOK, ChainInv, KeyReload, ReceiverRestart, AtMost, Less
  <2>3. SeenInv'
    BY <1>2 DEF SeenInv, KeyReload, ReceiverRestart
  <2> QED BY <2>1, <2>2, <2>3 DEF IInv
<1> QED BY <1>1, <1>2

\* ReadSecMSG accepts a message.
LEMMA ReadValidStep ==
  ASSUME IInv, NEW m \in net, ReadValid(m)
  PROVE  IInv'
<1>1. m \in Message /\ m.agent \in Agent /\ m.pair \in Pair
  BY DEF IInv, TypeOK, Message
<1>2. /\ entry' = [entry EXCEPT ![m.agent] = m.pair]
      /\ \A a \in Agent : ridsFile'[a] = ridsFile[a] \/ (a = m.agent /\ ridsFile'[a] = m.pair)
      /\ ridsFile' \in [Agent -> Pair]
      /\ seen' = seen \union {m} /\ UNCHANGED <<count, senderFile, net>>
  BY <1>1 DEF IInv, TypeOK, ReadValid, Accept
<1>3. TypeOK'
  <2>1. rcv_count' \in 0..(_s_recv_flush + 1)
    BY CounterAssumption DEF IInv, TypeOK, ReadValid, Accept, NeedsFlush
  <2>2. result' = "KS_VALID"
    BY DEF ReadValid, Accept
  <2> QED BY <1>1, <1>2, <2>1, <2>2 DEF IInv, TypeOK
<1>4. ChainInv'
  BY <1>1, <1>2 DEF IInv, TypeOK, ChainInv, AtMost, Less
<1>5. SeenInv'
  <2> SUFFICES ASSUME _s_verify_counter, NEW s \in seen' PROVE AtMost(s.pair, entry'[s.agent])
    BY DEF SeenInv, AtMost, Less
  <2>1. Less(entry[m.agent], m.pair)
    BY DEF ReadValid, IsNewer
  <2>2. CASE s = m
    BY <1>1, <1>2, <2>2 DEF IInv, TypeOK, AtMost
  <2>3. CASE s # m
    <3>1. s \in seen /\ s.agent \in Agent /\ s.pair \in Pair /\ AtMost(s.pair, entry[s.agent])
      BY <1>2, <2>3 DEF IInv, TypeOK, SeenInv, Message
    <3>2. CASE s.agent = m.agent
      <4>1. Less(s.pair, m.pair)
        BY <1>1, <2>1, <3>1, <3>2, PairOrder DEF IInv, TypeOK
      <4> QED BY <1>1, <1>2, <3>2, <4>1 DEF IInv, TypeOK, AtMost
    <3>3. CASE s.agent # m.agent
      BY <1>1, <1>2, <3>1, <3>3 DEF IInv, TypeOK
    <3> QED BY <3>2, <3>3
  <2> QED BY <2>2, <2>3
<1> QED BY <1>3, <1>4, <1>5 DEF IInv

\* A refused message, or a stuttering step, leaves the counters alone.
LEMMA ReadOtherStep ==
  ASSUME IInv, (\E m \in net : ReadDuplicate(m) \/ ReadOlder(m)) \/ UNCHANGED vars
  PROVE  IInv'
<1>1. UNCHANGED <<count, senderFile, net, entry, ridsFile, rcv_count, seen>>
  BY DEF ReadDuplicate, ReadOlder, vars
<1>2. result' \in {"none", "KS_VALID", "KS_RIDS", "KS_ENCKEY"}
  BY DEF IInv, TypeOK, ReadDuplicate, ReadOlder, vars
<1> QED BY <1>1, <1>2 DEF IInv, TypeOK, ChainInv, SeenInv, AtMost, Less

\* Every step keeps the invariant.
LEMMA StepInvariant == IInv /\ [Next]_vars => IInv'
  BY CreateStep, CompressStep, RestartStep, ReadValidStep, ReadOtherStep DEF Next, ReadSecMSG

\* The invariant holds in every behaviour.
LEMMA Invariance == Spec => []IInv
  BY InitInvariant, StepInvariant, PTL DEF Spec

(***************************************************************************)
(* The theorems.                                                           *)
(***************************************************************************)

\* In every behaviour of the counters of msgs.c the variables keep their types
\* and the count towards the next flush stays bounded.
THEOREM TypeCorrect == Spec => []TypeOK
<1>1. IInv => TypeOK
  BY DEF IInv
<1> QED BY <1>1, Invariance, PTL

\* In every behaviour, every number that has left a sender is covered by the
\* rids file that CreateSecMSG writes.
THEOREM SenderSaved == Spec => []SentIsSaved
<1>1. IInv => SentIsSaved
  BY DEF IInv, ChainInv, SentIsSaved
<1> QED BY <1>1, Invariance, PTL

\* In every behaviour the pair the receiver holds for an agent is not ahead of
\* the agent's own, whatever crashes and reloads there have been.
THEOREM NoLockout == Spec => []NotLockedOut
<1>1. IInv => NotLockedOut
  <2> SUFFICES ASSUME IInv, NEW a \in Agent PROVE AtMost(entry[a], count[a])
    BY ZenonT(30) DEF NotLockedOut
  <2>1. entry[a] \in Pair /\ senderFile[a] \in Pair /\ count[a] \in Pair
    BY DEF IInv, TypeOK
  <2>2. AtMost(entry[a], senderFile[a]) /\ AtMost(senderFile[a], count[a])
    BY DEF IInv, ChainInv
  <2> QED BY <2>1, <2>2, PairOrder
<1> QED BY <1>1, Invariance, PTL

\* In every behaviour CreateSecMSG gives each message a pair of its own.
THEOREM FreshNumbers == Spec => NumbersFresh
<1>1. IInv => [\A a \in Agent : CreateSecMSG(a) => net' # net]_vars
  <2> SUFFICES ASSUME IInv, NEW a \in Agent, CreateSecMSG(a) PROVE net' # net
    OBVIOUS
  <2> DEFINE c == Increase(count[a])
             m == [agent |-> a, pair |-> c]
  <2>1. c \in Pair /\ Less(count[a], c)
    BY IncreaseGrows DEF IInv, TypeOK, CreateSecMSG
  <2>2. m \in net'
    BY DEF CreateSecMSG
  <2>3. m.pair = c /\ m.agent = a
    OBVIOUS
  <2> HIDE DEF c, m
  <2>4. ASSUME m \in net PROVE FALSE
    <3>1. AtMost(c, senderFile[a]) /\ AtMost(senderFile[a], count[a])
      BY <2>3, <2>4 DEF IInv, ChainInv
    <3>2. senderFile[a] \in Pair /\ count[a] \in Pair
      BY DEF IInv, TypeOK
    <3>3. AtMost(c, count[a])
      BY <2>1, <3>1, <3>2, PairOrder
    <3>4. Less(c, c)
      BY <2>1, <3>2, <3>3, PairOrder
    <3> QED BY <2>1, <3>4, PairOrder
  <2> QED BY <2>2, <2>4
<1> QED BY <1>1, Invariance, PTL DEF NumbersFresh

\* With verification on, between two loads of the pairs, ReadSecMSG accepts
\* the messages of an agent in strictly increasing order, so none twice.
THEOREM ReplayRefused ==
  ASSUME _s_verify_counter
  PROVE  Spec => NoReplay
<1>1. IInv => [\A m \in net : ReadValid(m) =>
                 \A s \in seen : s.agent = m.agent => Less(s.pair, m.pair)]_vars
  <2> SUFFICES ASSUME IInv, NEW m \in net, ReadValid(m),
                      NEW s \in seen, s.agent = m.agent
               PROVE  Less(s.pair, m.pair)
    OBVIOUS
  <2>1. m.agent \in Agent /\ m.pair \in Pair /\ s.pair \in Pair /\ entry[m.agent] \in Pair
    BY DEF IInv, TypeOK, Message
  <2>2. AtMost(s.pair, entry[m.agent]) /\ Less(entry[m.agent], m.pair)
    BY DEF IInv, SeenInv, ReadValid, IsNewer
  <2> QED BY <2>1, <2>2, PairOrder
<1> QED BY <1>1, Invariance, PTL DEF NoReplay
=============================================================================
