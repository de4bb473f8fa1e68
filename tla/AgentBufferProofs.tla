-------------------------- MODULE AgentBufferProofs --------------------------
(***************************************************************************)
(* Proofs about AgentBuffer for every length of the ring, every pair of    *)
(* thresholds the configuration accepts and any number of producers.       *)
(***************************************************************************)
EXTENDS AgentBuffer, Sequences, TLAPS

(***************************************************************************)
(* Arithmetic of the ring.                                                 *)
(***************************************************************************)

\* A remainder of a number below the modulus is the number itself.
LEMMA ModSmall ==
  ASSUME NEW a \in Nat, NEW n \in Nat, a < n
  PROVE  a % n = a
  OBVIOUS

\* One wrap around the modulus subtracts it once.
LEMMA ModWrap ==
  ASSUME NEW a \in Nat, NEW n \in Nat, n <= a, a < 2 * n
  PROVE  a % n = a - n
  OBVIOUS

\* The number of events between the two indices (macro capacity).
LEMMA OccupiedValue ==
  ASSUME NEW a \in Slot, NEW b \in Slot
  PROVE  /\ a >= b => occupied(a, b) = a - b
         /\ a < b => occupied(a, b) = a - b + Size
         /\ occupied(a, b) \in 0..buflength
<1>1. buflength \in Nat /\ Size \in Nat /\ Size = buflength + 1 /\ a \in Nat /\ b \in Nat
      /\ a < Size /\ b < Size
  BY BufferAssumption DEF Size, Slot
<1>2. CASE a >= b
  <2> DEFINE x == a - b + Size
  <2>1. x \in Nat /\ Size <= x /\ x < 2 * Size
    BY <1>1, <1>2
  <2>2. x % Size = x - Size
    <3> HIDE DEF x
    <3> QED BY <1>1, <2>1, ModWrap, ZenonT(30)
  <2>3. occupied(a, b) = a - b
    BY <1>1, <2>2 DEF occupied
  <2> QED BY <1>1, <1>2, <2>3
<1>3. CASE a < b
  <2> DEFINE x == a - b + Size
  <2>1. x \in Nat /\ x < Size
    BY <1>1, <1>3
  <2>2. x % Size = x
    <3> HIDE DEF x
    <3> QED BY <1>1, <2>1, ModSmall
  <2>3. occupied(a, b) = a - b + Size
    BY <2>2 DEF occupied
  <2> QED BY <1>1, <1>3, <2>3
<1> QED BY <1>1, <1>2, <1>3

\* The macro forward wraps the last slot to the first.
LEMMA ForwardValue ==
  ASSUME NEW a \in Slot
  PROVE  /\ a < buflength => forward(a) = a + 1
         /\ a = buflength => forward(a) = 0
         /\ forward(a) \in Slot
<1>1. buflength \in Nat /\ Size \in Nat /\ Size = buflength + 1 /\ a \in Nat /\ a <= buflength
  BY BufferAssumption DEF Size, Slot
<1>2. CASE a < buflength
  <2>1. forward(a) = a + 1
    BY <1>1, <1>2, ModSmall DEF forward
  <2> QED BY <1>1, <1>2, <2>1 DEF Slot
<1>3. CASE a = buflength
  <2>1. forward(a) = 0
    BY <1>1, <1>3, ModWrap DEF forward
  <2> QED BY <1>1, <1>3, <2>1 DEF Slot
<1> QED BY <1>1, <1>2, <1>3

\* full and empty are the two ends of the occupation.
LEMMA FullEmpty ==
  ASSUME NEW a \in Slot, NEW b \in Slot
  PROVE  /\ full(a, b) <=> occupied(a, b) = buflength
         /\ empty(a, b) <=> occupied(a, b) = 0
<1>1. buflength \in Nat /\ Size = buflength + 1 /\ a \in 0..buflength /\ b \in 0..buflength
  BY BufferAssumption DEF Size, Slot
<1>2. full(a, b) <=> forward(a) = b
  BY DEF full, forward
<1>3. /\ a >= b => occupied(a, b) = a - b
      /\ a < b => occupied(a, b) = a - b + Size
  BY OccupiedValue
<1>4. /\ a < buflength => forward(a) = a + 1
      /\ a = buflength => forward(a) = 0
  BY ForwardValue
<1>5. full(a, b) <=> occupied(a, b) = buflength
  BY <1>1, <1>2, <1>3, <1>4
<1>6. empty(a, b) <=> occupied(a, b) = 0
  BY <1>1, <1>3 DEF empty
<1> QED BY <1>5, <1>6

\* A store adds one event, a pop removes one.
LEMMA OccupiedStep ==
  ASSUME NEW a \in Slot, NEW b \in Slot
  PROVE  /\ ~full(a, b) => occupied(forward(a), b) = occupied(a, b) + 1
         /\ ~empty(a, b) => occupied(a, forward(b)) = occupied(a, b) - 1
<1>1. buflength \in Nat /\ Size = buflength + 1 /\ a \in 0..buflength /\ b \in 0..buflength
  BY BufferAssumption DEF Size, Slot
<1>2. full(a, b) <=> forward(a) = b
  BY DEF full, forward
<1>3. forward(a) \in Slot /\ forward(b) \in Slot
  BY ForwardValue
<1>4. ~full(a, b) => occupied(forward(a), b) = occupied(a, b) + 1
  BY <1>1, <1>2, <1>3, OccupiedValue, ForwardValue
<1>5. ~empty(a, b) => occupied(a, forward(b)) = occupied(a, b) - 1
  BY <1>1, <1>3, OccupiedValue, ForwardValue DEF empty
<1> QED BY <1>4, <1>5

\* The thresholds in hundredths of an event.
LEMMA Thresholds ==
  /\ warn_level * buflength \in Nat
  /\ normal_level * buflength \in Nat
  /\ normal_level * buflength < warn_level * buflength
  /\ warn_level * buflength <= 100 * buflength
<1>1. warn_level \in Nat /\ normal_level \in Nat /\ buflength \in Nat /\ buflength >= 1
      /\ warn_level <= 100 /\ normal_level + 1 <= warn_level
  BY BufferAssumption
<1>2. (100 - warn_level) * buflength >= 0 /\ (warn_level - normal_level - 1) * buflength >= 0
  BY <1>1
<1> QED BY <1>1, <1>2

(***************************************************************************)
(* The inductive invariant.  A producer between its load and its store has *)
(* raised the level and holds the mutex, so the dispatcher cannot have     *)
(* lowered it again; without this conjunct the store could add an event at *)
(* level NORMAL above the warning threshold.                               *)
(***************************************************************************)
StoreIsRaised == \A p \in Producer : pc[p] = "store" => state # "NORMAL"

IInv == TypeOK /\ StoreIsRaised /\ LevelTracksOccupancy

\* LevelTracksOccupancy as a predicate of a level and an occupation.
Tracks(st, o) ==
  /\ st = "NORMAL" => o = 0 \/ ~AtLeastWarn(o - 1)
  /\ st = "WARNING" => ~AtMostNormal(o + 1)
  /\ st \in {"FULL", "FLOOD"} => ~AtMostWarn(o + 1) /\ ~AtMostNormal(o + 1)

\* The level after the switch of buffer_append fits the occupation, and with
\* one event more when the ring is not full.
LEMMA RaiseTracks ==
  ASSUME TypeOK, Tracks(state, occupied(i, j))
  PROVE  /\ RaisedLevel.level \in Level
         /\ RaisedLevel.set \in SUBSET Flag
         /\ RaisedLevel.set # {} => RaisedLevel.level # "NORMAL"
         /\ RaisedLevel.set = {} => RaisedLevel.level = state
         /\ Tracks(RaisedLevel.level, occupied(i, j))
         /\ ~full(i, j) => Tracks(RaisedLevel.level, occupied(i, j) + 1)
<1> DEFINE o == occupied(i, j)
           W == warn_level * buflength
           N == normal_level * buflength
<1>1. o \in 0..buflength /\ (full(i, j) <=> o = buflength)
  BY OccupiedValue, FullEmpty DEF TypeOK
<1>2. W \in Nat /\ N \in Nat /\ N < W /\ W <= 100 * buflength /\ buflength \in Nat
  BY Thresholds, BufferAssumption
<1>3. state \in Level
  BY DEF TypeOK
<1>4. RaisedLevel = CASE state \in {"NORMAL", "WARNING"} /\ full(i, j) -> [level |-> "FULL", set |-> {"full"}]
    [] state = "NORMAL" /\ ~full(i, j) /\ AtLeastWarn(o) -> [level |-> "WARNING", set |-> {"warn"}]
    [] state = "FULL" /\ age >= tolerance            -> [level |-> "FLOOD", set |-> {"flood"}]
    [] OTHER                                         -> [level |-> state, set |-> {}]
  BY DEF RaisedLevel, warn
<1> HIDE DEF o, W, N
<1>5. CASE state \in {"NORMAL", "WARNING"} /\ full(i, j)
  <2>1. RaisedLevel = [level |-> "FULL", set |-> {"full"}]
    BY <1>4, <1>5
  <2>2. o = buflength
    BY <1>1, <1>5
  <2>3. Tracks("FULL", o)
    BY <1>2, <2>2 DEF Tracks, AtMostWarn, AtMostNormal, W, N
  <2> QED BY <1>5, <2>1, <2>3 DEF Level, Flag, o
<1>6. CASE state = "NORMAL" /\ ~full(i, j) /\ AtLeastWarn(o)
  <2>1. RaisedLevel = [level |-> "WARNING", set |-> {"warn"}]
    BY <1>4, <1>6
  <2>2. Tracks("WARNING", o) /\ Tracks("WARNING", o + 1)
    BY <1>1, <1>2, <1>6 DEF Tracks, AtLeastWarn, AtMostNormal, W, N
  <2> QED BY <2>1, <2>2 DEF Level, Flag, o
<1>7. CASE state = "FULL" /\ age >= tolerance
  <2>1. RaisedLevel = [level |-> "FLOOD", set |-> {"flood"}]
    BY <1>4, <1>7
  <2>2. Tracks("FLOOD", o) /\ Tracks("FLOOD", o + 1)
    BY <1>1, <1>2, <1>7 DEF Tracks, AtMostWarn, AtMostNormal, W, N, o
  <2> QED BY <2>1, <2>2 DEF Level, Flag, o
<1>8. CASE /\ ~(state \in {"NORMAL", "WARNING"} /\ full(i, j))
           /\ ~(state = "NORMAL" /\ ~full(i, j) /\ AtLeastWarn(o))
           /\ ~(state = "FULL" /\ age >= tolerance)
  <2>1. RaisedLevel = [level |-> state, set |-> {}]
    BY <1>4, <1>8
  <2>2. ~full(i, j) => Tracks(state, o + 1)
    BY <1>1, <1>2, <1>3, <1>8 DEF Tracks, AtLeastWarn, AtMostWarn, AtMostNormal, W, N, o, Level
  <2> QED BY <1>3, <2>1, <2>2 DEF Flag, o
<1> QED BY <1>5, <1>6, <1>7, <1>8

\* The level after the switch of dispatch_buffer fits the ring less one event.
LEMMA LowerTracks ==
  ASSUME TypeOK, Tracks(state, occupied(i, j)), ~empty(i, j)
  PROVE  LoweredLevel \in Level /\ Tracks(LoweredLevel, occupied(i, j) - 1)
<1> DEFINE o == occupied(i, j)
           W == warn_level * buflength
           N == normal_level * buflength
<1>1. o \in 0..buflength /\ o # 0
  BY OccupiedValue, FullEmpty DEF TypeOK
<1>2. W \in Nat /\ N \in Nat /\ N < W /\ W <= 100 * buflength /\ buflength \in Nat
  BY Thresholds, BufferAssumption
<1>3. state \in Level
  BY DEF TypeOK
<1>4. LoweredLevel = CASE state # "NORMAL" /\ AtMostNormal(o) -> "NORMAL"
    [] state \in {"FULL", "FLOOD"} /\ AtMostWarn(o) /\ ~AtMostNormal(o) -> "WARNING"
    [] OTHER -> state
  BY DEF LoweredLevel, nowarn, normal
<1> HIDE DEF o, W, N
<1>5. CASE state # "NORMAL" /\ AtMostNormal(o)
  <2>1. LoweredLevel = "NORMAL"
    BY <1>4, <1>5
  <2>2. Tracks("NORMAL", o - 1)
    BY <1>1, <1>2, <1>5 DEF Tracks, AtMostNormal, AtLeastWarn, W, N
  <2> QED BY <2>1, <2>2 DEF Level, o
<1>6. CASE state \in {"FULL", "FLOOD"} /\ AtMostWarn(o) /\ ~AtMostNormal(o)
  <2>1. LoweredLevel = "WARNING"
    BY <1>4, <1>6
  <2>2. Tracks("WARNING", o - 1)
    BY <1>1, <1>2, <1>6 DEF Tracks, AtMostNormal, W, N
  <2> QED BY <2>1, <2>2 DEF Level, o
<1>7. CASE /\ ~(state # "NORMAL" /\ AtMostNormal(o))
           /\ ~(state \in {"FULL", "FLOOD"} /\ AtMostWarn(o) /\ ~AtMostNormal(o))
  <2>1. LoweredLevel = state
    BY <1>4, <1>7
  <2>2. Tracks(state, o - 1)
    BY <1>1, <1>2, <1>3, <1>7 DEF Tracks, AtLeastWarn, AtMostWarn, AtMostNormal, W, N, o, Level
  <2> QED BY <1>3, <2>1, <2>2 DEF o
<1> QED BY <1>5, <1>6, <1>7

\* buffer_init starts with an empty ring at level NORMAL.
LEMMA InitInvariant == Init => IInv
<1> SUFFICES ASSUME Init PROVE IInv
  OBVIOUS
<1>1. 0 \in Slot /\ 0 \in 0..tolerance
  BY BufferAssumption DEF Slot
<1>2. TypeOK
  BY <1>1, BufferAssumption, ZenonT(30) DEF Init, TypeOK, Level, Flag
<1>3. occupied(i, j) = 0
  BY <1>1, OccupiedValue DEF Init
<1> QED BY <1>2, <1>3 DEF Init, IInv, StoreIsRaised, LevelTracksOccupancy

\* The drop or the store at the end of buffer_append: what it does to the ring.
LEMMA InsertRing ==
  ASSUME TypeOK, NEW p \in Producer, pc[p] # "idle", Insert(p)
  PROVE  /\ i' \in Slot
         /\ buffer' \in [Slot -> Msg \union {None}]
         /\ rc' \in [Producer -> {0, -1, None}]
         /\ dpc' \in {"start", "waiting", "check", "clear", "os_wait", "send"}
         /\ \/ full(i, j) /\ i' = i
            \/ ~full(i, j) /\ i' = forward(i)
<1>1. CASE full(i, j)
  BY <1>1 DEF TypeOK, Insert
<1>2. CASE ~full(i, j)
  BY <1>2, ForwardValue DEF TypeOK, Insert, SignalNoEmpty
<1> QED BY <1>1, <1>2

\* Every step keeps the inductive invariant.
LEMMA StepInvariant == IInv /\ [Next]_vars => IInv'
<1> SUFFICES ASSUME IInv, [Next]_vars PROVE IInv'
  OBVIOUS
<1>1. TypeOK /\ StoreIsRaised /\ Tracks(state, occupied(i, j))
  BY DEF IInv, LevelTracksOccupancy, Tracks
<1>2. SUFFICES TypeOK' /\ StoreIsRaised' /\ Tracks(state', occupied(i', j'))
  BY DEF IInv, LevelTracksOccupancy, Tracks, AtLeastWarn, AtMostWarn, AtMostNormal, occupied
<1> USE DEF Flag
<1>3. ASSUME NEW p \in Producer, NEW m \in Msg, Call(p, m)
      PROVE  TypeOK' /\ StoreIsRaised' /\ Tracks(state', occupied(i', j'))
  <2>1. TypeOK'
    BY <1>1, <1>3 DEF TypeOK, Call
  <2> QED BY <1>1, <1>3, <2>1 DEF Call, StoreIsRaised, TypeOK
<1>4. ASSUME NEW p \in Producer, AppendSameLevel(p)
      PROVE  TypeOK' /\ StoreIsRaised' /\ Tracks(state', occupied(i', j'))
  <2>1. pc[p] = "append" /\ Insert(p) /\ RaisedLevel.set = {}
    BY <1>4 DEF AppendSameLevel
  <2>2. TypeOK'
    BY <1>1, <1>4, <2>1, InsertRing DEF TypeOK, AppendSameLevel
  <2>3. StoreIsRaised'
    BY <1>1, <1>4 DEF AppendSameLevel, StoreIsRaised, TypeOK
  <2>4. Tracks(state, occupied(i', j))
    BY <1>1, <2>1, InsertRing, RaiseTracks, OccupiedStep, SMTT(30) DEF TypeOK
  <2> QED BY <1>4, <2>2, <2>3, <2>4 DEF AppendSameLevel
<1>5. ASSUME NEW p \in Producer, AppendRaise(p)
      PROVE  TypeOK' /\ StoreIsRaised' /\ Tracks(state', occupied(i', j'))
  <2>1. /\ RaisedLevel.level \in Level /\ RaisedLevel.level # "NORMAL"
        /\ RaisedLevel.set \in SUBSET Flag
        /\ Tracks(RaisedLevel.level, occupied(i, j))
    BY <1>1, <1>5, RaiseTracks DEF AppendRaise
  <2>2. age' \in 0..tolerance
    BY <1>1, <1>5, BufferAssumption DEF TypeOK, AppendRaise
  <2>3. word' \in [Producer -> SUBSET Flag] /\ owed' \in SUBSET Flag
    BY <1>1, <1>5, <2>1, ZenonT(30) DEF TypeOK, AppendRaise
  <2>4. TypeOK'
    BY <1>1, <1>5, <2>1, <2>2, <2>3, BufferAssumption DEF TypeOK, AppendRaise
  <2>5. StoreIsRaised'
    BY <1>5, <2>1 DEF AppendRaise, StoreIsRaised
  <2> QED BY <1>5, <2>1, <2>4, <2>5, SMTT(30) DEF AppendRaise
<1>6. ASSUME NEW p \in Producer, AppendStore(p)
      PROVE  TypeOK' /\ StoreIsRaised' /\ Tracks(state', occupied(i', j'))
  <2>1. pc[p] = "store" /\ Insert(p) /\ state # "NORMAL"
    BY <1>1, <1>6 DEF AppendStore, StoreIsRaised
  <2>2. TypeOK'
    BY <1>1, <1>6, <2>1, InsertRing, BufferAssumption DEF TypeOK, AppendStore
  <2>3. StoreIsRaised'
    BY <1>1, <1>6 DEF AppendStore, StoreIsRaised, TypeOK
  <2>4. occupied(i, j) \in 0..buflength /\ (occupied(i', j) = occupied(i, j) \/ occupied(i', j) = occupied(i, j) + 1)
    BY <1>1, <2>1, InsertRing, OccupiedValue, OccupiedStep DEF TypeOK
  <2>5. Tracks(state, occupied(i, j) + 1)
    <3> DEFINE o == occupied(i, j)
    <3>1. o \in Nat
      BY <2>4, BufferAssumption
    <3> HIDE DEF o
    <3>2. Tracks(state, o + 1)
      BY <1>1, <2>1, <3>1, Thresholds DEF Tracks, AtMostWarn, AtMostNormal, o
    <3> QED BY <3>2 DEF o
  <2> QED BY <1>1, <1>6, <2>2, <2>3, <2>4, <2>5 DEF AppendStore
<1>7. ASSUME DispatchPop
      PROVE  TypeOK' /\ StoreIsRaised' /\ Tracks(state', occupied(i', j'))
  <2>1. LoweredLevel \in Level /\ Tracks(LoweredLevel, occupied(i, j) - 1)
    BY <1>1, <1>7, LowerTracks DEF DispatchPop
  <2>2. j' \in Slot /\ occupied(i, j') = occupied(i, j) - 1
    BY <1>1, <1>7, ForwardValue, OccupiedStep DEF TypeOK, DispatchPop
  <2>3. TypeOK'
    BY <1>1, <1>7, <2>1, <2>2 DEF TypeOK, DispatchPop
  <2>4. StoreIsRaised'
    BY <1>1, <1>7, BufferAssumption DEF TypeOK, StoreIsRaised, DispatchPop
  <2> QED BY <1>7, <2>1, <2>2, <2>3, <2>4 DEF DispatchPop
<1>8. ASSUME SkipNotice \/ LoadNotice \/ ClearNotice
      PROVE  TypeOK' /\ StoreIsRaised' /\ Tracks(state', occupied(i', j'))
  <2>1. AfterNotice.dpc \in {"check", "os_wait"} /\ AfterNotice.notice \in Flag
    BY <1>1 DEF AfterNotice, TypeOK
  <2>2. TypeOK'
    BY <1>1, <1>8, <2>1, ZenonT(30) DEF TypeOK, SkipNotice, LoadNotice, ClearNotice
  <2> QED BY <1>1, <1>8, <2>2 DEF SkipNotice, LoadNotice, ClearNotice, StoreIsRaised
<1>9. ASSUME DispatchWait \/ DispatchSend \/ SpuriousWakeup \/ os_wait \/ os_setwait \/ os_delwait
      PROVE  TypeOK' /\ StoreIsRaised' /\ Tracks(state', occupied(i', j'))
  <2>1. TypeOK'
    BY <1>1, <1>9, ZenonT(30) DEF TypeOK, DispatchWait, DispatchSend, SpuriousWakeup, os_wait, os_setwait, os_delwait
  <2> QED BY <1>1, <1>9, <2>1 DEF DispatchWait, DispatchSend, SpuriousWakeup, os_wait, os_setwait,
                 os_delwait, StoreIsRaised
<1>10. ASSUME Tick
       PROVE  TypeOK' /\ StoreIsRaised' /\ Tracks(state', occupied(i', j'))
  <2>1. TypeOK'
    BY <1>1, <1>10, BufferAssumption DEF TypeOK, Tick
  <2> QED BY <1>1, <1>10, <2>1 DEF Tick, StoreIsRaised
<1>11. ASSUME UNCHANGED vars
       PROVE  TypeOK' /\ StoreIsRaised' /\ Tracks(state', occupied(i', j'))
  <2>1. TypeOK'
    BY <1>1, <1>11 DEF TypeOK, vars
  <2> QED BY <1>1, <1>11, <2>1 DEF vars, StoreIsRaised
<1> QED BY <1>3, <1>4, <1>5, <1>6, <1>7, <1>8, <1>9, <1>10, <1>11
        DEF Next, buffer_append, dispatch_buffer

\* In every behaviour of buffer.c the ring's indices and the other variables
\* keep their types.
THEOREM TypeCorrect == Spec => []TypeOK
<1>1. IInv => TypeOK
  BY DEF IInv
<1> QED BY <1>1, InitInvariant, StepInvariant, PTL DEF Spec

\* In every behaviour of buffer.c the level follows the occupation of the ring
\* with a lag of at most one event.
THEOREM LevelCorrect == Spec => []LevelTracksOccupancy
<1>1. IInv => LevelTracksOccupancy
  BY DEF IInv
<1> QED BY <1>1, InitInvariant, StepInvariant, PTL DEF Spec

(***************************************************************************)
(* The request to report the return to normal.  It is set under the mutex  *)
(* by the thread that clears the bits, so no load of buff that is still to *)
(* be stored can be older than it: a producer between its load and its     *)
(* store, and the dispatcher between its own, carry the bit along.         *)
(***************************************************************************)
NoticeCarried ==
  /\ \A p \in Producer : pc[p] = "store" /\ "normal" \in owed => "normal" \in word[p]
  /\ dpc = "clear" /\ "normal" \in owed => "normal" \in dword

\* buffer_append never sets the bit that reports the return to normal.
LEMMA RaiseSetsNoNormal == "normal" \notin RaisedLevel.set
<1> DEFINE A == state \in {"NORMAL", "WARNING"} /\ full(i, j)
           B == state = "NORMAL" /\ ~full(i, j) /\ warn(i, j)
           C == state = "FULL" /\ age >= tolerance
<1>1. RaisedLevel = CASE A -> [level |-> "FULL", set |-> {"full"}]
                      [] B -> [level |-> "WARNING", set |-> {"warn"}]
                      [] C -> [level |-> "FLOOD", set |-> {"flood"}]
                      [] OTHER -> [level |-> state, set |-> {}]
  BY DEF RaisedLevel
<1>2. ~(A /\ B) /\ ~(A /\ C) /\ ~(B /\ C)
  OBVIOUS
<1> HIDE DEF A, B, C
<1> QED BY <1>1, <1>2

\* The store at the end of buffer_append may wake the dispatcher up, and does
\* not put it between a load and a store of buff.
LEMMA InsertKeepsClear ==
  ASSUME NEW p \in Producer, Insert(p)
  PROVE  dpc' = "clear" => dpc = "clear"
  BY DEF Insert, SignalNoEmpty

\* Every step keeps the bit and its copies.
LEMMA NoticeStep ==
  ASSUME TypeOK, NormalNoticeKept, NoticeCarried, [Next]_vars
  PROVE  NormalNoticeKept' /\ NoticeCarried'
<1> USE DEF NormalNoticeKept, NoticeCarried
<1>1. ASSUME NEW p \in Producer, NEW m \in Msg, Call(p, m)
      PROVE  NormalNoticeKept' /\ NoticeCarried'
  BY <1>1 DEF Call, TypeOK
<1>2. ASSUME NEW p \in Producer, AppendSameLevel(p)
      PROVE  NormalNoticeKept' /\ NoticeCarried'
  BY <1>2, InsertKeepsClear DEF AppendSameLevel, TypeOK
<1>3. ASSUME NEW p \in Producer, AppendRaise(p)
      PROVE  NormalNoticeKept' /\ NoticeCarried'
  BY <1>3, RaiseSetsNoNormal DEF AppendRaise, TypeOK
<1>4. ASSUME NEW p \in Producer, AppendStore(p)
      PROVE  NormalNoticeKept' /\ NoticeCarried'
  BY <1>4, InsertKeepsClear, BufferAssumption DEF AppendStore, TypeOK
<1>5. ASSUME DispatchPop
      PROVE  NormalNoticeKept' /\ NoticeCarried'
  BY <1>5, BufferAssumption DEF DispatchPop, TypeOK
<1>6. ASSUME SkipNotice \/ LoadNotice
      PROVE  NormalNoticeKept' /\ NoticeCarried'
  <2>1. AfterNotice.dpc # "clear"
    BY DEF AfterNotice, TypeOK, Flag
  <2> QED BY <1>6, <2>1 DEF SkipNotice, LoadNotice
<1>7. ASSUME ClearNotice
      PROVE  NormalNoticeKept' /\ NoticeCarried'
  <2>1. AfterNotice.dpc # "clear"
    BY DEF AfterNotice, TypeOK, Flag
  <2> QED BY <1>7, <2>1 DEF ClearNotice
<1>8. ASSUME DispatchWait \/ DispatchSend \/ SpuriousWakeup \/ os_wait \/ os_setwait \/ os_delwait \/ Tick
      PROVE  NormalNoticeKept' /\ NoticeCarried'
  BY <1>8 DEF DispatchWait, DispatchSend, SpuriousWakeup, os_wait, os_setwait, os_delwait, Tick
<1>9. ASSUME UNCHANGED vars
      PROVE  NormalNoticeKept' /\ NoticeCarried'
  BY <1>9 DEF vars
<1> QED BY <1>1, <1>2, <1>3, <1>4, <1>5, <1>6, <1>7, <1>8, <1>9
        DEF Next, buffer_append, dispatch_buffer

\* In every behaviour of buffer.c the request to report the return to normal
\* survives the unlocked updates of buff until dispatch_buffer has reported it.
THEOREM NormalReported == Spec => []NormalNoticeKept
<1>1. Init => NormalNoticeKept /\ NoticeCarried
  BY DEF Init, NormalNoticeKept, NoticeCarried
<1>2. TypeOK /\ NormalNoticeKept /\ NoticeCarried /\ [Next]_vars => NormalNoticeKept' /\ NoticeCarried'
  BY NoticeStep
<1> QED BY <1>1, <1>2, TypeCorrect, PTL DEF Spec

(***************************************************************************)
(* The refinement.  Stored reads the slots from j on, so the proof is      *)
(* about which slot is the k-th one; beyond the types it needs that a call *)
(* without a result is a call in progress, that the dispatcher holds an    *)
(* event exactly between its pop and its send, and that the slots between  *)
(* the two indices hold events.                                            *)
(***************************************************************************)
FifoInv ==
  /\ \A p \in Producer : rc[p] = None <=> pc[p] # "idle"
  /\ dpc \in {"start", "waiting"} => msg_output = None
  /\ dpc \notin {"start", "waiting"} => msg_output \in Msg
  /\ Stored \in Seq(Msg)

\* The slot of the k-th event.
Place(b, k) == (b + k - 1) % Size

\* Where the k-th event lies, counted from slot b.
LEMMA PlaceValue ==
  ASSUME NEW b \in Slot, NEW k \in 1..Size
  PROVE  /\ b + k - 1 <= buflength => Place(b, k) = b + k - 1
         /\ b + k - 1 > buflength => Place(b, k) = b + k - 1 - Size
         /\ Place(b, k) \in Slot
<1>1. buflength \in Nat /\ Size \in Nat /\ Size = buflength + 1 /\ b \in Nat /\ b <= buflength /\ k \in Nat
      /\ 1 <= k /\ k <= Size
  BY BufferAssumption DEF Size, Slot
<1> DEFINE x == b + k - 1
<1>2. x \in Nat /\ x < 2 * Size
  BY <1>1
<1>3. Place(b, k) = x % Size
  BY DEF Place
<1> HIDE DEF x
<1>4. x <= buflength => Place(b, k) = x
  BY <1>1, <1>2, <1>3, ModSmall
<1>5. ASSUME x > buflength PROVE Place(b, k) = x - Size
  <2>1. Size <= x
    BY <1>1, <1>2, <1>5
  <2> QED BY <1>1, <1>2, <1>3, <2>1, ModWrap, ZenonT(30)
<1> QED BY <1>1, <1>2, <1>4, <1>5 DEF x, Slot

\* The slot of the next store is the one after the last event, and holds none of
\* the events; a pop makes the second event the first.
LEMMA Places ==
  ASSUME NEW a \in Slot, NEW b \in Slot
  PROVE  /\ Place(b, occupied(a, b) + 1) = a
         /\ \A k \in 1..occupied(a, b) : Place(b, k) # a /\ Place(b, k) \in Slot
         /\ Place(b, 1) = b
         /\ \A k \in 1..(occupied(a, b) - 1) : Place(forward(b), k) = Place(b, k + 1)
<1>1. buflength \in Nat /\ Size \in Nat /\ Size = buflength + 1 /\ a \in Nat /\ a <= buflength
      /\ b \in Nat /\ b <= buflength
  BY BufferAssumption DEF Size, Slot
<1>2. /\ a >= b => occupied(a, b) = a - b
      /\ a < b => occupied(a, b) = a - b + Size
      /\ occupied(a, b) \in 0..buflength
  BY OccupiedValue
<1>3. forward(b) \in Slot /\ (b < buflength => forward(b) = b + 1) /\ (b = buflength => forward(b) = 0)
  BY ForwardValue
<1>4. occupied(a, b) + 1 \in 1..Size /\ 1 \in 1..Size
  BY <1>1, <1>2
<1>5. Place(b, occupied(a, b) + 1) = a /\ Place(b, 1) = b
  BY <1>1, <1>2, <1>4, PlaceValue
<1>6. ASSUME NEW k \in 1..occupied(a, b)
      PROVE  Place(b, k) # a /\ Place(b, k) \in Slot
  <2>1. k \in 1..Size /\ k \in Nat
    BY <1>1, <1>2
  <2> QED BY <1>1, <1>2, <2>1, PlaceValue
<1>7. ASSUME NEW k \in 1..(occupied(a, b) - 1)
      PROVE  Place(forward(b), k) = Place(b, k + 1)
  <2>1. k \in 1..Size /\ k + 1 \in 1..Size /\ k \in Nat /\ k + 1 <= buflength
    BY <1>1, <1>2
  <2>2. /\ b + k <= buflength => Place(b, k + 1) = b + k
        /\ b + k > buflength => Place(b, k + 1) = b + k - Size
    BY <1>1, <2>1, PlaceValue
  <2>3. /\ forward(b) + k - 1 <= buflength => Place(forward(b), k) = forward(b) + k - 1
        /\ forward(b) + k - 1 > buflength => Place(forward(b), k) = forward(b) + k - 1 - Size
    BY <1>3, <2>1, PlaceValue
  <2> QED BY <1>1, <1>3, <2>1, <2>2, <2>3
<1> QED BY <1>5, <1>6, <1>7

\* The stored events are a sequence as long as the ring is occupied.
LEMMA StoredIs ==
  ASSUME TypeOK
  PROVE  /\ Stored = [k \in 1..occupied(i, j) |-> buffer[Place(j, k)]]
         /\ Stored \in Seq(Msg \union {None})
         /\ Len(Stored) = occupied(i, j)
         /\ occupied(i, j) \in Nat
<1>1. Stored = [k \in 1..occupied(i, j) |-> buffer[Place(j, k)]]
  BY DEF Stored, Place
<1>2. occupied(i, j) \in Nat
  BY OccupiedValue, BufferAssumption DEF TypeOK
<1>3. \A k \in 1..occupied(i, j) : buffer[Place(j, k)] \in Msg \union {None}
  BY Places DEF TypeOK
<1> HIDE DEF Stored
<1> QED BY <1>1, <1>2, <1>3

\* A store into slot i appends to the stored events.
LEMMA StoreAppends ==
  ASSUME TypeOK, TypeOK', NEW e \in Msg, ~full(i, j), i' = forward(i), j' = j,
         buffer' = [buffer EXCEPT ![i] = e]
  PROVE  Stored' = Append(Stored, e)
<1> DEFINE o == occupied(i, j)
<1>1. occupied(i', j') = o + 1 /\ o \in Nat
  BY OccupiedStep, StoredIs DEF TypeOK
<1>2. Stored = [k \in 1..o |-> buffer[Place(j, k)]] /\ Len(Stored) = o /\ Stored \in Seq(Msg \union {None})
  BY StoredIs
<1>3. Stored' = [k \in 1..(o + 1) |-> buffer'[Place(j, k)]]
  BY <1>1 DEF Stored, Place, occupied, Size
<1>4. Place(j, o + 1) = i /\ \A k \in 1..o : Place(j, k) # i /\ Place(j, k) \in Slot
  BY Places DEF TypeOK
<1>5. buffer \in [Slot -> Msg \union {None}] /\ i \in Slot
  BY DEF TypeOK
<1> HIDE DEF o
<1>6. \A k \in 1..(o + 1) : buffer'[Place(j, k)] = IF k = o + 1 THEN e ELSE Stored[k]
  BY <1>1, <1>2, <1>4, <1>5
<1>7. Append(Stored, e) = [k \in 1..(o + 1) |-> IF k = o + 1 THEN e ELSE Stored[k]]
  BY <1>1, <1>2
<1> QED BY <1>3, <1>6, <1>7

\* A pop of slot j takes the first of the stored events.
LEMMA PopTakes ==
  ASSUME TypeOK, ~empty(i, j), j' = forward(j), i' = i, buffer' = buffer
  PROVE  /\ Stored # <<>>
         /\ Head(Stored) = buffer[j]
         /\ Stored' = Tail(Stored)
<1> DEFINE o == occupied(i, j)
<1>1. occupied(i', j') = o - 1 /\ o \in Nat /\ o # 0
  BY OccupiedStep, StoredIs, FullEmpty DEF TypeOK
<1>2. Stored = [k \in 1..o |-> buffer[Place(j, k)]] /\ Len(Stored) = o /\ Stored \in Seq(Msg \union {None})
  BY StoredIs
<1>3. Stored' = [k \in 1..(o - 1) |-> buffer[Place(forward(j), k)]]
  BY <1>1 DEF Stored, Place, occupied, Size
<1>4. Place(j, 1) = j /\ \A k \in 1..(o - 1) : Place(forward(j), k) = Place(j, k + 1)
  BY Places DEF TypeOK
<1> HIDE DEF o
<1>5. Stored # <<>> /\ Head(Stored) = buffer[j]
  <2>1. 1 \in 1..o /\ Head(Stored) = Stored[1] /\ Len(Stored) # 0
    BY <1>1, <1>2
  <2> QED BY <1>2, <1>4, <2>1
<1>6. Tail(Stored) = [k \in 1..(o - 1) |-> Stored[k + 1]]
  BY <1>1, <1>2
<1>7. \A k \in 1..(o - 1) : Stored[k + 1] = buffer[Place(forward(j), k)]
  BY <1>1, <1>2, <1>4
<1> QED BY <1>3, <1>5, <1>6, <1>7

\* What FifoInv says of the callers and the dispatcher.
CallsInv ==
  /\ \A p \in Producer : rc[p] = None <=> pc[p] # "idle"
  /\ dpc \in {"start", "waiting"} => msg_output = None
  /\ dpc \notin {"start", "waiting"} => msg_output \in Msg

\* A step that touches neither the ring nor the event in hand nor a result is
\* no step of the queue.
LEMMA Stutter ==
  ASSUME i' = i, j' = j, buffer' = buffer, msg_output' = msg_output, rc' = rc
  PROVE  Stored' = Stored /\ [Fifo!Next]_(Fifo!vars)
<1>1. Stored' = Stored
  BY DEF Stored, occupied, Size
<1> QED BY <1>1 DEF Fifo!vars

\* The end of buffer_append is a Store or a Refuse of the queue.
LEMMA InsertImplements ==
  ASSUME TypeOK, TypeOK', FifoInv, NEW p \in Producer, pc[p] # "idle", Insert(p),
         j' = j, msg_output' = msg_output, pc' = [pc EXCEPT ![p] = "idle"]
  PROVE  FifoInv' /\ [Fifo!Next]_(Fifo!vars)
<1>1. rc[p] = None /\ msg[p] \in Msg /\ Stored \in Seq(Msg) /\ Len(Stored) = occupied(i, j)
  BY StoredIs DEF FifoInv, TypeOK
<1>2. rc' = [rc EXCEPT ![p] = 0] \/ rc' = [rc EXCEPT ![p] = -1]
  BY DEF Insert
<1>3. \/ dpc' = dpc
      \/ dpc = "waiting" /\ dpc' = "start"
  BY DEF Insert, SignalNoEmpty
<1>4. CallsInv'
  BY <1>2, <1>3, BufferAssumption DEF FifoInv, CallsInv, TypeOK
<1>5. CASE full(i, j)
  <2>1. i' = i /\ buffer' = buffer /\ rc' = [rc EXCEPT ![p] = -1]
    BY <1>5 DEF Insert
  <2>2. Stored' = Stored
    BY <2>1 DEF Stored, occupied, Size
  <2>3. Len(Stored) = buflength
    BY <1>1, <1>5, FullEmpty, SMTT(30) DEF TypeOK
  <2>4. Fifo!Refuse(p)
    BY <1>1, <2>1, <2>2, <2>3 DEF Fifo!Refuse
  <2> QED BY <1>1, <1>4, <2>2, <2>4 DEF FifoInv, CallsInv, Fifo!Next
<1>6. CASE ~full(i, j)
  <2>1. i' = forward(i) /\ buffer' = [buffer EXCEPT ![i] = msg[p]] /\ rc' = [rc EXCEPT ![p] = 0]
    BY <1>6, SMTT(30) DEF Insert
  <2>2. Stored' = Append(Stored, msg[p])
    BY <1>1, <1>6, <2>1, StoreAppends, ZenonT(30)
  <2>3. Len(Stored) < buflength
    BY <1>1, <1>6, FullEmpty, OccupiedValue, BufferAssumption DEF TypeOK
  <2>4. Fifo!Store(p, msg[p])
    BY <1>1, <2>1, <2>2, <2>3, ZenonT(30) DEF Fifo!Store
  <2>5. Stored' \in Seq(Msg)
    BY <1>1, <2>2
  <2> QED BY <1>1, <1>4, <2>4, <2>5 DEF FifoInv, CallsInv, Fifo!Next
<1> QED BY <1>5, <1>6

\* Every step of buffer.c is a step of the queue or leaves it alone.
LEMMA StepImplements ==
  ASSUME TypeOK, TypeOK', FifoInv, [Next]_vars
  PROVE  FifoInv' /\ [Fifo!Next]_(Fifo!vars)
<1>0. CallsInv /\ Stored \in Seq(Msg) /\ (CallsInv' /\ Stored' \in Seq(Msg) => FifoInv')
  BY DEF FifoInv, CallsInv
<1>1. ASSUME NEW p \in Producer, NEW m \in Msg, Call(p, m)
      PROVE  FifoInv' /\ [Fifo!Next]_(Fifo!vars)
  <2>1. Stored' = Stored
    BY <1>1 DEF Call, Stored, occupied, Size
  <2>2. CallsInv'
    BY <1>0, <1>1 DEF Call, CallsInv, TypeOK
  <2>3. Fifo!Call(p)
    BY <1>0, <1>1, <2>1 DEF Call, CallsInv, Fifo!Call
  <2> QED BY <1>0, <2>1, <2>2, <2>3 DEF Fifo!Next
<1>2. ASSUME NEW p \in Producer, AppendSameLevel(p) \/ AppendStore(p)
      PROVE  FifoInv' /\ [Fifo!Next]_(Fifo!vars)
  BY <1>2, InsertImplements DEF AppendSameLevel, AppendStore
<1>3. ASSUME NEW p \in Producer, AppendRaise(p)
      PROVE  FifoInv' /\ [Fifo!Next]_(Fifo!vars)
  <2>1. Stored' = Stored /\ [Fifo!Next]_(Fifo!vars)
    BY <1>3, Stutter, SMTT(30) DEF AppendRaise
  <2>2. CallsInv'
    BY <1>0, <1>3 DEF AppendRaise, CallsInv, TypeOK
  <2> QED BY <1>0, <2>1, <2>2
<1>4. ASSUME DispatchPop
      PROVE  FifoInv' /\ [Fifo!Next]_(Fifo!vars)
  <2>1. Stored # <<>> /\ Head(Stored) = buffer[j] /\ Stored' = Tail(Stored)
    BY <1>4, PopTakes DEF DispatchPop
  <2>2. Tail(Stored) \in Seq(Msg) /\ Head(Stored) \in Msg
    BY <1>0, <2>1
  <2>3. CallsInv'
    BY <1>0, <1>4, <2>1, <2>2 DEF DispatchPop, CallsInv
  <2>4. Fifo!Take
    BY <1>0, <1>4, <2>1 DEF DispatchPop, CallsInv, Fifo!Take
  <2> QED BY <1>0, <2>1, <2>2, <2>3, <2>4 DEF Fifo!Next
<1>5. ASSUME DispatchSend
      PROVE  FifoInv' /\ [Fifo!Next]_(Fifo!vars)
  <2>1. Stored' = Stored
    BY <1>5 DEF DispatchSend, Stored, occupied, Size
  <2>2. CallsInv'
    BY <1>0, <1>5 DEF DispatchSend, CallsInv
  <2>3. Fifo!Deliver
    BY <1>0, <1>5, <2>1, BufferAssumption DEF DispatchSend, CallsInv, Fifo!Deliver
  <2> QED BY <1>0, <2>1, <2>2, <2>3 DEF Fifo!Next
<1>6. ASSUME SkipNotice \/ LoadNotice \/ ClearNotice
      PROVE  FifoInv' /\ [Fifo!Next]_(Fifo!vars)
  <2>1. AfterNotice.dpc \in {"check", "os_wait"}
    BY DEF AfterNotice, TypeOK, Flag
  <2>2. Stored' = Stored /\ [Fifo!Next]_(Fifo!vars)
    BY <1>6, Stutter DEF SkipNotice, LoadNotice, ClearNotice
  <2>3. CallsInv'
    BY <1>0, <1>6, <2>1 DEF SkipNotice, LoadNotice, ClearNotice, CallsInv
  <2> QED BY <1>0, <2>2, <2>3
<1>7. ASSUME DispatchWait \/ SpuriousWakeup \/ os_wait \/ os_setwait \/ os_delwait \/ Tick
      PROVE  FifoInv' /\ [Fifo!Next]_(Fifo!vars)
  <2>1. Stored' = Stored /\ [Fifo!Next]_(Fifo!vars)
    BY <1>7, Stutter DEF DispatchWait, SpuriousWakeup, os_wait, os_setwait, os_delwait, Tick
  <2>2. CallsInv'
    BY <1>0, <1>7 DEF DispatchWait, SpuriousWakeup, os_wait, os_setwait, os_delwait, Tick, CallsInv
  <2> QED BY <1>0, <2>1, <2>2
<1>8. ASSUME UNCHANGED vars
      PROVE  FifoInv' /\ [Fifo!Next]_(Fifo!vars)
  <2>1. Stored' = Stored /\ [Fifo!Next]_(Fifo!vars)
    BY <1>8, Stutter DEF vars
  <2>2. CallsInv'
    BY <1>0, <1>8 DEF vars, CallsInv
  <2> QED BY <1>0, <2>1, <2>2
<1> QED BY <1>1, <1>2, <1>3, <1>4, <1>5, <1>6, <1>7, <1>8
        DEF Next, buffer_append, dispatch_buffer

\* The ring of buffer.c, with its indices, its drop when full and its pop,
\* implements the bounded queue for every length and any number of producers: no
\* event is lost, duplicated, reordered or overwritten.
THEOREM RingImplementsFifo == Spec => ImplementsFifo
<1>1. Init => FifoInv /\ Fifo!Init
  <2> SUFFICES ASSUME Init PROVE FifoInv /\ Fifo!Init
    OBVIOUS
  <2>1. occupied(i, j) = 0
    BY OccupiedValue, BufferAssumption DEF Init, Slot
  <2>2. Stored = <<>>
    BY <2>1 DEF Stored
  <2> QED BY <2>2, BufferAssumption DEF Init, FifoInv, Fifo!Init
<1>2. TypeOK /\ TypeOK' /\ FifoInv /\ [Next]_vars => FifoInv' /\ [Fifo!Next]_(Fifo!vars)
  BY StepImplements
<1> QED BY <1>1, <1>2, TypeCorrect, PTL DEF Spec, ImplementsFifo, Fifo!Spec
=============================================================================
