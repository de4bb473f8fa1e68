-------------------------- MODULE NetBufferProofs --------------------------
(***************************************************************************)
(* The network buffers of a connection, for any sizes of the messages, of  *)
(* the buffers and of the parts in which bytes are sent and received.      *)
(*                                                                         *)
(* The ring of bqueue_op.c is said to hold a sequence of bytes; every      *)
(* operation on it is shown to do to that sequence what it should,         *)
(* wherever the data lies and however the memory is grown or halved.  Of   *)
(* the loop of nb_recv it is shown where it stops and what it has handed   *)
(* over by then, wherever the bytes received end.                          *)
(***************************************************************************)
EXTENDS NetBuffer, WellFoundedInduction, TLAPS

(***************************************************************************)
(* Sequences                                                               *)
(***************************************************************************)

\* What the provers know of sequences, as facts to cite.
LEMMA LenProperties ==
  ASSUME NEW S, NEW s \in Seq(S)
  PROVE  Len(s) \in Nat /\ s \in [1 .. Len(s) -> S] /\ DOMAIN s = 1 .. Len(s)
BY SMTT(30), Z3T(30)

\* The type of an element.
LEMMA ElementOfSeq ==
  ASSUME NEW S, NEW s \in Seq(S), NEW i \in 1 .. Len(s)
  PROVE  s[i] \in S
BY SMTT(30), Z3T(30)

\* A sequence over a larger set.
LEMMA SeqMonotonic ==
  ASSUME NEW S, NEW T, S \subseteq T, NEW s \in Seq(S)
  PROVE  s \in Seq(T)
BY SMTT(30), Z3T(30)

\* The empty sequence, and that no other is as short.
LEMMA EmptySeq ==
  ASSUME NEW S
  PROVE  <<>> \in Seq(S) /\ Len(<<>>) = 0 /\ \A s \in Seq(S) : s # <<>> => Len(s) \in Nat \ {0}
BY SMTT(30), Z3T(30)

\* Sequences with the same length and elements are equal.
LEMMA SeqEqual ==
  ASSUME NEW S, NEW s \in Seq(S), NEW u \in Seq(S), Len(s) = Len(u), \A i \in 1 .. Len(s) : s[i] = u[i]
  PROVE  s = u
BY SMTT(30), Z3T(30)

\* Length and elements of a concatenation.
LEMMA ConcatProperties ==
  ASSUME NEW S, NEW s \in Seq(S), NEW u \in Seq(S)
  PROVE  /\ s \o u \in Seq(S) /\ Len(s \o u) = Len(s) + Len(u)
         /\ \A i \in 1 .. (Len(s) + Len(u)) :
              (s \o u)[i] = IF i <= Len(s) THEN s[i] ELSE u[i - Len(s)]
BY SMTT(30), Z3T(30)

\* The empty sequence adds nothing.
LEMMA ConcatEmptySeq ==
  ASSUME NEW S, NEW s \in Seq(S)
  PROVE  s \o <<>> = s /\ <<>> \o s = s
BY SMTT(30), Z3T(30)

\* Concatenation is associative.
LEMMA ConcatAssociative ==
  ASSUME NEW S, NEW s \in Seq(S), NEW u \in Seq(S), NEW v \in Seq(S)
  PROVE  (s \o u) \o v = s \o (u \o v)
BY SMTT(30), Z3T(30)

\* Length and elements of a part of a sequence.
LEMMA SubSeqProperties ==
  ASSUME NEW S, NEW s, NEW a \in Int, NEW b \in Int, \A i \in a .. b : s[i] \in S
  PROVE  /\ SubSeq(s, a, b) \in Seq(S)
         /\ Len(SubSeq(s, a, b)) = IF a <= b THEN b - a + 1 ELSE 0
         /\ \A i \in 1 .. (b - a + 1) : SubSeq(s, a, b)[i] = s[a + i - 1]
BY SMTT(30), Z3T(30)

\* A part that ends before it begins.
LEMMA SubSeqEmpty ==
  ASSUME NEW s, NEW a \in Int, NEW b \in Int, b < a
  PROVE  SubSeq(s, a, b) = <<>>
BY SMTT(30), Z3T(30)

\* Length and elements after one more.
LEMMA AppendProperties ==
  ASSUME NEW S, NEW s \in Seq(S), NEW e \in S
  PROVE  /\ Append(s, e) \in Seq(S) /\ Len(Append(s, e)) = Len(s) + 1
         /\ \A i \in 1 .. Len(s) : Append(s, e)[i] = s[i]
         /\ Append(s, e)[Len(s) + 1] = e
BY SMTT(30), Z3T(30)

\* Two parts that meet.
LEMMA ConcatAdjacentSubSeq ==
  ASSUME NEW S, NEW s \in Seq(S), NEW a \in 1 .. (Len(s) + 1), NEW b \in (a - 1) .. Len(s),
         NEW c \in b .. Len(s)
  PROVE  SubSeq(s, a, b) \o SubSeq(s, b + 1, c) = SubSeq(s, a, c)
BY SMTT(30), Z3T(30)

(***************************************************************************)
(* Frames                                                                  *)
(***************************************************************************)

\* The part of a sequence behind its first a elements, up to its b-th.
LEMMA Part ==
  ASSUME NEW S, NEW s \in Seq(S), NEW a \in Nat, NEW b \in Nat, b <= Len(s)
  PROVE  /\ SubSeq(s, a + 1, b) \in Seq(S)
         /\ Len(SubSeq(s, a + 1, b)) = (IF a <= b THEN b - a ELSE 0)
         /\ \A i \in 1 .. (b - a) : SubSeq(s, a + 1, b)[i] = s[a + i]
<1> DEFINE x == a + 1
<1>1. x \in Int /\ b \in Int /\ \A i \in x .. b : i \in 1 .. Len(s)
  BY LenProperties, SMTT(30), Z3T(30)
<1>2. \A i \in x .. b : s[i] \in S
  BY <1>1, ElementOfSeq
<1> HIDE DEF x
<1>3. /\ SubSeq(s, x, b) \in Seq(S)
      /\ Len(SubSeq(s, x, b)) = (IF x <= b THEN b - x + 1 ELSE 0)
      /\ \A i \in 1 .. (b - x + 1) : SubSeq(s, x, b)[i] = s[x + i - 1]
  BY <1>1, <1>2, SubSeqProperties, SMTT(30), Z3T(30)
<1>4. \A i \in 1 .. (b - a) : i \in 1 .. (b - x + 1) /\ x + i - 1 = a + i
  BY <1>1, SMTT(30), Z3T(30) DEF x
<1> QED BY <1>3, <1>4, SMTT(30), Z3T(30) DEF x

\* A set of numbers that is not empty has a least one.
LEMMA Smallest ==
  ASSUME NEW T, T \subseteq Nat, T # {}
  PROVE  \E x \in T : \A y \in T : ~(y < x)
<1> DEFINE R == OpToRel(<, Nat)
<1>1. PICK x \in T : \A y \in T : ~(<<y, x>> \in R)
  BY WFMin, NatLessThanWellFounded, ZenonT(30)
<1>2. \A y \in T : ~(y < x)
  BY <1>1, ZenonT(30) DEF OpToRel
<1> QED BY <1>2

\* A set that has 0 and with every number the next one has all, up to a bound.
LEMMA Upwards ==
  ASSUME NEW K \in Nat, NEW G, 0 \in G, \A k \in 0 .. (K - 1) : k \in G => k + 1 \in G
  PROVE  \A k \in 0 .. K : k \in G
<1> SUFFICES ASSUME NEW b \in 0 .. K, b \notin G PROVE FALSE
  OBVIOUS
<1> DEFINE T == {k \in 0 .. K : k \notin G}
<1>1. T \subseteq Nat /\ T # {}
  BY SMTT(30), Z3T(30)
<1>2. PICK x \in T : \A y \in T : ~(y < x)
  <2> HIDE DEF T
  <2> QED BY <1>1, Smallest, ZenonT(30)
<1>4. x \in 0 .. K /\ x # 0 /\ x \notin G
  OBVIOUS
<1>5. x - 1 \in 0 .. (K - 1) /\ x - 1 \in 0 .. K /\ x - 1 < x /\ (x - 1) + 1 = x
  BY <1>4, SMTT(30), Z3T(30)
<1>6. x - 1 \in G
  BY <1>2, <1>5
<1> QED BY <1>4, <1>5, <1>6

\* A set of numbers up to a bound that has 0 has a largest number.
LEMMA LargestOf ==
  ASSUME NEW K \in Nat, NEW G \in SUBSET (0 .. K), 0 \in G
  PROVE  \E k \in G : \A j \in G : j <= k
<1> DEFINE T == {K - k : k \in G}
<1>1. T \subseteq Nat /\ T # {}
  BY SMTT(30), Z3T(30)
<1>2. PICK x \in T : \A y \in T : ~(y < x)
  <2> HIDE DEF T
  <2> QED BY <1>1, Smallest, ZenonT(30)
<1>4. PICK k \in G : x = K - k
  OBVIOUS
<1>5. \A j \in G : j <= k
  BY <1>2, <1>4, SMTT(30), Z3T(30)
<1> QED BY <1>5

\* A frame is its header and its payload, each byte in its place.
LEMMA FrameSeq ==
  ASSUME NEW m \in DOMAIN Size
  PROVE  /\ Frame(m) \in Seq(Cell) /\ Len(Frame(m)) = header_size + Size[m]
         /\ Len(Frame(m)) \in Nat \ {0} /\ Size[m] \in Nat /\ header_size \in Nat \ {0}
         /\ \A j \in 1 .. Len(Frame(m)) : Frame(m)[j] = <<m, j>>
<1> DEFINE n == header_size + Size[m]
<1>1. n \in Nat \ {0} /\ Size[m] \in Nat /\ header_size \in Nat \ {0}
  BY NetBufferAssumption, SMTT(30), Z3T(30)
<1>2. Frame(m) = [j \in 1 .. n |-> <<m, j>>]
  BY DEF Frame
<1> HIDE DEF n
<1>3. \A j \in 1 .. n : <<m, j>> \in Cell
  BY <1>1, SMTT(30), Z3T(30) DEF Cell
<1>4. Frame(m) \in [1 .. n -> Cell]
  BY <1>2, <1>3
<1>5. Frame(m) \in Seq(Cell) /\ Len(Frame(m)) = n
  BY <1>1, <1>4, SMTT(30), Z3T(30)
<1> QED BY <1>1, <1>2, <1>5 DEF n

\* The function that Frames defines, on the numbers up to k.
FrameStep(f, ms, n)  == IF n = 0 THEN <<>> ELSE f[n - 1] \o Frame(ms[n])
IsFrames(f, ms, k)   == f = [n \in 0 .. k |-> FrameStep(f, ms, n)]
FramesFunction(ms)   == CHOOSE f : IsFrames(f, ms, Len(ms))

\* Frames is the last value of that function.
LEMMA FramesIs ==
  ASSUME NEW ms
  PROVE  Frames(ms) = FramesFunction(ms)[Len(ms)]
BY DEF Frames, FramesFunction, IsFrames, FrameStep

\* What is defined up to k is defined up to k + 1.
LEMMA FramesExtend ==
  ASSUME NEW ms, NEW k \in Nat, NEW g, IsFrames(g, ms, k)
  PROVE  \E f : IsFrames(f, ms, k + 1)
<1> DEFINE f == [n \in 0 .. (k + 1) |-> IF n = k + 1 THEN g[k] \o Frame(ms[k + 1]) ELSE g[n]]
<1>1. \A n \in 0 .. k : f[n] = g[n]
  BY SMTT(30), Z3T(30)
<1>2. \A n \in 0 .. k : g[n] = FrameStep(g, ms, n)
  BY DEF IsFrames
<1>3. \A n \in 0 .. k : FrameStep(f, ms, n) = FrameStep(g, ms, n)
  <2> HIDE DEF f
  <2> SUFFICES ASSUME NEW n \in 0 .. k PROVE FrameStep(f, ms, n) = FrameStep(g, ms, n)
    OBVIOUS
  <2>1. n # 0 => n - 1 \in 0 .. k
    BY SMTT(30), Z3T(30)
  <2> QED BY <1>1, <2>1 DEF FrameStep
<1>4. f[k + 1] = FrameStep(f, ms, k + 1)
  <2>1. f[k + 1] = g[k] \o Frame(ms[k + 1]) /\ f[k] = g[k] /\ (k + 1) - 1 = k /\ k + 1 # 0
    BY SMTT(30), Z3T(30)
  <2> HIDE DEF f
  <2>2. FrameStep(f, ms, k + 1) = f[(k + 1) - 1] \o Frame(ms[k + 1])
    BY <2>1, ZenonT(30) DEF FrameStep
  <2> QED BY <2>1, <2>2, ZenonT(30)
<1>5. f = [n \in 0 .. (k + 1) |-> f[n]]
  OBVIOUS
<1> HIDE DEF f
<1>6. \A n \in 0 .. (k + 1) : f[n] = FrameStep(f, ms, n)
  BY <1>1, <1>2, <1>3, <1>4, SMTT(30), Z3T(30)
<1>7. IsFrames(f, ms, k + 1)
  BY <1>5, <1>6 DEF IsFrames
<1> QED BY <1>7

\* So the function that Frames speaks of exists.
LEMMA FramesExist ==
  ASSUME NEW ms, Len(ms) \in Nat
  PROVE  IsFrames(FramesFunction(ms), ms, Len(ms))
<1> DEFINE G == {k \in 0 .. Len(ms) : \E f : IsFrames(f, ms, k)}
<1>1. 0 \in G
  <2> DEFINE f == [n \in 0 .. 0 |-> <<>>]
  <2>1. f = [n \in 0 .. 0 |-> FrameStep(f, ms, n)]
    BY SMTT(30), Z3T(30) DEF FrameStep
  <2> HIDE DEF f
  <2>2. IsFrames(f, ms, 0)
    BY <2>1 DEF IsFrames
  <2> QED BY <2>2, SMTT(30), Z3T(30)
<1>2. \A k \in 0 .. (Len(ms) - 1) : k \in G => k + 1 \in G
  BY FramesExtend, SMTT(30), Z3T(30)
<1> HIDE DEF G
<1>3. Len(ms) \in G
  <2> DEFINE K == Len(ms)
  <2>1. K \in Nat /\ \A k \in 0 .. (K - 1) : k \in G => k + 1 \in G
    BY <1>2
  <2> HIDE DEF K
  <2>2. \A k \in 0 .. K : k \in G
    BY <1>1, <2>1, Upwards
  <2> QED BY <2>1, <2>2, SMTT(30), Z3T(30) DEF K
<1>4. \E f : IsFrames(f, ms, Len(ms))
  BY <1>3 DEF G
<1> QED BY <1>4 DEF FramesFunction

\* The bytes of the first n messages of ms.
Upto(ms, n) == FramesFunction(ms)[n]

\* The bytes of one message more.
LEMMA UptoAt ==
  ASSUME NEW ms, Len(ms) \in Nat
  PROVE  /\ Upto(ms, 0) = <<>>
         /\ \A n \in 0 .. (Len(ms) - 1) : Upto(ms, n + 1) = Upto(ms, n) \o Frame(ms[n + 1])
         /\ Frames(ms) = Upto(ms, Len(ms))
<1> DEFINE f == FramesFunction(ms)
<1>1. f = [n \in 0 .. Len(ms) |-> FrameStep(f, ms, n)]
  BY FramesExist DEF IsFrames
<1> HIDE DEF f
<1>2. \A n \in 0 .. Len(ms) : f[n] = FrameStep(f, ms, n)
  BY <1>1
<1>3. f[0] = <<>>
  <2>1. 0 \in 0 .. Len(ms)
    BY SMTT(30), Z3T(30)
  <2>2. f[0] = FrameStep(f, ms, 0)
    BY <1>2, <2>1
  <2> QED BY <2>2 DEF FrameStep
<1>4. ASSUME NEW n \in 0 .. (Len(ms) - 1) PROVE f[n + 1] = f[n] \o Frame(ms[n + 1])
  <2>1. n + 1 \in 0 .. Len(ms) /\ n + 1 # 0 /\ (n + 1) - 1 = n
    BY SMTT(30), Z3T(30)
  <2>2. f[n + 1] = FrameStep(f, ms, n + 1)
    BY <1>2, <2>1
  <2>3. FrameStep(f, ms, n + 1) = f[(n + 1) - 1] \o Frame(ms[n + 1])
    BY <2>1, ZenonT(30) DEF FrameStep
  <2> QED BY <2>1, <2>2, <2>3, ZenonT(30)
<1> QED BY <1>3, <1>4, FramesIs, ZenonT(30) DEF Upto, f

\* They depend on the first n messages only.
LEMMA UptoAgree ==
  ASSUME NEW ms, Len(ms) \in Nat, NEW ns, Len(ns) \in Nat, NEW K \in Nat, K <= Len(ms), K <= Len(ns),
         \A i \in 1 .. K : ms[i] = ns[i]
  PROVE  \A k \in 0 .. K : Upto(ms, k) = Upto(ns, k)
<1> DEFINE G == {k \in 0 .. K : Upto(ms, k) = Upto(ns, k)}
<1>1. 0 \in G
  BY UptoAt, SMTT(30), Z3T(30)
<1>2. ASSUME NEW k \in 0 .. (K - 1), k \in G PROVE k + 1 \in G
  <2>1. k + 1 \in 1 .. K /\ k \in 0 .. (Len(ms) - 1) /\ k \in 0 .. (Len(ns) - 1) /\ k + 1 \in 0 .. K
    BY SMTT(30), Z3T(30)
  <2>2. /\ Upto(ms, k + 1) = Upto(ms, k) \o Frame(ms[k + 1])
        /\ Upto(ns, k + 1) = Upto(ns, k) \o Frame(ns[k + 1])
    BY <2>1, UptoAt, ZenonT(30)
  <2>3. ms[k + 1] = ns[k + 1]
    BY <2>1
  <2>4. Upto(ms, k) = Upto(ns, k)
    BY <1>2
  <2>5. Upto(ms, k + 1) = Upto(ns, k + 1)
    BY <2>2, <2>3, <2>4, ZenonT(30)
  <2> QED BY <2>1, <2>5
<1> HIDE DEF G
<1>3. \A k \in 0 .. K : k \in G
  BY <1>1, <1>2, Upwards, ZenonT(30)
<1> QED BY <1>3 DEF G

\* The first n elements of a sequence.
LEMMA First ==
  ASSUME NEW S, NEW s \in Seq(S), NEW n \in 0 .. Len(s)
  PROVE  /\ SubSeq(s, 1, n) \in Seq(S) /\ Len(SubSeq(s, 1, n)) = n
         /\ \A i \in 1 .. n : SubSeq(s, 1, n)[i] = s[i]
<1>1. n \in Nat /\ n <= Len(s) /\ Len(s) \in Nat /\ 0 \in Nat /\ 0 + 1 = 1 /\ n - 0 = n
  BY LenProperties, SMTT(30), Z3T(30)
<1>2. /\ SubSeq(s, 0 + 1, n) \in Seq(S)
      /\ Len(SubSeq(s, 0 + 1, n)) = (IF 0 <= n THEN n - 0 ELSE 0)
      /\ \A i \in 1 .. (n - 0) : SubSeq(s, 0 + 1, n)[i] = s[0 + i]
  BY <1>1, Part, SMTT(30), Z3T(30)
<1> QED BY <1>1, <1>2, SMTT(30), Z3T(30)

\* The frames of the first n messages.
LEMMA PrefixFrames ==
  ASSUME NEW S, NEW ms \in Seq(S), NEW n \in 0 .. Len(ms)
  PROVE  Frames(SubSeq(ms, 1, n)) = Upto(ms, n)
<1> DEFINE ns == SubSeq(ms, 1, n)
<1>1. Len(ns) = n /\ \A i \in 1 .. n : ns[i] = ms[i]
  BY First
<1>2. n \in Nat /\ n <= Len(ms) /\ Len(ms) \in Nat /\ n \in 0 .. n
  BY LenProperties, SMTT(30), Z3T(30)
<1> HIDE DEF ns
<1>3. Upto(ms, n) = Upto(ns, n)
  BY <1>1, <1>2, UptoAgree, SMTT(30), Z3T(30)
<1>4. Frames(ns) = Upto(ns, n)
  BY <1>1, <1>2, UptoAt
<1> QED BY <1>3, <1>4 DEF ns

Msg == DOMAIN Size

\* Frames are bytes, and every message adds some.
LEMMA UptoType ==
  ASSUME NEW ms \in Seq(Msg)
  PROVE  /\ Len(ms) \in Nat
         /\ \A n \in 0 .. Len(ms) : Upto(ms, n) \in Seq(Cell) /\ Len(Upto(ms, n)) \in Nat
         /\ \A n \in 0 .. (Len(ms) - 1) :
              Len(Upto(ms, n + 1)) = Len(Upto(ms, n)) + Len(Frame(ms[n + 1]))
         /\ Frames(ms) \in Seq(Cell) /\ Len(Frames(ms)) \in Nat
<1> DEFINE K == Len(ms)
           G == {n \in 0 .. K : Upto(ms, n) \in Seq(Cell)}
<1>0. K \in Nat /\ \A i \in 1 .. K : ms[i] \in Msg
  BY LenProperties, ElementOfSeq
<1>1. 0 \in G
  <2>1. Upto(ms, 0) = <<>>
    BY <1>0, UptoAt
  <2>2. <<>> \in Seq(Cell)
    BY EmptySeq
  <2>3. 0 \in 0 .. K
    BY <1>0, SMTT(30), Z3T(30)
  <2>4. Upto(ms, 0) \in Seq(Cell)
    BY <2>1, <2>2, ZenonT(30)
  <2> QED BY <2>3, <2>4
<1>2. ASSUME NEW n \in 0 .. (K - 1), n \in G PROVE n + 1 \in G
  <2>1. Upto(ms, n) \in Seq(Cell) /\ n + 1 \in 0 .. K /\ n + 1 \in 1 .. K
    BY <1>0, <1>2, SMTT(30), Z3T(30)
  <2>2. Upto(ms, n + 1) = Upto(ms, n) \o Frame(ms[n + 1])
    BY <1>0, UptoAt
  <2>3. Frame(ms[n + 1]) \in Seq(Cell)
    BY <1>0, <2>1, FrameSeq DEF Msg
  <2>4. Upto(ms, n + 1) \in Seq(Cell)
    BY <2>1, <2>2, <2>3, ConcatProperties, ZenonT(30)
  <2> QED BY <2>1, <2>4
<1> HIDE DEF G, K
<1>3. \A n \in 0 .. K : n \in G
  BY <1>0, <1>1, <1>2, Upwards, ZenonT(30)
<1>4. \A n \in 0 .. K : Upto(ms, n) \in Seq(Cell) /\ Len(Upto(ms, n)) \in Nat
  BY <1>3, LenProperties DEF G
<1>5. ASSUME NEW n \in 0 .. (K - 1)
      PROVE  Len(Upto(ms, n + 1)) = Len(Upto(ms, n)) + Len(Frame(ms[n + 1]))
  <2>1. n \in 0 .. K /\ n + 1 \in 1 .. K
    BY <1>0, SMTT(30), Z3T(30)
  <2>2. Upto(ms, n + 1) = Upto(ms, n) \o Frame(ms[n + 1])
    BY <1>0, UptoAt DEF K
  <2>3. Frame(ms[n + 1]) \in Seq(Cell) /\ Upto(ms, n) \in Seq(Cell)
    BY <1>0, <1>4, <2>1, FrameSeq DEF Msg
  <2> QED BY <2>2, <2>3, ConcatProperties
<1>6. Frames(ms) = Upto(ms, K) /\ K \in 0 .. K
  BY <1>0, UptoAt, SMTT(30), Z3T(30) DEF K
<1> QED BY <1>0, <1>4, <1>5, <1>6 DEF K

\* nb_queue accepts one message more.
LEMMA FramesAppend ==
  ASSUME NEW ms \in Seq(Msg), NEW m \in Msg
  PROVE  Frames(Append(ms, m)) = Frames(ms) \o Frame(m)
<1> DEFINE ns == Append(ms, m)
           K == Len(ms)
<1>1. /\ ns \in Seq(Msg) /\ Len(ns) = K + 1 /\ K \in Nat /\ Len(ns) \in Nat
      /\ (\A i \in 1 .. K : ns[i] = ms[i]) /\ ns[K + 1] = m
  BY AppendProperties, LenProperties, SMTT(30), Z3T(30)
<1> HIDE DEF ns
<1>2. Upto(ms, K) = Upto(ns, K)
  BY <1>1, UptoAgree, SMTT(30), Z3T(30)
<1>3. Upto(ns, K + 1) = Upto(ns, K) \o Frame(ns[K + 1]) /\ Frames(ns) = Upto(ns, K + 1)
  <2>1. K \in 0 .. (Len(ns) - 1)
    BY <1>1, SMTT(30), Z3T(30)
  <2> QED BY <1>1, <2>1, UptoAt, ZenonT(30)
<1>4. Frames(ms) = Upto(ms, K)
  BY <1>1, UptoAt
<1> QED BY <1>1, <1>2, <1>3, <1>4 DEF ns

\* The bytes of the first n + k messages are those of the first n and of the k behind them.
LEMMA UptoSplit ==
  ASSUME NEW ms \in Seq(Msg), NEW n \in 0 .. Len(ms)
  PROVE  LET ns == SubSeq(ms, n + 1, Len(ms))
         IN  /\ ns \in Seq(Msg) /\ Len(ns) = Len(ms) - n
             /\ \A k \in 0 .. (Len(ms) - n) : Upto(ms, n + k) = Upto(ms, n) \o Upto(ns, k)
             /\ Frames(ms) = Upto(ms, n) \o Frames(ns)
<1> DEFINE ns == SubSeq(ms, n + 1, Len(ms))
           M == Len(ms)
           K == M - n
           G == {k \in 0 .. K : Upto(ms, n + k) = Upto(ms, n) \o Upto(ns, k)}
<1>0. M \in Nat /\ n \in Nat /\ n <= M /\ K \in Nat /\ n + K = M
  BY LenProperties, SMTT(30), Z3T(30)
<1>1. ns \in Seq(Msg) /\ Len(ns) = K /\ \A i \in 1 .. K : ns[i] = ms[n + i]
  <2>1. /\ ns \in Seq(Msg) /\ Len(ns) = (IF n <= M THEN M - n ELSE 0)
        /\ \A i \in 1 .. (M - n) : ns[i] = ms[n + i]
    <3>1. M <= Len(ms) /\ ns = SubSeq(ms, n + 1, M)
      BY <1>0, SMTT(30), Z3T(30)
    <3> HIDE DEF M, ns
    <3> QED BY <1>0, <3>1, Part, SMTT(30), Z3T(30)
  <2> QED BY <1>0, <2>1, ZenonT(30)
<1> HIDE DEF ns
<1>2. 0 \in G
  <2>1. Upto(ns, 0) = <<>> /\ n + 0 = n /\ Upto(ms, n) \in Seq(Cell) /\ 0 \in 0 .. K
    BY <1>0, <1>1, UptoAt, UptoType, SMTT(30), Z3T(30)
  <2>2. Upto(ms, n) \o <<>> = Upto(ms, n)
    BY <2>1, ConcatEmptySeq
  <2>3. Upto(ms, n + 0) = Upto(ms, n) \o Upto(ns, 0)
    BY <2>1, <2>2
  <2> QED BY <2>1, <2>3
<1>3. ASSUME NEW k \in 0 .. (K - 1), k \in G PROVE k + 1 \in G
  <2>1. /\ k \in 0 .. (Len(ns) - 1) /\ k + 1 \in 1 .. K /\ n + k \in 0 .. (M - 1) /\ k + 1 \in 0 .. K
        /\ (n + k) + 1 = n + (k + 1) /\ k \in 0 .. Len(ns) /\ n + (k + 1) \in 1 .. M
    BY <1>0, <1>1, SMTT(30), Z3T(30)
  <2>2. Upto(ns, k + 1) = Upto(ns, k) \o Frame(ns[k + 1])
    BY <1>0, <1>1, <2>1, UptoAt, ZenonT(30)
  <2>3. Upto(ms, (n + k) + 1) = Upto(ms, n + k) \o Frame(ms[(n + k) + 1])
    BY <1>0, <2>1, UptoAt, ZenonT(30)
  <2>4. ns[k + 1] = ms[n + (k + 1)]
    BY <1>1, <2>1
  <2>5. Upto(ms, n + k) = Upto(ms, n) \o Upto(ns, k)
    BY <1>3
  <2>6. Upto(ms, n) \in Seq(Cell) /\ Upto(ns, k) \in Seq(Cell) /\ Frame(ns[k + 1]) \in Seq(Cell)
    <3>1. ns[k + 1] \in Msg
      BY <1>1, <2>1, ElementOfSeq
    <3> QED BY <1>0, <1>1, <2>1, <3>1, UptoType, FrameSeq, ZenonT(30) DEF Msg
  <2> DEFINE a == Upto(ms, n)
             b == Upto(ns, k)
             c == Frame(ns[k + 1])
  <2>7. Upto(ms, n + (k + 1)) = (a \o b) \o c
    BY <2>1, <2>3, <2>4, <2>5, ZenonT(30)
  <2> HIDE DEF a, b, c
  <2>8. (a \o b) \o c = a \o (b \o c)
    BY <2>6, ConcatAssociative, SMTT(30), Z3T(30) DEF a, b, c
  <2>9. Upto(ms, n + (k + 1)) = Upto(ms, n) \o Upto(ns, k + 1)
    BY <2>2, <2>7, <2>8, ZenonT(30) DEF a, b, c
  <2> QED BY <2>1, <2>9
<1> HIDE DEF G, K
<1>4. \A k \in 0 .. K : k \in G
  BY <1>0, <1>2, <1>3, Upwards
<1>5. \A k \in 0 .. K : Upto(ms, n + k) = Upto(ms, n) \o Upto(ns, k)
  BY <1>4 DEF G
<1>6. Upto(ms, n + K) = Upto(ms, n) \o Upto(ns, K)
  BY <1>0, <1>5, SMTT(30), Z3T(30)
<1>7. Frames(ms) = Upto(ms, M) /\ Frames(ns) = Upto(ns, K)
  BY <1>0, <1>1, UptoAt
<1>8. Frames(ms) = Upto(ms, n) \o Frames(ns)
  BY <1>0, <1>6, <1>7, ZenonT(30)
<1> QED BY <1>1, <1>5, <1>8 DEF ns, K

\* What follows the first o elements of a sequence.
Suffix(s, o) == SubSeq(s, o + 1, Len(s))

\* Length and elements of what follows.
LEMMA SuffixType ==
  ASSUME NEW S, NEW s \in Seq(S), NEW o \in 0 .. Len(s)
  PROVE  /\ Suffix(s, o) \in Seq(S) /\ Len(Suffix(s, o)) = Len(s) - o /\ Len(Suffix(s, o)) \in Nat
         /\ \A i \in 1 .. (Len(s) - o) : Suffix(s, o)[i] = s[o + i]
<1> DEFINE M == Len(s)
           p == SubSeq(s, o + 1, M)
<1>0. M \in Nat /\ o \in Nat /\ o <= M /\ M <= Len(s) /\ Suffix(s, o) = p
  BY LenProperties, SMTT(30), Z3T(30) DEF Suffix
<1> HIDE DEF M
<1>1. p \in Seq(S) /\ Len(p) = (IF o <= M THEN M - o ELSE 0) /\ \A i \in 1 .. (M - o) : p[i] = s[o + i]
  BY <1>0, Part
<1> HIDE DEF p
<1>2. p \in Seq(S) /\ Len(p) = M - o /\ Len(p) \in Nat /\ \A i \in 1 .. (M - o) : p[i] = s[o + i]
  BY <1>0, <1>1, SMTT(30), Z3T(30)
<1> QED BY <1>0, <1>2 DEF M

\* What is added at the end follows too.
LEMMA SuffixConcat ==
  ASSUME NEW S, NEW s \in Seq(S), NEW d \in Seq(S), NEW o \in 0 .. Len(s)
  PROVE  Suffix(s \o d, o) = Suffix(s, o) \o d
<1> DEFINE c == s \o d
           x == Suffix(c, o)
           a == Suffix(s, o)
           y == a \o d
           M == Len(s)
           N == Len(d)
<1>0. M \in Nat /\ N \in Nat /\ o \in Nat /\ o <= M
  BY LenProperties, SMTT(30), Z3T(30)
<1>1. /\ c \in Seq(S) /\ Len(c) = M + N
      /\ \A i \in 1 .. (M + N) : c[i] = IF i <= M THEN s[i] ELSE d[i - M]
  BY ConcatProperties
<1>2. a \in Seq(S) /\ Len(a) = M - o /\ \A i \in 1 .. (M - o) : a[i] = s[o + i]
  BY SuffixType
<1>3. /\ y \in Seq(S) /\ Len(y) = (M - o) + N
      /\ \A i \in 1 .. ((M - o) + N) : y[i] = IF i <= M - o THEN a[i] ELSE d[i - (M - o)]
  <2> HIDE DEF a, M
  <2>1. /\ y \in Seq(S) /\ Len(y) = Len(a) + N
        /\ \A i \in 1 .. (Len(a) + N) : y[i] = IF i <= Len(a) THEN a[i] ELSE d[i - Len(a)]
    BY <1>2, ConcatProperties
  <2> QED BY <1>2, <2>1
<1> HIDE DEF c, a, y, M, N
<1>4. o \in 0 .. Len(c)
  BY <1>0, <1>1, SMTT(30), Z3T(30)
<1>5. x \in Seq(S) /\ Len(x) = (M + N) - o /\ \A i \in 1 .. ((M + N) - o) : x[i] = c[o + i]
  BY <1>1, <1>4, SuffixType, SMTT(30), Z3T(30)
<1> HIDE DEF x
<1>6. Len(x) = Len(y)
  BY <1>0, <1>3, <1>5, SMTT(30), Z3T(30)
<1>7. ASSUME NEW i \in 1 .. Len(x) PROVE x[i] = y[i]
  <2>1. i \in 1 .. ((M + N) - o) /\ i \in 1 .. ((M - o) + N) /\ o + i \in 1 .. (M + N)
    BY <1>0, <1>5, SMTT(30), Z3T(30)
  <2>2. x[i] = c[o + i] /\ c[o + i] = IF o + i <= M THEN s[o + i] ELSE d[(o + i) - M]
    BY <1>1, <1>5, <2>1
  <2>3. CASE i <= M - o
    <3>1. y[i] = a[i] /\ i \in 1 .. (M - o) /\ o + i <= M
      BY <1>0, <1>3, <2>1, <2>3, SMTT(30), Z3T(30)
    <3> QED BY <1>2, <2>2, <3>1
  <2>4. CASE i > M - o
    <3>1. ~(i <= M - o) /\ ~(o + i <= M) /\ (o + i) - M = i - (M - o)
      BY <1>0, <2>1, <2>4, SMTT(30), Z3T(30)
    <3> QED BY <1>3, <2>1, <2>2, <3>1
  <2> QED BY <1>0, <2>1, <2>3, <2>4, SMTT(30), Z3T(30)
<1>8. x = y
  BY <1>3, <1>5, <1>6, <1>7, SeqEqual
<1> QED BY <1>8 DEF x, y, a, c

\* What follows n more elements.
LEMMA SuffixSuffix ==
  ASSUME NEW S, NEW s \in Seq(S), NEW o \in 0 .. Len(s), NEW n \in 0 .. (Len(s) - o)
  PROVE  Suffix(Suffix(s, o), n) = Suffix(s, o + n)
<1> DEFINE M == Len(s)
           a == Suffix(s, o)
           z == o + n
           x == Suffix(a, n)
           y == Suffix(s, z)
<1>0. M \in Nat /\ o \in Nat /\ n \in Nat /\ z \in 0 .. Len(s) /\ n \in 0 .. (M - o)
  BY LenProperties, SMTT(30), Z3T(30)
<1>1. a \in Seq(S) /\ Len(a) = M - o /\ \A i \in 1 .. (M - o) : a[i] = s[o + i]
  BY SuffixType, ZenonT(30)
<1> HIDE DEF a, M, z
<1>2. x \in Seq(S) /\ Len(x) = (M - o) - n /\ \A i \in 1 .. ((M - o) - n) : x[i] = a[n + i]
  <2>1. n \in 0 .. Len(a)
    BY <1>0, <1>1
  <2>2. /\ x \in Seq(S) /\ Len(x) = Len(a) - n
        /\ \A i \in 1 .. (Len(a) - n) : x[i] = a[n + i]
    BY <1>1, <2>1, SuffixType, ZenonT(30)
  <2> QED BY <1>1, <2>2, ZenonT(30)
<1>3. y \in Seq(S) /\ Len(y) = M - z /\ \A i \in 1 .. (M - z) : y[i] = s[z + i]
  BY <1>0, SuffixType DEF M
<1> HIDE DEF x, y
<1>4. Len(x) = Len(y)
  BY <1>0, <1>2, <1>3, SMTT(30), Z3T(30) DEF z
<1>5. ASSUME NEW i \in 1 .. Len(x) PROVE x[i] = y[i]
  <2>1. i \in 1 .. ((M - o) - n) /\ i \in 1 .. (M - z) /\ n + i \in 1 .. (M - o) /\ o + (n + i) = z + i
    BY <1>0, <1>2, <1>3, SMTT(30), Z3T(30) DEF z
  <2> DEFINE j == n + i
  <2>2. x[i] = a[j] /\ y[i] = s[z + i] /\ j \in 1 .. (M - o) /\ o + j = z + i
    BY <1>2, <1>3, <2>1
  <2> HIDE DEF j
  <2> QED BY <1>1, <2>2
<1>6. x = y
  BY <1>2, <1>3, <1>4, <1>5, SeqEqual, ZenonT(30)
<1> QED BY <1>6 DEF x, y, a, z

\* What follows in the second of two sequences.
LEMMA SuffixSkip ==
  ASSUME NEW S, NEW a \in Seq(S), NEW b \in Seq(S), NEW o \in 0 .. Len(b)
  PROVE  Suffix(a \o b, Len(a) + o) = Suffix(b, o)
<1> DEFINE M == Len(a)
           N == Len(b)
           c == a \o b
           z == M + o
           x == Suffix(c, z)
           y == Suffix(b, o)
<1>0. M \in Nat /\ N \in Nat /\ o \in Nat /\ o <= N
  BY LenProperties, SMTT(30), Z3T(30)
<1>1. /\ c \in Seq(S) /\ Len(c) = M + N
      /\ \A i \in 1 .. (M + N) : c[i] = IF i <= M THEN a[i] ELSE b[i - M]
  BY ConcatProperties
<1>2. y \in Seq(S) /\ Len(y) = N - o /\ \A i \in 1 .. (N - o) : y[i] = b[o + i]
  BY SuffixType
<1> HIDE DEF c, y, M, N
<1>3. z \in 0 .. Len(c) /\ z = M + o
  BY <1>0, <1>1, SMTT(30), Z3T(30)
<1> HIDE DEF z
<1>4. x \in Seq(S) /\ Len(x) = (M + N) - z /\ \A i \in 1 .. ((M + N) - z) : x[i] = c[z + i]
  BY <1>1, <1>3, SuffixType, SMTT(30), Z3T(30)
<1> HIDE DEF x
<1>5. Len(x) = Len(y)
  BY <1>0, <1>2, <1>3, <1>4, SMTT(30), Z3T(30)
<1>6. ASSUME NEW i \in 1 .. Len(x) PROVE x[i] = y[i]
  <2>1. /\ i \in 1 .. ((M + N) - z) /\ i \in 1 .. (N - o) /\ z + i \in 1 .. (M + N)
        /\ ~(z + i <= M) /\ (z + i) - M = o + i
    BY <1>0, <1>2, <1>3, <1>4, SMTT(30), Z3T(30)
  <2> DEFINE j == z + i
  <2>2. x[i] = c[j] /\ y[i] = b[o + i] /\ j \in 1 .. (M + N) /\ ~(j <= M) /\ j - M = o + i
    BY <1>2, <1>4, <2>1
  <2> HIDE DEF j
  <2>3. c[j] = b[j - M]
    BY <1>1, <2>2
  <2> QED BY <2>2, <2>3
<1>7. x = y
  BY <1>2, <1>4, <1>5, <1>6, SeqEqual
<1> QED BY <1>7 DEF x, y, c, z, M

(***************************************************************************)
(* The receive loop                                                        *)
(***************************************************************************)

\* The function that Dispatch defines, on the offsets from a on.
DRec(i, msgs, bad) == [i |-> i, msgs |-> msgs, bad |-> bad]
DispatchStep(f, buf, i) ==
  IF i + header_size > Len(buf) THEN DRec(i, <<>>, FALSE)
  ELSE IF cur_len(buf, i) > OS_MAXSTR THEN DRec(i, <<>>, TRUE)
  ELSE IF cur_end(buf, i) > Len(buf) THEN DRec(i, <<>>, FALSE)
  ELSE Prepend(f[cur_end(buf, i)], SubSeq(buf, i + header_size + 1, cur_end(buf, i)))
IsDispatch(f, buf, a) == f = [i \in a .. Len(buf) |-> DispatchStep(f, buf, i)]
DispatchFunction(buf) == CHOOSE f : IsDispatch(f, buf, 0)

\* Dispatch is the first value of that function.
LEMMA DispatchIs ==
  ASSUME NEW buf
  PROVE  Dispatch(buf) = DispatchFunction(buf)[0]
BY DEF Dispatch, DispatchFunction, IsDispatch, DispatchStep, DRec

\* A header announces a length, so that a message ends behind its start.
LEMMA EndBehind ==
  ASSUME NEW buf \in Seq(Cell), NEW i \in 0 .. Len(buf), i + header_size <= Len(buf)
  PROVE  /\ cur_len(buf, i) \in Nat /\ cur_end(buf, i) \in Nat /\ cur_end(buf, i) > i
         /\ header_size \in Nat \ {0} /\ OS_MAXSTR \in Nat
<1>1. header_size \in Nat \ {0} /\ Len(buf) \in Nat /\ OS_MAXSTR \in Nat
  BY NetBufferAssumption, LenProperties
<1>2. i + 1 \in 1 .. Len(buf)
  BY <1>1, SMTT(30), Z3T(30)
<1>3. buf[i + 1] \in Cell
  BY <1>2, ElementOfSeq
<1>4. buf[i + 1][1] \in DOMAIN Size
  BY <1>3 DEF Cell
<1>5. Size[buf[i + 1][1]] \in Nat
  BY <1>4, NetBufferAssumption
<1>6. cur_len(buf, i) \in Nat
  BY <1>5 DEF cur_len
<1> QED BY <1>1, <1>6, SMTT(30), Z3T(30) DEF cur_end

\* What is defined from a + 1 on is defined from a on: the loop only goes forward.
LEMMA DispatchExtend ==
  ASSUME NEW buf \in Seq(Cell), NEW a \in Nat, a < Len(buf), NEW g, IsDispatch(g, buf, a + 1)
  PROVE  \E f : IsDispatch(f, buf, a)
<1> DEFINE M == Len(buf)
           f == [i \in a .. M |-> IF i = a THEN DispatchStep(g, buf, a) ELSE g[i]]
<1>0. M \in Nat /\ header_size \in Nat \ {0}
  BY LenProperties, NetBufferAssumption
<1>1. \A i \in (a + 1) .. M : f[i] = g[i]
  BY <1>0, SMTT(30), Z3T(30)
<1>2. f = [i \in a .. M |-> f[i]]
  OBVIOUS
<1>3. f[a] = DispatchStep(g, buf, a)
  BY <1>0, SMTT(30), Z3T(30)
<1>4. \A i \in (a + 1) .. M : g[i] = DispatchStep(g, buf, i)
  BY DEF IsDispatch
<1> HIDE DEF f
<1>5. ASSUME NEW i \in a .. M PROVE DispatchStep(f, buf, i) = DispatchStep(g, buf, i)
  <2>1. CASE i + header_size > M
    BY <2>1 DEF DispatchStep
  <2>2. CASE i + header_size <= M
    <3>1. i \in 0 .. Len(buf)
      BY <1>0, SMTT(30), Z3T(30)
    <3>2. cur_end(buf, i) \in Nat /\ cur_end(buf, i) > i /\ cur_len(buf, i) \in Nat /\ OS_MAXSTR \in Nat
      BY <2>2, <3>1, EndBehind
    <3>3. CASE cur_end(buf, i) <= M
      <4>1. f[cur_end(buf, i)] = g[cur_end(buf, i)]
        BY <1>0, <1>1, <3>2, <3>3, SMTT(30), Z3T(30)
      <4> QED BY <4>1 DEF DispatchStep
    <3>4. CASE cur_end(buf, i) > M
      <4>1. ~(cur_end(buf, i) <= M)
        BY <1>0, <3>2, <3>4, SMTT(30), Z3T(30)
      <4>2. cur_len(buf, i) > OS_MAXSTR \/ cur_len(buf, i) <= OS_MAXSTR
        BY <3>2, SMTT(30), Z3T(30)
      <4> HIDE DEF M
      <4> QED BY <2>2, <3>4, <4>1, <4>2 DEF DispatchStep, M
    <3> QED BY <1>0, <3>2, <3>3, <3>4, SMTT(30), Z3T(30)
  <2> QED BY <1>0, <2>1, <2>2, SMTT(30), Z3T(30)
<1>6. \A i \in a .. M : f[i] = DispatchStep(f, buf, i)
  <2> SUFFICES ASSUME NEW i \in a .. M PROVE f[i] = DispatchStep(f, buf, i)
    OBVIOUS
  <2>1. i = a \/ i \in (a + 1) .. M
    BY <1>0, SMTT(30), Z3T(30)
  <2> QED BY <1>1, <1>3, <1>4, <1>5, <2>1
<1>7. IsDispatch(f, buf, a)
  BY <1>2, <1>6 DEF IsDispatch
<1> QED BY <1>7

\* So the function that Dispatch speaks of exists.
LEMMA DispatchExists ==
  ASSUME NEW buf \in Seq(Cell)
  PROVE  \A i \in 0 .. Len(buf) : DispatchFunction(buf)[i] = DispatchStep(DispatchFunction(buf), buf, i)
<1> DEFINE M == Len(buf)
           G == {k \in 0 .. M : \E f : IsDispatch(f, buf, M - k)}
<1>0. M \in Nat /\ header_size \in Nat \ {0}
  BY LenProperties, NetBufferAssumption
<1>1. 0 \in G
  <2> DEFINE f == [i \in M .. M |-> DRec(i, <<>>, FALSE)]
  <2>1. \A i \in M .. M : i + header_size > M
    BY <1>0, SMTT(30), Z3T(30)
  <2>2. \A i \in M .. M : DispatchStep(f, buf, i) = DRec(i, <<>>, FALSE)
    <3> HIDE DEF f
    <3> QED BY <2>1, ZenonT(30) DEF DispatchStep
  <2>3. \A i \in M .. M : f[i] = DispatchStep(f, buf, i)
    BY <2>2, ZenonT(30)
  <2>4. f = [i \in M .. M |-> f[i]]
    BY ZenonT(30)
  <2> HIDE DEF f
  <2>5. IsDispatch(f, buf, M)
    BY <2>3, <2>4 DEF IsDispatch
  <2>6. M - 0 = M /\ 0 \in 0 .. M
    BY <1>0, SMTT(30), Z3T(30)
  <2> QED BY <2>5, <2>6
<1>2. ASSUME NEW k \in 0 .. (M - 1), k \in G PROVE k + 1 \in G
  <2>1. PICK g : IsDispatch(g, buf, M - k)
    BY <1>2
  <2> DEFINE a == M - (k + 1)
  <2>2. a \in Nat /\ a < Len(buf) /\ a + 1 = M - k /\ k + 1 \in 0 .. M
    BY <1>0, SMTT(30), Z3T(30)
  <2> HIDE DEF a
  <2>3. \E f : IsDispatch(f, buf, a)
    BY <2>1, <2>2, DispatchExtend
  <2> QED BY <2>2, <2>3 DEF a
<1> HIDE DEF G, M
<1>3. M \in G
  <2>1. \A k \in 0 .. M : k \in G
    BY <1>0, <1>1, <1>2, Upwards
  <2> QED BY <1>0, <2>1, SMTT(30), Z3T(30)
<1>4. \E f : IsDispatch(f, buf, 0)
  <2>1. M - M = 0
    BY <1>0, SMTT(30), Z3T(30)
  <2> QED BY <1>3, <2>1 DEF G
<1>5. IsDispatch(DispatchFunction(buf), buf, 0)
  BY <1>4 DEF DispatchFunction
<1> QED BY <1>5 DEF IsDispatch

\* The elements of a sequence between its a-th and its b-th.
Piece(s, a, b) == SubSeq(s, a + 1, b)

\* Length and elements of a piece.
LEMMA PieceType ==
  ASSUME NEW S, NEW s \in Seq(S), NEW a \in 0 .. Len(s), NEW b \in 0 .. Len(s), a <= b
  PROVE  /\ Piece(s, a, b) \in Seq(S) /\ Len(Piece(s, a, b)) = b - a
         /\ \A i \in 1 .. (b - a) : Piece(s, a, b)[i] = s[a + i]
<1>0. Len(s) \in Nat /\ a \in Nat /\ b \in Nat /\ b <= Len(s)
  BY LenProperties, SMTT(30), Z3T(30)
<1>1. /\ SubSeq(s, a + 1, b) \in Seq(S)
      /\ Len(SubSeq(s, a + 1, b)) = (IF a <= b THEN b - a ELSE 0)
      /\ \A i \in 1 .. (b - a) : SubSeq(s, a + 1, b)[i] = s[a + i]
  BY <1>0, Part
<1> QED BY <1>1 DEF Piece

\* A piece of a piece.
LEMMA PieceOfPiece ==
  ASSUME NEW S, NEW s \in Seq(S), NEW a \in 0 .. Len(s), NEW b \in 0 .. Len(s), a <= b,
         NEW x \in 0 .. (b - a), NEW y \in 0 .. (b - a), x <= y
  PROVE  Piece(Piece(s, a, b), x, y) = Piece(s, a + x, a + y)
<1> DEFINE p == Piece(s, a, b)
           c == a + x
           d == a + y
           v == Piece(p, x, y)
           w == Piece(s, c, d)
<1>0. Len(s) \in Nat /\ a \in Nat /\ b \in Nat /\ b <= Len(s) /\ x \in Nat /\ y \in Nat
  BY LenProperties, SMTT(30), Z3T(30)
<1>1. p \in Seq(S) /\ Len(p) = b - a /\ \A i \in 1 .. (b - a) : p[i] = s[a + i]
  BY PieceType
<1> HIDE DEF p
<1>2. x \in 0 .. Len(p) /\ y \in 0 .. Len(p) /\ c \in 0 .. Len(s) /\ d \in 0 .. Len(s) /\ c <= d /\ d - c = y - x
  BY <1>0, <1>1, SMTT(30), Z3T(30)
<1>3. v \in Seq(S) /\ Len(v) = y - x /\ \A i \in 1 .. (y - x) : v[i] = p[x + i]
  BY <1>1, <1>2, PieceType, ZenonT(30)
<1> HIDE DEF c, d
<1>4. w \in Seq(S) /\ Len(w) = d - c /\ \A i \in 1 .. (d - c) : w[i] = s[c + i]
  BY <1>2, PieceType, ZenonT(30)
<1> HIDE DEF v, w
<1>5. ASSUME NEW i \in 1 .. Len(v) PROVE v[i] = w[i]
  <2> DEFINE j == x + i
  <2>1. i \in 1 .. (y - x) /\ i \in 1 .. (d - c) /\ j \in 1 .. (b - a) /\ a + j = c + i
    BY <1>0, <1>2, <1>3, SMTT(30), Z3T(30) DEF c
  <2>2. v[i] = p[j] /\ w[i] = s[c + i]
    BY <1>3, <1>4, <2>1, ZenonT(30)
  <2> HIDE DEF j
  <2> QED BY <1>1, <2>1, <2>2
<1>6. v = w
  BY <1>2, <1>3, <1>4, <1>5, SeqEqual, ZenonT(30)
<1> QED BY <1>6 DEF v, w, p, c, d

\* Two pieces that meet.
LEMMA PieceJoin ==
  ASSUME NEW S, NEW s \in Seq(S), NEW a \in 0 .. Len(s), NEW b \in 0 .. Len(s), NEW c \in 0 .. Len(s),
         a <= b, b <= c
  PROVE  Piece(s, a, b) \o Piece(s, b, c) = Piece(s, a, c)
<1> DEFINE m == a + 1
<1>0. Len(s) \in Nat
  BY LenProperties
<1>1. m \in 1 .. (Len(s) + 1) /\ b \in (m - 1) .. Len(s) /\ c \in b .. Len(s)
  BY <1>0, SMTT(30), Z3T(30)
<1> HIDE DEF m
<1>2. SubSeq(s, m, b) \o SubSeq(s, b + 1, c) = SubSeq(s, m, c)
  BY <1>1, ConcatAdjacentSubSeq, ZenonT(30)
<1> QED BY <1>2 DEF Piece, m

\* What follows is a piece.
LEMMA SuffixIsPiece ==
  ASSUME NEW s, NEW o
  PROVE  Suffix(s, o) = Piece(s, o, Len(s))
BY DEF Suffix, Piece

\* Where the frame of the message behind the first j begins.
At(ms, j) == Len(Upto(ms, j))

\* Frames begin one behind the other, within the stream.
LEMMA AtBounds ==
  ASSUME NEW ms \in Seq(Msg)
  PROVE  /\ Len(ms) \in Nat /\ At(ms, 0) = 0 /\ At(ms, Len(ms)) = Len(Frames(ms))
         /\ \A j \in 0 .. Len(ms) : At(ms, j) \in Nat /\ At(ms, j) <= Len(Frames(ms))
         /\ \A j, k \in 0 .. Len(ms) : j <= k => At(ms, j) <= At(ms, k)
<1>1. Len(ms) \in Nat /\ \A j \in 0 .. Len(ms) : Upto(ms, j) \in Seq(Cell) /\ At(ms, j) \in Nat
  BY UptoType DEF At
<1>2. At(ms, 0) = 0 /\ At(ms, Len(ms)) = Len(Frames(ms))
  <2>1. Upto(ms, 0) = <<>> /\ Frames(ms) = Upto(ms, Len(ms))
    BY <1>1, UptoAt
  <2> QED BY <2>1, EmptySeq DEF At
<1>3. ASSUME NEW j \in 0 .. Len(ms), NEW k \in 0 .. Len(ms), j <= k PROVE At(ms, j) <= At(ms, k)
  <2> DEFINE ns == SubSeq(ms, j + 1, Len(ms))
             i == k - j
  <2>1. i \in 0 .. (Len(ms) - j) /\ j + i = k
    BY <1>1, <1>3, SMTT(30), Z3T(30)
  <2>2. ns \in Seq(Msg) /\ Len(ns) = Len(ms) - j /\ Upto(ms, j + i) = Upto(ms, j) \o Upto(ns, i)
    <3> HIDE DEF i
    <3> QED BY <2>1, UptoSplit, ZenonT(30)
  <2> HIDE DEF ns, i
  <2>3. i \in 0 .. Len(ns)
    BY <2>1, <2>2
  <2>4. Upto(ns, i) \in Seq(Cell) /\ Len(Upto(ns, i)) \in Nat
    BY <2>2, <2>3, UptoType
  <2>5. Len(Upto(ms, j) \o Upto(ns, i)) = Len(Upto(ms, j)) + Len(Upto(ns, i))
    BY <1>1, <2>4, ConcatProperties
  <2>6. At(ms, k) = At(ms, j) + Len(Upto(ns, i))
    BY <2>1, <2>2, <2>5, ZenonT(30) DEF At
  <2> QED BY <1>1, <2>4, <2>6, SMTT(30), Z3T(30)
<1>4. \A j \in 0 .. Len(ms) : At(ms, j) <= Len(Frames(ms))
  <2>1. Len(ms) \in 0 .. Len(ms) /\ \A j \in 0 .. Len(ms) : j <= Len(ms)
    BY <1>1, SMTT(30), Z3T(30)
  <2> QED BY <1>2, <1>3, <2>1
<1> QED BY <1>1, <1>2, <1>3, <1>4

\* The bytes of one frame among all.
LEMMA FrameAt ==
  ASSUME NEW ms \in Seq(Msg), NEW j \in 0 .. (Len(ms) - 1)
  PROVE  LET m == ms[j + 1]
             F == Frames(ms)
         IN  /\ m \in Msg /\ Size[m] \in Nat /\ header_size \in Nat \ {0}
             /\ At(ms, j + 1) = At(ms, j) + header_size + Size[m]
             /\ At(ms, j + 1) <= Len(F)
             /\ \A x \in 1 .. (header_size + Size[m]) : F[At(ms, j) + x] = <<m, x>>
             /\ Piece(F, At(ms, j) + header_size, At(ms, j + 1)) = Payload(m)
<1> DEFINE m == ms[j + 1]
           F == Frames(ms)
           n == header_size + Size[m]
           u == At(ms, j)
           U == Upto(ms, j)
           V == Upto(ms, j + 1)
           d == Frame(m)
           ns == SubSeq(ms, (j + 1) + 1, Len(ms))
           E == Frames(ns)
<1>0. Len(ms) \in Nat /\ j \in Nat /\ j \in 0 .. Len(ms) /\ j + 1 \in 0 .. Len(ms) /\ j + 1 \in 1 .. Len(ms)
  BY LenProperties, SMTT(30), Z3T(30)
<1>1. m \in Msg
  BY <1>0, ElementOfSeq
<1>2. /\ d \in Seq(Cell) /\ Len(d) = n /\ n \in Nat /\ Size[m] \in Nat /\ header_size \in Nat \ {0}
      /\ \A x \in 1 .. n : d[x] = <<m, x>>
  BY <1>1, FrameSeq, ZenonT(30) DEF Msg
<1>3. V = U \o d /\ U \in Seq(Cell) /\ V \in Seq(Cell) /\ F \in Seq(Cell) /\ Len(U) \in Nat /\ Len(F) \in Nat
  BY <1>0, UptoAt, UptoType
<1>4. ns \in Seq(Msg) /\ F = V \o E
  BY <1>0, UptoSplit, ZenonT(30)
<1>5. E \in Seq(Cell) /\ Len(E) \in Nat
  <2> HIDE DEF ns
  <2> QED BY <1>4, UptoType
<1>6. u = Len(U) /\ At(ms, j + 1) = Len(V)
  BY DEF At
<1> HIDE DEF m, F, U, V, d, ns, E, n, u
<1>7. /\ Len(V) = Len(U) + Len(d)
      /\ \A i \in 1 .. (Len(U) + Len(d)) : V[i] = IF i <= Len(U) THEN U[i] ELSE d[i - Len(U)]
  BY <1>2, <1>3, ConcatProperties, ZenonT(30)
<1>8. /\ Len(F) = Len(V) + Len(E)
      /\ \A i \in 1 .. (Len(V) + Len(E)) : F[i] = IF i <= Len(V) THEN V[i] ELSE E[i - Len(V)]
  BY <1>3, <1>4, <1>5, ConcatProperties, SMTT(30), Z3T(30)
<1>9. Len(V) = u + n /\ u \in Nat /\ Len(V) <= Len(F)
  BY <1>2, <1>3, <1>5, <1>6, <1>7, <1>8, SMTT(30), Z3T(30)
<1>10. ASSUME NEW x \in 1 .. n PROVE F[u + x] = <<m, x>>
  <2> DEFINE i == u + x
  <2>1. /\ i \in 1 .. (Len(V) + Len(E)) /\ i <= Len(V) /\ i \in 1 .. (Len(U) + Len(d)) /\ ~(i <= Len(U))
        /\ i - Len(U) = x
    BY <1>2, <1>3, <1>5, <1>6, <1>7, <1>9, SMTT(30), Z3T(30)
  <2> HIDE DEF i
  <2>2. F[i] = V[i] /\ V[i] = d[x]
    BY <1>7, <1>8, <2>1
  <2> QED BY <1>2, <2>2 DEF i
<1>11. Piece(F, u + header_size, Len(V)) = Payload(m)
  <2> DEFINE a == u + header_size
             p == Piece(F, a, Len(V))
  <2>1. a \in 0 .. Len(F) /\ Len(V) \in 0 .. Len(F) /\ a <= Len(V) /\ Len(V) - a = Size[m]
    <3>1. Len(V) = a + Size[m] /\ a \in Nat
      BY <1>2, <1>9, SMTT(30), Z3T(30) DEF n
    <3> HIDE DEF a
    <3> QED BY <1>2, <1>3, <1>9, <3>1, SMTT(30), Z3T(30)
  <2>2. p \in Seq(Cell) /\ Len(p) = Size[m] /\ \A i \in 1 .. Size[m] : p[i] = F[a + i]
    <3> HIDE DEF a
    <3>1. p \in Seq(Cell) /\ Len(p) = Len(V) - a /\ \A i \in 1 .. (Len(V) - a) : p[i] = F[a + i]
      BY <1>3, <2>1, PieceType, ZenonT(30)
    <3> QED BY <2>1, <3>1
  <2>3. ASSUME NEW i \in 1 .. Size[m] PROVE p[i] = <<m, header_size + i>>
    <3> DEFINE x == header_size + i
    <3>1. x \in 1 .. n /\ a + i = u + x
      BY <1>2, <1>9, SMTT(30), Z3T(30) DEF n
    <3>2. p[i] = F[a + i]
      BY <2>2
    <3> HIDE DEF x, p, a
    <3>3. F[u + x] = <<m, x>>
      BY <1>10, <3>1
    <3> QED BY <3>1, <3>2, <3>3 DEF x
  <2>4. p = [i \in 1 .. Size[m] |-> p[i]]
    <3> HIDE DEF p
    <3> QED BY <2>2, LenProperties
  <2> HIDE DEF p
  <2>5. p = [i \in 1 .. Size[m] |-> <<m, header_size + i>>]
    BY <2>3, <2>4, ZenonT(30)
  <2> QED BY <2>5 DEF p, Payload
<1>12. At(ms, j + 1) = u + header_size + Size[m] /\ At(ms, j + 1) <= Len(F)
  <2>1. n = header_size + Size[m]
    BY DEF n
  <2>2. u + (header_size + Size[m]) = u + header_size + Size[m]
    BY <1>2, <1>9, SMTT(30), Z3T(30)
  <2>3. At(ms, j + 1) = u + n /\ At(ms, j + 1) <= Len(F)
    BY <1>6, <1>9, ZenonT(30)
  <2> QED BY <2>1, <2>2, <2>3, ZenonT(30)
<1>13. \A x \in 1 .. (header_size + Size[m]) : F[u + x] = <<m, x>>
  BY <1>10 DEF n
<1>14. Piece(F, u + header_size, At(ms, j + 1)) = Payload(m)
  BY <1>6, <1>11
<1> QED BY <1>1, <1>2, <1>12, <1>13, <1>14 DEF m, F, u

\* The payloads of all messages.
Payloads(ms) == [x \in 1 .. Len(ms) |-> Payload(ms[x])]

\* The first k payloads, and the one behind the first j.
LEMMA PayloadsType ==
  ASSUME NEW ms \in Seq(Msg)
  PROVE  /\ Payloads(ms) \in Seq(Seq(Cell)) /\ Len(Payloads(ms)) = Len(ms)
         /\ \A k \in 0 .. Len(ms) : Piece(Payloads(ms), 0, k) = [x \in 1 .. k |-> Payload(ms[x])]
         /\ \A j \in 0 .. (Len(ms) - 1) : Piece(Payloads(ms), j, j + 1) = <<Payload(ms[j + 1])>>
<1> DEFINE P == Payloads(ms)
<1>0. Len(ms) \in Nat /\ \A x \in 1 .. Len(ms) : ms[x] \in Msg
  BY LenProperties, ElementOfSeq
<1>1. \A m \in Msg : Payload(m) \in Seq(Cell)
  <2> SUFFICES ASSUME NEW m \in Msg PROVE Payload(m) \in Seq(Cell)
    OBVIOUS
  <2>1. Size[m] \in Nat /\ header_size \in Nat
    BY NetBufferAssumption DEF Msg
  <2>2. \A j \in 1 .. Size[m] : <<m, header_size + j>> \in Cell
    BY <2>1, SMTT(30), Z3T(30) DEF Cell, Msg
  <2>3. Payload(m) \in [1 .. Size[m] -> Cell]
    BY <2>2 DEF Payload
  <2> QED BY <2>1, <2>3, SMTT(30), Z3T(30)
<1>2. P \in [1 .. Len(ms) -> Seq(Cell)]
  BY <1>0, <1>1 DEF Payloads
<1>3. P \in Seq(Seq(Cell)) /\ Len(P) = Len(ms)
  BY <1>0, <1>2, SMTT(30), Z3T(30)
<1>4. \A x \in 1 .. Len(ms) : P[x] = Payload(ms[x])
  BY DEF Payloads
<1> HIDE DEF P
<1>5. ASSUME NEW k \in 0 .. Len(ms) PROVE Piece(P, 0, k) = [x \in 1 .. k |-> Payload(ms[x])]
  <2> DEFINE p == Piece(P, 0, k)
  <2>1. 0 \in 0 .. Len(P) /\ k \in 0 .. Len(P) /\ 0 <= k /\ k - 0 = k /\ k \in Nat
    BY <1>0, <1>3, SMTT(30), Z3T(30)
  <2>2. p \in Seq(Seq(Cell)) /\ Len(p) = k - 0 /\ \A i \in 1 .. (k - 0) : p[i] = P[0 + i]
    BY <1>3, <2>1, PieceType
  <2> HIDE DEF p
  <2>3. p = [x \in 1 .. k |-> p[x]]
    BY <2>1, <2>2, LenProperties
  <2>4. \A x \in 1 .. k : p[x] = Payload(ms[x])
    BY <1>0, <1>4, <2>1, <2>2, SMTT(30), Z3T(30)
  <2> QED BY <2>3, <2>4 DEF p
<1>6. ASSUME NEW j \in 0 .. (Len(ms) - 1) PROVE Piece(P, j, j + 1) = <<Payload(ms[j + 1])>>
  <2> DEFINE k == j + 1
             p == Piece(P, j, k)
  <2>1. j \in 0 .. Len(P) /\ k \in 0 .. Len(P) /\ j <= k /\ k - j = 1 /\ k \in 1 .. Len(ms)
    BY <1>0, <1>3, SMTT(30), Z3T(30)
  <2>2. p \in Seq(Seq(Cell)) /\ Len(p) = 1 /\ p[1] = P[k]
    <3> HIDE DEF k
    <3>1. p \in Seq(Seq(Cell)) /\ Len(p) = k - j /\ \A i \in 1 .. (k - j) : p[i] = P[j + i]
      BY <1>3, <2>1, PieceType, ZenonT(30)
    <3> HIDE DEF p
    <3>2. j + 1 = k
      BY DEF k
    <3> QED BY <2>1, <3>1, <3>2, SMTT(30), Z3T(30)
  <2> HIDE DEF p
  <2>3. p = <<p[1]>>
    <3>0. p[1] \in Seq(Cell)
      <4>1. 1 \in 1 .. Len(p)
        BY <2>2, SMTT(30), Z3T(30)
      <4> QED BY <2>2, <4>1, ElementOfSeq, ZenonT(30)
    <3>1. <<p[1]>> \in Seq(Seq(Cell)) /\ Len(<<p[1]>>) = 1
      BY <3>0, SMTT(30), Z3T(30)
    <3>2. \A i \in 1 .. Len(p) : p[i] = <<p[1]>>[i]
      BY <2>2, SMTT(30), Z3T(30)
    <3> QED BY <2>2, <3>1, <3>2, SeqEqual
  <2> QED BY <1>4, <2>1, <2>2, <2>3 DEF p, k
<1> QED BY <1>3, <1>5, <1>6 DEF P

\* One message more at the front of what the loop hands over.
LEMMA PrependTo ==
  ASSUME NEW i, NEW m, NEW v, NEW w, w = <<v>> \o m
  PROVE  /\ Prepend(DRec(i, m, TRUE), v) = DRec(i, w, TRUE)
         /\ Prepend(DRec(i, m, FALSE), v) = DRec(i, w, FALSE)
<1>1. /\ [DRec(i, m, TRUE) EXCEPT !.msgs = w] = DRec(i, w, TRUE)
      /\ [DRec(i, m, FALSE) EXCEPT !.msgs = w] = DRec(i, w, FALSE)
  <2>1. \A b, x : [DRec(i, m, b) EXCEPT !.msgs = x] = DRec(i, x, b)
    BY SMTT(30), Z3T(30) DEF DRec
  <2> QED BY <2>1, ZenonT(30)
<1>2. DRec(i, m, TRUE).msgs = m /\ DRec(i, m, FALSE).msgs = m
  BY DEF DRec
<1>3. /\ Prepend(DRec(i, m, TRUE), v) = [DRec(i, m, TRUE) EXCEPT !.msgs = w]
      /\ Prepend(DRec(i, m, FALSE), v) = [DRec(i, m, FALSE) EXCEPT !.msgs = w]
  BY <1>2, ZenonT(30) DEF Prepend
<1> QED BY <1>1, <1>3, ZenonT(30)

\* Of r bytes received, the first K frames are complete and the next one is not.
Whole(ms, K, r) ==
  /\ K \in 0 .. Len(ms) /\ At(ms, K) <= r
  /\ K < Len(ms) => r < At(ms, K + 1)

\* What the loop comes to when it starts behind the j-th frame, with k frames handed over
\* before: it hands over the frames up to the K-th and leaves less than one, or it meets a
\* length above OS_MAXSTR.
LoopResult(x, ms, k, j, K, r) ==
  \/ /\ x = DRec(At(ms, K) - At(ms, k), Piece(Payloads(ms), j, K), FALSE)
     /\ r - At(ms, K) <= header_size + OS_MAXSTR - 1
  \/ \E i, m : x = DRec(i, m, TRUE)

\* What the loop sees at the start of a frame.
LEMMA HeaderAt ==
  ASSUME NEW ms \in Seq(Msg), NEW k \in 0 .. Len(ms), NEW j \in 0 .. (Len(ms) - 1), k <= j,
         NEW r \in 0 .. Len(Frames(ms)), At(ms, j) + header_size <= r
  PROVE  LET buf == Piece(Frames(ms), At(ms, k), r)
             i   == At(ms, j) - At(ms, k)
             m   == ms[j + 1]
         IN  /\ cur_len(buf, i) = Size[m]
             /\ cur_end(buf, i) = At(ms, j + 1) - At(ms, k)
             /\ At(ms, j + 1) <= r =>
                  SubSeq(buf, i + header_size + 1, cur_end(buf, i)) = Payload(m)
<1> DEFINE F == Frames(ms)
           u == At(ms, k)
           v == At(ms, j)
           z == At(ms, j + 1)
           buf == Piece(F, u, r)
           i == v - u
           m == ms[j + 1]
<1>0. /\ Len(ms) \in Nat /\ j \in 0 .. Len(ms) /\ u \in Nat /\ v \in Nat /\ u <= v /\ v <= Len(F)
      /\ F \in Seq(Cell) /\ Len(F) \in Nat /\ r \in 0 .. Len(F) /\ u \in 0 .. Len(F)
  <2>1. Len(ms) \in Nat /\ j \in 0 .. Len(ms) /\ F \in Seq(Cell) /\ Len(F) \in Nat
    BY UptoType, SMTT(30), Z3T(30)
  <2> QED BY <2>1, AtBounds, SMTT(30), Z3T(30)
<1>1. /\ m \in Msg /\ Size[m] \in Nat /\ header_size \in Nat \ {0} /\ z = v + header_size + Size[m] /\ z <= Len(F)
      /\ \A x \in 1 .. (header_size + Size[m]) : F[v + x] = <<m, x>>
      /\ Piece(F, v + header_size, z) = Payload(m)
  BY FrameAt
<1>2. v + header_size <= r
  OBVIOUS
<1> HIDE DEF F, u, v, z, m
<1>3. u <= r /\ i \in Nat /\ i + 1 \in 1 .. (r - u) /\ u + (i + 1) = v + 1 /\ 1 \in 1 .. (header_size + Size[m])
  <2> DEFINE N == Len(F)
             s == Size[m]
  <2>1. u \in Nat /\ v \in Nat /\ N \in Nat /\ s \in Nat /\ r \in 0 .. N /\ u <= v
    BY <1>0, <1>1
  <2> HIDE DEF N, s
  <2>2. header_size \in Nat /\ header_size >= 1
    BY <1>1, SMTT(30), Z3T(30)
  <2>3. u <= r /\ i \in Nat /\ i + 1 \in 1 .. (r - u) /\ u + (i + 1) = v + 1 /\ 1 \in 1 .. (header_size + s)
    BY <1>2, <2>1, <2>2, SMTT(30), Z3T(30)
  <2> QED BY <2>3 DEF s
<1>4. buf \in Seq(Cell) /\ Len(buf) = r - u /\ \A x \in 1 .. (r - u) : buf[x] = F[u + x]
  BY <1>0, <1>3, PieceType, ZenonT(30)
<1> HIDE DEF buf
<1>5. buf[i + 1] = <<m, 1>>
  <2> DEFINE y == i + 1
  <2>1. y \in 1 .. (r - u) /\ u + y = v + 1
    BY <1>3
  <2> HIDE DEF y
  <2>2. buf[y] = F[u + y]
    BY <1>4, <2>1
  <2>3. F[v + 1] = <<m, 1>>
    BY <1>1, <1>3, ZenonT(30)
  <2>4. buf[y] = <<m, 1>>
    BY <2>1, <2>2, <2>3
  <2> QED BY <2>4 DEF y
<1>6. cur_len(buf, i) = Size[m]
  BY <1>5, SMTT(30), Z3T(30) DEF cur_len
<1>7. cur_end(buf, i) = z - u
  BY <1>0, <1>1, <1>6, SMTT(30), Z3T(30) DEF cur_end
<1>8. ASSUME z <= r PROVE SubSeq(buf, i + header_size + 1, cur_end(buf, i)) = Payload(m)
  <2> DEFINE x == i + header_size
             y == z - u
  <2>1. /\ x \in 0 .. (r - u) /\ y \in 0 .. (r - u) /\ x <= y /\ u + x = v + header_size /\ u + y = z
    <3> DEFINE N == Len(F)
               s == Size[m]
    <3>1. /\ u \in Nat /\ v \in Nat /\ N \in Nat /\ s \in Nat /\ r \in 0 .. N /\ u <= v
          /\ z = v + header_size + s /\ header_size \in Nat
      BY <1>0, <1>1
    <3> HIDE DEF N, s
    <3> QED BY <1>2, <1>8, <3>1, SMTT(30), Z3T(30)
  <2> HIDE DEF x, y
  <2>2. Piece(Piece(F, u, r), x, y) = Piece(F, u + x, u + y)
    BY <1>0, <1>3, <2>1, PieceOfPiece, SMTT(30), Z3T(30)
  <2>3. Piece(buf, x, y) = Payload(m)
    BY <1>1, <2>1, <2>2 DEF buf
  <2> QED BY <1>7, <2>3 DEF Piece, x, y
<1> QED BY <1>6, <1>7, <1>8 DEF F, u, v, z, m, buf

\* There is a last message that is whole among the first r bytes.
LEMMA WholeExists ==
  ASSUME NEW ms \in Seq(Msg), NEW k \in 0 .. Len(ms), NEW r \in 0 .. Len(Frames(ms)), At(ms, k) <= r
  PROVE  \E K \in k .. Len(ms) : Whole(ms, K, r)
<1> DEFINE L == Len(ms)
           G == {j \in 0 .. L : At(ms, j) <= r}
<1>0. L \in Nat /\ At(ms, 0) = 0 /\ r \in Nat
  BY UptoType, AtBounds, SMTT(30), Z3T(30)
<1>1. G \in SUBSET (0 .. L) /\ 0 \in G /\ k \in G
  BY <1>0, SMTT(30), Z3T(30)
<1>2. \A j \in 0 .. L : At(ms, j) <= r => j \in G
  OBVIOUS
<1>3. \A j \in G : At(ms, j) <= r
  OBVIOUS
<1> HIDE DEF G, L
<1>4. PICK K \in G : \A j \in G : j <= K
  BY <1>0, <1>1, LargestOf, ZenonT(30)
<1>5. K \in 0 .. L /\ k <= K /\ At(ms, K) <= r
  BY <1>1, <1>3, <1>4
<1>6. ASSUME K < L PROVE r < At(ms, K + 1)
  <2> DEFINE y == K + 1
  <2>1. y \in 0 .. L /\ ~(y <= K)
    BY <1>0, <1>5, <1>6, SMTT(30), Z3T(30)
  <2>2. At(ms, y) \in Nat
    BY <2>1, AtBounds DEF L
  <2> HIDE DEF y
  <2>3. ~(At(ms, y) <= r)
    BY <1>2, <1>4, <2>1
  <2>4. r < At(ms, y)
    BY <1>0, <2>2, <2>3, SMTT(30), Z3T(30)
  <2> QED BY <2>4 DEF y
<1>7. Whole(ms, K, r)
  BY <1>5, <1>6 DEF Whole, L
<1>8. K \in k .. L
  BY <1>0, <1>1, <1>5, SMTT(30), Z3T(30)
<1> QED BY <1>7, <1>8 DEF L

\* The loop behind the last complete frame: it stops there.
LEMMA LoopEnd ==
  ASSUME NEW ms \in Seq(Msg), NEW k \in 0 .. Len(ms), NEW r \in 0 .. Len(Frames(ms)),
         NEW K \in k .. Len(ms), Whole(ms, K, r), NEW D
  PROVE  LET buf == Piece(Frames(ms), At(ms, k), r)
         IN  LoopResult(DispatchStep(D, buf, At(ms, K) - At(ms, k)), ms, k, K, K, r)
<1> DEFINE F == Frames(ms)
           u == At(ms, k)
           v == At(ms, K)
           buf == Piece(F, u, r)
           i == v - u
<1>0. /\ Len(ms) \in Nat /\ K \in 0 .. Len(ms) /\ k \in Nat /\ k <= K /\ u \in Nat /\ v \in Nat /\ u <= v /\ v <= r
      /\ F \in Seq(Cell) /\ Len(F) \in Nat /\ r \in 0 .. Len(F) /\ u \in 0 .. Len(F) /\ u <= r
      /\ header_size \in Nat \ {0} /\ OS_MAXSTR \in Nat \ {0} /\ At(ms, Len(ms)) = Len(F)
      /\ K < Len(ms) => r < At(ms, K + 1)
  <2>1. Len(ms) \in Nat /\ K \in 0 .. Len(ms) /\ F \in Seq(Cell) /\ Len(F) \in Nat
    BY UptoType, SMTT(30), Z3T(30)
  <2>2. k \in 0 .. Len(ms) /\ k <= K /\ k \in Nat
    BY <2>1, SMTT(30), Z3T(30)
  <2>3. /\ u \in Nat /\ v \in Nat /\ u <= v /\ u <= Len(F) /\ At(ms, Len(ms)) = Len(F)
    BY <2>1, <2>2, AtBounds
  <2>4. v <= r /\ (K < Len(ms) => r < At(ms, K + 1))
    BY DEF Whole
  <2>5. header_size \in Nat \ {0} /\ OS_MAXSTR \in Nat \ {0}
    BY NetBufferAssumption
  <2>6. r \in 0 .. Len(F)
    OBVIOUS
  <2> HIDE DEF F, u, v
  <2> QED BY <2>1, <2>2, <2>3, <2>4, <2>5, <2>6, SMTT(30), Z3T(30)
<1>1. Len(buf) = r - u
  BY <1>0, PieceType, ZenonT(30)
<1>2. Piece(Payloads(ms), K, K) = <<>>
  <2>1. Payloads(ms) \in Seq(Seq(Cell)) /\ Len(Payloads(ms)) = Len(ms)
    BY PayloadsType
  <2>2. Piece(Payloads(ms), K, K) \in Seq(Seq(Cell)) /\ Len(Piece(Payloads(ms), K, K)) = K - K
    <3> DEFINE p == Payloads(ms)
    <3>1. p \in Seq(Seq(Cell)) /\ K \in 0 .. Len(p) /\ K <= K
      BY <1>0, <2>1, SMTT(30), Z3T(30)
    <3> HIDE DEF p
    <3>2. Piece(p, K, K) \in Seq(Seq(Cell)) /\ Len(Piece(p, K, K)) = K - K
      BY <3>1, PieceType, ZenonT(30)
    <3> QED BY <3>2 DEF p
  <2>3. K - K = 0
    BY <1>0, SMTT(30), Z3T(30)
  <2> QED BY <2>2, <2>3, EmptySeq
<1>3. CASE v + header_size > r
  <2>1. i + header_size > Len(buf) /\ r - v <= header_size + OS_MAXSTR - 1
    BY <1>0, <1>1, <1>3, SMTT(30), Z3T(30)
  <2>2. DispatchStep(D, buf, i) = DRec(i, <<>>, FALSE)
    BY <2>1 DEF DispatchStep
  <2> QED BY <1>2, <2>1, <2>2, ZenonT(30) DEF LoopResult
<1>4. CASE ~(v + header_size > r)
  <2>1. v + header_size <= r /\ v # Len(F) /\ K \in 0 .. (Len(ms) - 1) /\ ~(i + header_size > Len(buf))
    BY <1>0, <1>1, <1>4, SMTT(30), Z3T(30)
  <2> DEFINE m == ms[K + 1]
             z == At(ms, K + 1)
  <2>2. m \in Msg /\ Size[m] \in Nat /\ z = v + header_size + Size[m]
    BY <2>1, FrameAt
  <2>3. cur_len(buf, i) = Size[m] /\ cur_end(buf, i) = z - u
    BY <1>0, <2>1, HeaderAt, ZenonT(30)
  <2>4. r < z
    BY <1>0, <2>1, SMTT(30), Z3T(30)
  <2> HIDE DEF m, z, buf, v, u
  <2>5. CASE Size[m] > OS_MAXSTR
    <3>1. DispatchStep(D, buf, i) = DRec(i, <<>>, TRUE)
      BY <2>1, <2>3, <2>5, ZenonT(30) DEF DispatchStep
    <3>2. LoopResult(DispatchStep(D, buf, i), ms, k, K, K, r)
      BY <3>1, ZenonT(30) DEF LoopResult
    <3> QED BY <3>2 DEF buf, u, v
  <2>6. CASE ~(Size[m] > OS_MAXSTR)
    <3>1. cur_end(buf, i) > Len(buf) /\ r - v <= header_size + OS_MAXSTR - 1
      <4> DEFINE s == Size[m]
      <4>1. /\ s \in Nat /\ z = v + header_size + s /\ ~(s > OS_MAXSTR) /\ u \in Nat /\ v \in Nat
            /\ r \in Nat /\ header_size \in Nat /\ OS_MAXSTR \in Nat
        BY <1>0, <2>2, <2>6, SMTT(30), Z3T(30)
      <4> HIDE DEF s
      <4>2. z - u > r - u /\ r - v <= header_size + OS_MAXSTR - 1
        BY <2>4, <4>1, SMTT(30), Z3T(30)
      <4> QED BY <1>1, <2>3, <4>2
    <3>2. DispatchStep(D, buf, i) = DRec(i, <<>>, FALSE)
      BY <2>1, <2>3, <2>6, <3>1, ZenonT(30) DEF DispatchStep
    <3>3. LoopResult(DispatchStep(D, buf, i), ms, k, K, K, r)
      BY <1>2, <3>1, <3>2, ZenonT(30) DEF LoopResult, u, v
    <3> QED BY <3>3 DEF buf, u, v
  <2> QED BY <2>5, <2>6
<1> QED BY <1>3, <1>4

\* The loop at a complete frame: it hands over the payload and goes on behind it.
LEMMA LoopStep ==
  ASSUME NEW ms \in Seq(Msg), NEW k \in 0 .. Len(ms), NEW r \in 0 .. Len(Frames(ms)),
         NEW K \in k .. Len(ms), Whole(ms, K, r), NEW D, NEW j \in k .. (K - 1),
         LoopResult(D[At(ms, j + 1) - At(ms, k)], ms, k, j + 1, K, r)
  PROVE  LET buf == Piece(Frames(ms), At(ms, k), r)
         IN  LoopResult(DispatchStep(D, buf, At(ms, j) - At(ms, k)), ms, k, j, K, r)
<1> DEFINE F == Frames(ms)
           u == At(ms, k)
           v == At(ms, j)
           z == At(ms, j + 1)
           buf == Piece(F, u, r)
           i == v - u
           m == ms[j + 1]
           p == Payloads(ms)
<1>0. /\ Len(ms) \in Nat /\ j \in 0 .. (Len(ms) - 1) /\ j + 1 \in 0 .. Len(ms) /\ j \in 0 .. Len(ms)
      /\ K \in 0 .. Len(ms) /\ k <= j /\ j + 1 <= K /\ j <= j + 1
  <2>1. Len(ms) \in Nat
    BY UptoType
  <2> QED BY <2>1, SMTT(30), Z3T(30)
<1>1. /\ u \in Nat /\ v \in Nat /\ u <= v /\ z <= r /\ F \in Seq(Cell) /\ Len(F) \in Nat
      /\ r \in 0 .. Len(F) /\ u \in 0 .. Len(F) /\ u <= r /\ z \in Nat
  <2>1. F \in Seq(Cell) /\ Len(F) \in Nat /\ r \in 0 .. Len(F)
    BY UptoType
  <2>2. u \in Nat /\ v \in Nat /\ z \in Nat /\ At(ms, K) \in Nat /\ u <= v /\ v <= z /\ z <= At(ms, K) /\ u <= Len(F)
    BY <1>0, AtBounds
  <2>3. At(ms, K) <= r
    BY DEF Whole
  <2> HIDE DEF F, u, v, z
  <2> QED BY <2>1, <2>2, <2>3, SMTT(30), Z3T(30)
<1>2. m \in Msg /\ Size[m] \in Nat /\ header_size \in Nat /\ z = v + header_size + Size[m]
  BY <1>0, FrameAt, ZenonT(30)
<1>3. Len(buf) = r - u
  BY <1>1, PieceType, ZenonT(30)
<1>4. v + header_size <= r /\ ~(i + header_size > Len(buf))
  <2> DEFINE s == Size[m]
  <2>1. s \in Nat /\ z = v + header_size + s /\ header_size \in Nat
    BY <1>2
  <2> HIDE DEF s, z, v, u, F, buf
  <2> QED BY <1>1, <1>3, <2>1, SMTT(30), Z3T(30)
<1>5. /\ cur_len(buf, i) = Size[m] /\ cur_end(buf, i) = z - u
      /\ SubSeq(buf, i + header_size + 1, cur_end(buf, i)) = Payload(m)
  BY <1>0, <1>1, <1>4, HeaderAt, ZenonT(30)
<1>6. <<Payload(m)>> \o Piece(p, j + 1, K) = Piece(p, j, K)
  <2>1. p \in Seq(Seq(Cell)) /\ Len(p) = Len(ms) /\ Piece(p, j, j + 1) = <<Payload(m)>>
    BY <1>0, PayloadsType
  <2> DEFINE y == j + 1
  <2>2. j \in 0 .. Len(p) /\ y \in 0 .. Len(p) /\ K \in 0 .. Len(p) /\ j <= y /\ y <= K
    BY <1>0, <2>1
  <2> HIDE DEF p, y
  <2>3. Piece(p, j, y) \o Piece(p, y, K) = Piece(p, j, K)
    BY <2>1, <2>2, PieceJoin, ZenonT(30)
  <2> QED BY <2>1, <2>3, ZenonT(30) DEF y
<1>7. LoopResult(D[z - u], ms, k, j + 1, K, r)
  OBVIOUS
<1> HIDE DEF m, z, buf, v, u, F, p
<1>8. CASE Size[m] > OS_MAXSTR
  <2>1. DispatchStep(D, buf, i) = DRec(i, <<>>, TRUE)
    BY <1>4, <1>5, <1>8, ZenonT(30) DEF DispatchStep
  <2>2. LoopResult(DispatchStep(D, buf, i), ms, k, j, K, r)
    BY <2>1, ZenonT(30) DEF LoopResult
  <2> QED BY <2>2 DEF buf, u, v, F
<1>9. CASE ~(Size[m] > OS_MAXSTR)
  <2>1. ~(z - u > Len(buf))
    BY <1>1, <1>3, SMTT(30), Z3T(30)
  <2>2. DispatchStep(D, buf, i) = Prepend(D[z - u], Payload(m))
    BY <1>4, <1>5, <1>9, <2>1, ZenonT(30) DEF DispatchStep
  <2> DEFINE x == D[z - u]
             o == At(ms, K) - At(ms, k)
             y == j + 1
             q == Piece(p, y, K)
  <2>3. \/ x = DRec(o, q, FALSE) /\ r - At(ms, K) <= header_size + OS_MAXSTR - 1
        \/ \E a, b : x = DRec(a, b, TRUE)
    BY <1>7, ZenonT(30) DEF LoopResult, p
  <2>4. CASE x = DRec(o, q, FALSE) /\ r - At(ms, K) <= header_size + OS_MAXSTR - 1
    <3>1. DispatchStep(D, buf, i) = DRec(o, <<Payload(m)>> \o q, FALSE)
      <4> HIDE DEF x, o, q
      <4>1. DispatchStep(D, buf, i) = Prepend(x, Payload(m))
        BY <2>2 DEF x
      <4>2. Prepend(DRec(o, q, FALSE), Payload(m)) = DRec(o, <<Payload(m)>> \o q, FALSE)
        <5> DEFINE w == <<Payload(m)>> \o q
        <5>1. w = <<Payload(m)>> \o q
          OBVIOUS
        <5> HIDE DEF w
        <5>2. Prepend(DRec(o, q, FALSE), Payload(m)) = DRec(o, w, FALSE)
          BY <5>1, PrependTo, ZenonT(30)
        <5> QED BY <5>1, <5>2, ZenonT(30)
      <4> QED BY <2>4, <4>1, <4>2, ZenonT(30)
    <3>2. DispatchStep(D, buf, i) = DRec(o, Piece(p, j, K), FALSE)
      BY <1>6, <3>1, ZenonT(30)
    <3>3. LoopResult(DispatchStep(D, buf, i), ms, k, j, K, r)
      BY <2>4, <3>2, ZenonT(30) DEF LoopResult, p
    <3> QED BY <3>3 DEF buf, u, v, F
  <2>5. CASE \E a, b : x = DRec(a, b, TRUE)
    <3>1. PICK a, b : x = DRec(a, b, TRUE)
      BY <2>5, ZenonT(30)
    <3>2. DispatchStep(D, buf, i) = DRec(a, <<Payload(m)>> \o b, TRUE)
      <4> HIDE DEF x
      <4>1. DispatchStep(D, buf, i) = Prepend(x, Payload(m))
        BY <2>2 DEF x
      <4>2. Prepend(DRec(a, b, TRUE), Payload(m)) = DRec(a, <<Payload(m)>> \o b, TRUE)
        <5> DEFINE w == <<Payload(m)>> \o b
        <5>1. w = <<Payload(m)>> \o b
          OBVIOUS
        <5> HIDE DEF w
        <5>2. Prepend(DRec(a, b, TRUE), Payload(m)) = DRec(a, w, TRUE)
          BY <5>1, PrependTo, ZenonT(30)
        <5> QED BY <5>1, <5>2, ZenonT(30)
      <4> QED BY <3>1, <4>1, <4>2, ZenonT(30)
    <3>3. LoopResult(DispatchStep(D, buf, i), ms, k, j, K, r)
      BY <3>2, ZenonT(30) DEF LoopResult
    <3> QED BY <3>3 DEF buf, u, v, F
  <2> QED BY <2>3, <2>4, <2>5, ZenonT(30)
<1> QED BY <1>8, <1>9

\* The whole loop over what was left of the last receive and the bytes behind it.
LEMMA LoopAll ==
  ASSUME NEW ms \in Seq(Msg), NEW k \in 0 .. Len(ms), NEW r \in 0 .. Len(Frames(ms)),
         NEW K \in k .. Len(ms), Whole(ms, K, r)
  PROVE  LoopResult(Dispatch(Piece(Frames(ms), At(ms, k), r)), ms, k, k, K, r)
<1> DEFINE F == Frames(ms)
           u == At(ms, k)
           buf == Piece(F, u, r)
           D == DispatchFunction(buf)
           T == K - k
           G == {t \in 0 .. T : LoopResult(D[At(ms, K - t) - u], ms, k, K - t, K, r)}
<1>0. /\ Len(ms) \in Nat /\ F \in Seq(Cell) /\ Len(F) \in Nat /\ r \in 0 .. Len(F) /\ r \in Nat
      /\ k \in 0 .. Len(ms) /\ K \in Nat /\ k \in Nat /\ K \in 0 .. Len(ms) /\ k <= K /\ T \in Nat
  <2>1. Len(ms) \in Nat /\ F \in Seq(Cell) /\ Len(F) \in Nat
    BY UptoType
  <2> QED BY <2>1, SMTT(30), Z3T(30)
<1>1. /\ u \in Nat /\ At(ms, K) \in Nat /\ At(ms, K) <= r /\ u <= At(ms, K) /\ u \in 0 .. Len(F) /\ u <= r
  <2>1. u \in Nat /\ At(ms, K) \in Nat /\ u <= At(ms, K) /\ u <= Len(F)
    BY <1>0, AtBounds
  <2>2. At(ms, K) <= r
    BY DEF Whole
  <2> HIDE DEF u, F
  <2> QED BY <1>0, <2>1, <2>2, SMTT(30), Z3T(30)
<1>2. buf \in Seq(Cell) /\ Len(buf) = r - u
  BY <1>0, <1>1, PieceType, ZenonT(30)
<1>3. \A j \in k .. K : At(ms, j) - u \in 0 .. Len(buf)
  <2> SUFFICES ASSUME NEW j \in k .. K PROVE At(ms, j) - u \in 0 .. Len(buf)
    OBVIOUS
  <2>1. j \in 0 .. Len(ms) /\ k <= j /\ j <= K
    BY <1>0, SMTT(30), Z3T(30)
  <2>2. At(ms, j) \in Nat /\ u <= At(ms, j) /\ At(ms, j) <= At(ms, K)
    BY <1>0, <2>1, AtBounds
  <2> HIDE DEF u, buf
  <2> QED BY <1>0, <1>1, <1>2, <2>2, SMTT(30), Z3T(30)
<1>4. \A i \in 0 .. Len(buf) : D[i] = DispatchStep(D, buf, i)
  <2> HIDE DEF buf
  <2> QED BY <1>2, DispatchExists
<1> HIDE DEF D
<1>5. LoopResult(D[At(ms, K) - u], ms, k, K, K, r)
  <2>1. LoopResult(DispatchStep(D, buf, At(ms, K) - u), ms, k, K, K, r)
    BY <1>0, LoopEnd
  <2>2. At(ms, K) - u \in 0 .. Len(buf)
    BY <1>0, <1>3, SMTT(30), Z3T(30)
  <2>3. D[At(ms, K) - u] = DispatchStep(D, buf, At(ms, K) - u)
    BY <1>4, <2>2
  <2> QED BY <2>1, <2>3
<1>6. ASSUME NEW j \in k .. (K - 1), LoopResult(D[At(ms, j + 1) - u], ms, k, j + 1, K, r)
      PROVE  LoopResult(D[At(ms, j) - u], ms, k, j, K, r)
  <2>1. LoopResult(DispatchStep(D, buf, At(ms, j) - u), ms, k, j, K, r)
    BY <1>6, LoopStep, ZenonT(30)
  <2>2. j \in k .. K
    BY <1>0, SMTT(30), Z3T(30)
  <2>3. D[At(ms, j) - u] = DispatchStep(D, buf, At(ms, j) - u)
    BY <1>3, <1>4, <2>2
  <2> QED BY <2>1, <2>3
<1>7. 0 \in G
  <2>1. K - 0 = K /\ 0 \in 0 .. T
    BY <1>0, SMTT(30), Z3T(30)
  <2> QED BY <1>5, <2>1
<1>8. ASSUME NEW t \in 0 .. (T - 1), t \in G PROVE t + 1 \in G
  <2> DEFINE j == K - (t + 1)
  <2>1. j \in k .. (K - 1) /\ j + 1 = K - t /\ t + 1 \in 0 .. T
    BY <1>0, SMTT(30), Z3T(30)
  <2>2. LoopResult(D[At(ms, K - t) - u], ms, k, K - t, K, r)
    BY <1>8
  <2> HIDE DEF j
  <2>3. LoopResult(D[At(ms, j) - u], ms, k, j, K, r)
    BY <1>6, <2>1, <2>2, ZenonT(30)
  <2> QED BY <2>1, <2>3 DEF j
<1>9. \A t \in 0 .. T : t \in G
  <2> HIDE DEF G, T
  <2> QED BY <1>0, <1>7, <1>8, Upwards, ZenonT(30)
<1>10. LoopResult(D[u - u], ms, k, k, K, r)
  <2>1. T \in 0 .. T /\ K - T = k
    BY <1>0, SMTT(30), Z3T(30)
  <2>2. T \in G
    BY <1>9, <2>1, ZenonT(30)
  <2>3. LoopResult(D[At(ms, K - T) - u], ms, k, K - T, K, r)
    BY <2>2
  <2> QED BY <2>1, <2>3
<1>11. u - u = 0
  BY <1>1, SMTT(30), Z3T(30)
<1>12. Dispatch(buf) = D[0]
  BY DispatchIs DEF D
<1> QED BY <1>10, <1>11, <1>12

\* Of the frames of ms, r bytes were received: the first k frames were handed over, the
\* bytes behind them are in the receive buffer, and st is still to come.
Arrived(ms, k, r, st, da, pu) ==
  /\ ms \in Seq(Msg) /\ r \in 0 .. Len(Frames(ms)) /\ Whole(ms, k, r)
  /\ st = Suffix(Frames(ms), r)
  /\ da = Piece(Frames(ms), At(ms, k), r)
  /\ pu = Piece(Payloads(ms), 0, k)

\* One receive of n bytes.
LEMMA RecvStep ==
  ASSUME NEW ms, NEW k, NEW r, NEW st, NEW da, NEW pu, Arrived(ms, k, r, st, da, pu),
         NEW n \in 1 .. Len(st), ~Dispatch(da \o SubSeq(st, 1, n)).bad
  PROVE  LET buf == da \o SubSeq(st, 1, n)
             d   == Dispatch(buf)
             re  == SubSeq(buf, d.i + 1, Len(buf))
         IN  /\ \E K : Arrived(ms, K, r + n, SubSeq(st, n + 1, Len(st)), re, pu \o d.msgs)
             /\ Len(buf) = Len(da) + n /\ Len(da) \in Nat
             /\ d.i \in Nat /\ Len(re) = Len(buf) - d.i /\ Len(re) \in Nat
             /\ Len(re) <= header_size + OS_MAXSTR - 1
<1> DEFINE F == Frames(ms)
           N == Len(F)
           u == At(ms, k)
           R == r + n
           x == SubSeq(st, 1, n)
           buf == da \o x
           d == Dispatch(buf)
           p == Payloads(ms)
           re == SubSeq(buf, d.i + 1, Len(buf))
<1>0. /\ ms \in Seq(Msg) /\ r \in 0 .. N /\ Whole(ms, k, r) /\ st = Suffix(F, r)
      /\ da = Piece(F, u, r) /\ pu = Piece(p, 0, k)
  BY DEF Arrived
<1>1. k \in 0 .. Len(ms) /\ u <= r
  BY <1>0 DEF Whole
<1>2. /\ Len(ms) \in Nat /\ F \in Seq(Cell) /\ N \in Nat /\ u \in Nat
  BY <1>0, <1>1, UptoType, AtBounds
<1> HIDE DEF F, N
<1>3. Len(st) = N - r
  BY <1>0, <1>2, SuffixType, ZenonT(30) DEF N
<1> HIDE DEF u
<1>4. /\ n \in 1 .. (N - r) /\ R \in 0 .. N /\ u \in 0 .. N /\ u <= R /\ r <= R /\ r \in Nat /\ n \in Nat
  BY <1>0, <1>1, <1>2, <1>3, SMTT(30), Z3T(30)
<1>5. x = Piece(F, r, R)
  <2> DEFINE z == N - r
  <2>1. r + 0 = r /\ r <= N /\ 0 \in 0 .. z /\ n \in 0 .. z /\ N \in 0 .. N /\ 0 <= n /\ 0 + 1 = 1
    BY <1>0, <1>2, <1>4, SMTT(30), Z3T(30)
  <2>2. st = Piece(F, r, N)
    BY <1>0, SuffixIsPiece DEF N
  <2>3. Piece(Piece(F, r, N), 0, n) = Piece(F, r + 0, r + n)
    BY <1>0, <1>2, <2>1, PieceOfPiece, SMTT(30), Z3T(30) DEF N
  <2>4. Piece(st, 0, n) = x
    BY <2>1 DEF Piece
  <2> QED BY <2>1, <2>2, <2>3, <2>4
<1> HIDE DEF R, x
<1>6. buf = Piece(F, u, R)
  BY <1>0, <1>1, <1>2, <1>4, <1>5, PieceJoin, ZenonT(30) DEF N
<1>7. PICK K \in k .. Len(ms) : Whole(ms, K, R)
  <2>1. R \in 0 .. Len(Frames(ms)) /\ At(ms, k) <= R
    BY <1>4 DEF N, F, u
  <2> QED BY <1>0, <1>1, <2>1, WholeExists
<1> DEFINE v == At(ms, K)
<1>8. LoopResult(d, ms, k, k, K, R)
  <2>1. R \in 0 .. Len(Frames(ms))
    BY <1>4 DEF N, F
  <2>2. LoopResult(Dispatch(Piece(Frames(ms), At(ms, k), R)), ms, k, k, K, R)
    BY <1>0, <1>1, <1>7, <2>1, LoopAll
  <2> QED BY <1>6, <2>2 DEF F, u
<1>9. d.bad # TRUE
  BY ZenonT(30) DEF x
<1>10. d = DRec(v - u, Piece(p, k, K), FALSE) /\ R - v <= header_size + OS_MAXSTR - 1
  <2>1. \A i, m : DRec(i, m, TRUE).bad = TRUE
    BY DEF DRec
  <2> HIDE DEF d
  <2>2. ~\E i, m : d = DRec(i, m, TRUE)
    BY <1>9, <2>1, ZenonT(30)
  <2> QED BY <1>8, <2>2, ZenonT(30) DEF LoopResult, u
<1>11. d.i = v - u /\ d.msgs = Piece(p, k, K)
  <2> HIDE DEF d, p
  <2> QED BY <1>10 DEF DRec
<1>12. K \in 0 .. Len(ms) /\ k <= K /\ v \in Nat /\ u <= v /\ v <= R /\ K \in Nat /\ k \in Nat /\ v \in 0 .. N
  <2>1. K \in 0 .. Len(ms) /\ k <= K /\ K \in Nat /\ k \in Nat
    BY <1>1, <1>2, <1>7, SMTT(30), Z3T(30)
  <2>2. v \in Nat /\ u <= v
    BY <1>0, <1>1, <2>1, AtBounds DEF u
  <2>3. v <= R
    BY <1>7 DEF Whole
  <2>4. R \in 0 .. N /\ N \in Nat
    BY <1>2, <1>4
  <2> HIDE DEF v
  <2> QED BY <2>1, <2>2, <2>3, <2>4, SMTT(30), Z3T(30)
<1> HIDE DEF d, p, v
<1>13. buf \in Seq(Cell) /\ Len(buf) = R - u
  BY <1>2, <1>4, <1>6, PieceType, ZenonT(30) DEF N
<1>14. Len(da) = r - u
  BY <1>0, <1>1, <1>2, <1>4, PieceType, ZenonT(30) DEF N
<1>15. Len(buf) = Len(da) + n /\ Len(da) \in Nat
  BY <1>1, <1>2, <1>4, <1>13, <1>14, SMTT(30), Z3T(30) DEF R
<1>16. re = Piece(F, v, R)
  <2> DEFINE i == v - u
             j == R - u
  <2>1. i \in 0 .. (R - u) /\ j \in 0 .. (R - u) /\ i <= j /\ u + i = v /\ u + j = R
    BY <1>2, <1>4, <1>12, SMTT(30), Z3T(30)
  <2>2. re = Piece(buf, i, j)
    BY <1>11, <1>13 DEF Piece
  <2> HIDE DEF i, j, re
  <2>3. Piece(Piece(F, u, R), i, j) = Piece(F, u + i, u + j)
    BY <1>2, <1>4, <2>1, PieceOfPiece, SMTT(30), Z3T(30) DEF N
  <2> QED BY <1>6, <2>1, <2>2, <2>3
<1> HIDE DEF re
<1>17. Len(re) = R - v
  BY <1>2, <1>4, <1>12, <1>16, PieceType, ZenonT(30) DEF N
<1>18. d.i \in Nat /\ Len(re) = Len(buf) - d.i /\ Len(re) \in Nat /\ Len(re) <= header_size + OS_MAXSTR - 1
  <2>1. u \in Nat /\ v \in Nat /\ u <= v /\ v <= R /\ R \in Nat
    BY <1>2, <1>4, <1>12, SMTT(30), Z3T(30)
  <2>2. v - u \in Nat /\ R - v = (R - u) - (v - u) /\ R - v \in Nat
    BY <2>1, SMTT(30), Z3T(30)
  <2> QED BY <1>10, <1>11, <1>13, <1>17, <2>2, ZenonT(30)
<1>19. SubSeq(st, n + 1, Len(st)) = Suffix(F, R)
  <2>1. n \in 0 .. (Len(F) - r) /\ r \in 0 .. Len(F)
    BY <1>0, <1>2, <1>4, SMTT(30), Z3T(30) DEF N
  <2>2. Suffix(Suffix(F, r), n) = Suffix(F, r + n)
    BY <1>2, <2>1, SuffixSuffix
  <2> QED BY <1>0, <2>2 DEF Suffix, R
<1>20. pu \o d.msgs = Piece(p, 0, K)
  <2>1. p \in Seq(Seq(Cell)) /\ Len(p) = Len(ms)
    BY <1>0, PayloadsType DEF p
  <2>2. 0 \in 0 .. Len(p) /\ k \in 0 .. Len(p) /\ K \in 0 .. Len(p) /\ 0 <= k
    BY <1>1, <1>2, <1>12, <2>1, SMTT(30), Z3T(30)
  <2>3. Piece(p, 0, k) \o Piece(p, k, K) = Piece(p, 0, K)
    BY <1>12, <2>1, <2>2, PieceJoin, ZenonT(30)
  <2> QED BY <1>0, <1>11, <2>3
<1>21. Arrived(ms, K, R, SubSeq(st, n + 1, Len(st)), re, pu \o d.msgs)
  BY <1>0, <1>4, <1>7, <1>16, <1>19, <1>20, ZenonT(30) DEF Arrived, F, N, v, p
<1> QED BY <1>15, <1>18, <1>21 DEF re, d, x, R

\* Before the first byte of a connection.
LEMMA NothingArrived ==
  ASSUME NEW ms \in Seq(Msg)
  PROVE  Arrived(ms, 0, 0, Frames(ms), <<>>, <<>>)
<1> DEFINE F == Frames(ms)
           p == Payloads(ms)
<1>0. Len(ms) \in Nat /\ F \in Seq(Cell) /\ Len(F) \in Nat /\ At(ms, 0) = 0
  BY UptoType, AtBounds
<1>1. Whole(ms, 0, 0)
  <2>1. ASSUME 0 < Len(ms) PROVE 0 < At(ms, 0 + 1)
    <3> DEFINE z == At(ms, 0 + 1)
               s == Size[ms[0 + 1]]
    <3>1. 0 \in 0 .. (Len(ms) - 1)
      BY <1>0, <2>1, SMTT(30), Z3T(30)
    <3>2. s \in Nat /\ header_size \in Nat \ {0} /\ z = At(ms, 0) + header_size + s
      BY <3>1, FrameAt, ZenonT(30)
    <3> HIDE DEF z, s
    <3>3. 0 < z
      BY <1>0, <3>2, SMTT(30), Z3T(30)
    <3> QED BY <3>3 DEF z
  <2>2. 0 \in 0 .. Len(ms) /\ 0 <= 0
    BY <1>0, SMTT(30), Z3T(30)
  <2> QED BY <1>0, <2>1, <2>2 DEF Whole
<1>2. Suffix(F, 0) = F
  <2> DEFINE x == Suffix(F, 0)
             L == Len(F)
  <2>1. 0 \in 0 .. Len(F) /\ L - 0 = L
    BY <1>0, SMTT(30), Z3T(30)
  <2>2. x \in Seq(Cell) /\ Len(x) = L - 0 /\ \A i \in 1 .. (L - 0) : x[i] = F[0 + i]
    BY <1>0, <2>1, SuffixType
  <2> HIDE DEF x, F
  <2>3. \A i \in 1 .. Len(x) : x[i] = F[i]
    BY <1>0, <2>1, <2>2, SMTT(30), Z3T(30)
  <2>4. x = F
    BY <1>0, <2>1, <2>2, <2>3, SeqEqual
  <2> QED BY <2>4 DEF x
<1>3. Piece(F, 0, 0) = <<>> /\ Piece(p, 0, 0) = <<>>
  BY SubSeqEmpty, SMTT(30), Z3T(30) DEF Piece
<1>4. 0 \in 0 .. Len(F)
  BY <1>0, SMTT(30), Z3T(30)
<1> QED BY <1>0, <1>1, <1>2, <1>3, <1>4 DEF Arrived

\* The block that nb_recv receives into, and what it keeps of it.
LEMMA BlockSize ==
  ASSUME NEW s \in Nat, NEW a \in Nat, NEW b \in Nat, NEW n \in 1 .. receive_chunk, NEW i \in Nat,
         a <= s, s <= header_size + OS_MAXSTR - 1 + receive_chunk, a <= header_size + OS_MAXSTR - 1,
         b = a + n - i, b <= header_size + OS_MAXSTR - 1
  PROVE  LET size == Larger(s, a + receive_chunk)
         IN  (IF i > 0 THEN Relaxed(size, b) ELSE size) \in b .. (header_size + OS_MAXSTR - 1 + receive_chunk)
<1> DEFINE size == Larger(s, a + receive_chunk)
           M == header_size + OS_MAXSTR - 1
<1>1. receive_chunk \in Nat \ {0} /\ M \in Nat /\ buffer_relax \in 0 .. 2
  BY NetBufferAssumption, SMTT(30), Z3T(30)
<1> HIDE DEF M
<1>2. s <= M + receive_chunk /\ a <= M /\ b <= M
  BY DEF M
<1>3. size \in Nat /\ b <= size /\ size <= M + receive_chunk
  BY <1>1, <1>2, SMTT(30), Z3T(30) DEF Larger
<1>4. /\ Larger(b, receive_chunk) \in Nat /\ b <= Larger(b, receive_chunk)
      /\ Larger(b, receive_chunk) <= M + receive_chunk
  BY <1>1, <1>2, SMTT(30), Z3T(30) DEF Larger
<1> HIDE DEF size
<1>5. Relaxed(size, b) \in {size, Larger(b, receive_chunk), b}
  <2>1. buffer_relax = 0 \/ buffer_relax = 1 \/ buffer_relax = 2
    BY <1>1, SMTT(30), Z3T(30)
  <2> QED BY <2>1 DEF Relaxed
<1>6. b \in Nat /\ b <= M + receive_chunk
  BY <1>1, <1>2, SMTT(30), Z3T(30)
<1>7. \A y \in {size, Larger(b, receive_chunk), b} : y \in b .. (M + receive_chunk)
  BY <1>1, <1>3, <1>4, <1>6, SMTT(30), Z3T(30)
<1>8. (IF i > 0 THEN Relaxed(size, b) ELSE size) \in b .. (M + receive_chunk)
  BY <1>5, <1>7
<1> QED BY <1>8 DEF size, M

Byte == Cell \union {Junk}

(***************************************************************************)
(* Blocks of memory                                                        *)
(***************************************************************************)

\* The remainder of what is less than two rounds.
Rem(x, L) == IF x < L THEN x ELSE x - L

\* The code never goes around the ring more than once.
LEMMA Wrap ==
  ASSUME NEW L \in Nat \ {0}, NEW x \in 0 .. (2 * L - 1)
  PROVE  x % L = Rem(x, L)
BY SMTT(30), Z3T(30) DEF Rem

Block(L) == [0 .. (L - 1) -> Byte]

\* The block new is the block mem after n bytes were copied from src to dst.
Copied(new, L, mem, dst, src, n) ==
  /\ new \in Block(L)
  /\ \A x \in 0 .. (L - 1) :
       new[x] = IF dst <= x /\ x < dst + n THEN mem[src + (x - dst)] ELSE mem[x]

\* memcpy and memmove inside one block.
LEMMA MoveAt ==
  ASSUME NEW L \in Nat, NEW mem \in Block(L), NEW dst \in Nat, NEW src \in Nat, NEW n \in Nat,
         dst + n <= L, src + n <= L
  PROVE  Copied(memmove(mem, dst, src, n), L, mem, dst, src, n)
<1>1. DOMAIN mem = 0 .. (L - 1)
  BY DEF Block
<1>2. \A x \in 0 .. (L - 1) : x \in dst .. (dst + n - 1) <=> dst <= x /\ x < dst + n
  BY SMTT(30), Z3T(30)
<1>3. \A x \in 0 .. (L - 1) :
        memmove(mem, dst, src, n)[x] =
          IF dst <= x /\ x < dst + n THEN mem[src + (x - dst)] ELSE mem[x]
  BY <1>1, <1>2 DEF memmove
<1>4. \A x \in 0 .. (L - 1) : dst <= x /\ x < dst + n => src + (x - dst) \in 0 .. (L - 1)
  BY SMTT(30), Z3T(30)
<1>5. \A x \in 0 .. (L - 1) : memmove(mem, dst, src, n)[x] \in Byte
  BY <1>3, <1>4 DEF Block
<1>6. memmove(mem, dst, src, n) = [x \in 0 .. (L - 1) |-> memmove(mem, dst, src, n)[x]]
  BY <1>1 DEF memmove
<1> HIDE DEF Byte
<1>7. memmove(mem, dst, src, n) \in Block(L)
  BY <1>5, <1>6 DEF Block
<1> QED BY <1>3, <1>7 DEF Copied

\* The block new is the block mem after n bytes of the sequence s were copied to dst.
Stored(new, L, mem, dst, s, from, n) ==
  /\ new \in Block(L)
  /\ \A x \in 0 .. (L - 1) :
       new[x] = IF dst <= x /\ x < dst + n THEN s[from + (x - dst) + 1] ELSE mem[x]

\* memcpy of a part of the sequence data into a block.
LEMMA StoreAt ==
  ASSUME NEW L \in Nat, NEW mem \in Block(L), NEW dst \in Nat, NEW s \in Seq(Cell),
         NEW from \in Nat, NEW n \in Nat, dst + n <= L, from + n <= Len(s)
  PROVE  Stored(store(mem, dst, s, from, n), L, mem, dst, s, from, n)
<1>1. DOMAIN mem = 0 .. (L - 1) /\ Len(s) \in Nat
  BY SMTT(30), Z3T(30) DEF Block
<1>2. \A x \in 0 .. (L - 1) : x \in dst .. (dst + n - 1) <=> dst <= x /\ x < dst + n
  BY SMTT(30), Z3T(30)
<1>3. \A x \in 0 .. (L - 1) :
        store(mem, dst, s, from, n)[x] =
          IF dst <= x /\ x < dst + n THEN s[from + (x - dst) + 1] ELSE mem[x]
  BY <1>1, <1>2 DEF store
<1>4. \A x \in 0 .. (L - 1) : dst <= x /\ x < dst + n => from + (x - dst) + 1 \in 1 .. Len(s)
  BY <1>1, SMTT(30), Z3T(30)
<1>5. \A x \in 0 .. (L - 1) : store(mem, dst, s, from, n)[x] \in Byte
  BY <1>3, <1>4, ElementOfSeq, ZenonT(30) DEF Block, Byte
<1>6. store(mem, dst, s, from, n) = [x \in 0 .. (L - 1) |-> store(mem, dst, s, from, n)[x]]
  BY <1>1 DEF store
<1> HIDE DEF Byte
<1>7. store(mem, dst, s, from, n) \in Block(L)
  BY <1>5, <1>6 DEF Block
<1> QED BY <1>3, <1>7 DEF Stored

\* realloc keeps what fits.
LEMMA ReallocAt ==
  ASSUME NEW L \in Nat, NEW mem \in Block(L), NEW n \in Nat
  PROVE  /\ os_realloc(mem, n) \in Block(n)
         /\ \A x \in 0 .. (n - 1) : x < L => os_realloc(mem, n)[x] = mem[x]
<1>1. DOMAIN mem = 0 .. (L - 1)
  BY DEF Block
<1>2. \A x \in 0 .. (n - 1) : x \in DOMAIN mem <=> x < L
  BY <1>1, SMTT(30), Z3T(30)
<1>3. \A x \in 0 .. (n - 1) : os_realloc(mem, n)[x] = IF x < L THEN mem[x] ELSE Junk
  BY <1>2 DEF os_realloc
<1>4. \A x \in 0 .. (n - 1) : os_realloc(mem, n)[x] \in Byte
  BY <1>1, <1>2, <1>3 DEF Block, Byte
<1>5. os_realloc(mem, n) = [x \in 0 .. (n - 1) |-> os_realloc(mem, n)[x]]
  BY DEF os_realloc
<1> HIDE DEF Byte
<1>6. os_realloc(mem, n) \in Block(n)
  BY <1>4, <1>5 DEF Block
<1> QED BY <1>3, <1>6

(***************************************************************************)
(* A ring that holds a sequence of bytes                                   *)
(***************************************************************************)

\* The number of bytes between head h and tail t in a ring of L bytes, and the place of
\* the i-th of them.
UsedOf(h, t, L) == IF t >= h THEN t - h ELSE t + L - h
Place(h, i, L) == IF h + i < L THEN h + i ELSE h + i - L

RingType(mem, h, t, L) ==
  /\ L \in Nat /\ h \in Nat /\ t \in Nat /\ mem \in Block(L)
  /\ L = 0 => h = 0 /\ t = 0
  /\ L > 0 => h < L /\ t < L

\* The ring holds the bytes s.
Ring(mem, h, t, L, s) ==
  /\ RingType(mem, h, t, L)
  /\ s \in Seq(Cell) /\ Len(s) = UsedOf(h, t, L)
  /\ \A i \in 0 .. (Len(s) - 1) : mem[Place(h, i, L)] = s[i + 1]

\* realloc of a block to more bytes, and the move of the wrapped part behind the old end.
LEMMA ExpandRing ==
  ASSUME NEW mem, NEW h, NEW t, NEW L, NEW s, Ring(mem, h, t, L, s), NEW N \in Nat, N > L
  PROVE  LET r == os_realloc(mem, N)
             g == N - L
         IN  /\ t >= h => Ring(r, h, t, N, s)
             /\ t < h /\ t <= g => Ring(memmove(r, L, 0, t), h, (L + t) % N, N, s)
             /\ t < h /\ t > g =>
                  Ring(memmove(memmove(r, L, 0, g), 0, g, t - g), h, t - g, N, s)
<1> DEFINE r == os_realloc(mem, N)
           g == N - L
<1>0. /\ L \in Nat /\ h \in Nat /\ t \in Nat /\ mem \in Block(L) /\ g \in Nat /\ g = N - L
      /\ (L = 0 => h = 0 /\ t = 0) /\ (L > 0 => h < L /\ t < L)
      /\ s \in Seq(Cell) /\ Len(s) \in Nat /\ Len(s) = UsedOf(h, t, L)
  BY SMTT(30), Z3T(30) DEF Ring, RingType
<1>1. \A i \in 0 .. (Len(s) - 1) : mem[Place(h, i, L)] = s[i + 1]
  BY DEF Ring
<1>2. r \in Block(N) /\ \A x \in 0 .. (N - 1) : x < L => r[x] = mem[x]
  BY <1>0, ReallocAt, ZenonT(30)
<1> HIDE DEF r, g
<1>3. ASSUME t >= h PROVE Ring(r, h, t, N, s)
  <2>1. RingType(r, h, t, N) /\ UsedOf(h, t, N) = Len(s)
    BY <1>0, <1>2, <1>3, SMTT(30), Z3T(30) DEF RingType, UsedOf
  <2>2. \A i \in 0 .. (Len(s) - 1) : r[Place(h, i, N)] = s[i + 1]
    <3> SUFFICES ASSUME NEW i \in 0 .. (Len(s) - 1) PROVE r[Place(h, i, N)] = s[i + 1]
      OBVIOUS
    <3>1. Place(h, i, N) = h + i /\ Place(h, i, L) = h + i /\ h + i \in 0 .. (N - 1) /\ h + i < L
      BY <1>0, <1>3, SMTT(30), Z3T(30) DEF UsedOf, Place
    <3> QED BY <1>1, <1>2, <3>1
  <2> QED BY <1>0, <2>1, <2>2 DEF Ring
<1>4. ASSUME t < h, t <= g PROVE Ring(memmove(r, L, 0, t), h, (L + t) % N, N, s)
  <2> DEFINE m == memmove(r, L, 0, t)
             u == (L + t) % N
  <2>1. /\ m \in Block(N)
        /\ \A x \in 0 .. (N - 1) : m[x] = IF L <= x /\ x < L + t THEN r[0 + (x - L)] ELSE r[x]
    <3>1. 0 \in Nat /\ L + t <= N /\ 0 + t <= N
      BY <1>0, <1>4, SMTT(30), Z3T(30)
    <3>2. Copied(m, N, r, L, 0, t)
      BY <1>0, <1>2, <3>1, MoveAt, ZenonT(30)
    <3> QED BY <3>2 DEF Copied
  <2>2. u = IF L + t < N THEN L + t ELSE 0
    <3> DEFINE z == L + t
    <3>1. z \in 0 .. (2 * N - 1) /\ N \in Nat \ {0}
      BY <1>0, <1>4, SMTT(30), Z3T(30)
    <3> HIDE DEF z
    <3>2. z % N = Rem(z, N)
      BY <3>1, Wrap, ZenonT(30)
    <3> QED BY <1>0, <1>4, <3>2, SMTT(30), Z3T(30) DEF z, Rem
  <2> HIDE DEF m, u
  <2>3. RingType(m, h, u, N) /\ UsedOf(h, u, N) = Len(s)
    BY <1>0, <1>4, <2>1, <2>2, SMTT(30), Z3T(30) DEF RingType, UsedOf
  <2>4. \A i \in 0 .. (Len(s) - 1) : m[Place(h, i, N)] = s[i + 1]
    <3> SUFFICES ASSUME NEW i \in 0 .. (Len(s) - 1) PROVE m[Place(h, i, N)] = s[i + 1]
      OBVIOUS
    <3>1. Place(h, i, N) = h + i /\ h + i \in 0 .. (N - 1) /\ h + i < L + t
      BY <1>0, <1>4, SMTT(30), Z3T(30) DEF UsedOf, Place
    <3>2. CASE h + i < L
      <4>1. Place(h, i, L) = h + i
        BY <3>2 DEF Place
      <4> QED BY <1>1, <1>2, <2>1, <3>1, <3>2, <4>1, <1>0, SMTT(30), Z3T(30)
    <3>3. CASE h + i >= L
      <4>1. Place(h, i, L) = h + i - L /\ h + i - L \in 0 .. (N - 1) /\ h + i - L < L
            /\ 0 + (h + i - L) = h + i - L
        BY <1>0, <1>4, <3>1, <3>3, SMTT(30), Z3T(30) DEF Place
      <4> QED BY <1>0, <1>1, <1>2, <2>1, <3>1, <3>3, <4>1, SMTT(30), Z3T(30)
    <3> QED BY <1>0, <3>2, <3>3, SMTT(30), Z3T(30)
  <2> QED BY <1>0, <2>3, <2>4, ZenonT(30) DEF Ring, m, u
<1>5. ASSUME t < h, t > g
      PROVE  Ring(memmove(memmove(r, L, 0, g), 0, g, t - g), h, t - g, N, s)
  <2> DEFINE k == memmove(r, L, 0, g)
             m == memmove(k, 0, g, t - g)
  <2>1. /\ k \in Block(N)
        /\ \A x \in 0 .. (N - 1) : k[x] = IF L <= x /\ x < L + g THEN r[0 + (x - L)] ELSE r[x]
    <3>1. 0 \in Nat /\ L + g <= N /\ 0 + g <= N
      BY <1>0, <1>5, SMTT(30), Z3T(30)
    <3>2. Copied(k, N, r, L, 0, g)
      BY <1>0, <1>2, <3>1, MoveAt, ZenonT(30)
    <3> QED BY <3>2 DEF Copied
  <2> HIDE DEF k
  <2>2. /\ m \in Block(N)
        /\ \A x \in 0 .. (N - 1) :
             m[x] = IF 0 <= x /\ x < 0 + (t - g) THEN k[g + (x - 0)] ELSE k[x]
    <3>1. 0 \in Nat /\ t - g \in Nat /\ 0 + (t - g) <= N /\ g + (t - g) <= N
      BY <1>0, <1>5, SMTT(30), Z3T(30)
    <3>2. Copied(m, N, k, 0, g, t - g)
      BY <1>0, <2>1, <3>1, MoveAt, ZenonT(30)
    <3> QED BY <3>2 DEF Copied
  <2> HIDE DEF m
  <2>3. RingType(m, h, t - g, N) /\ UsedOf(h, t - g, N) = Len(s)
    BY <1>0, <1>5, <2>2, SMTT(30), Z3T(30) DEF RingType, UsedOf
  <2>4. \A i \in 0 .. (Len(s) - 1) : m[Place(h, i, N)] = s[i + 1]
    <3> SUFFICES ASSUME NEW i \in 0 .. (Len(s) - 1) PROVE m[Place(h, i, N)] = s[i + 1]
      OBVIOUS
    <3>0. h + i \in Nat /\ h + i < L + t
      BY <1>0, <1>5, SMTT(30), Z3T(30) DEF UsedOf
    <3>2. CASE h + i < L
      <4>1. /\ Place(h, i, L) = h + i /\ Place(h, i, N) = h + i
            /\ h + i \in 0 .. (N - 1) /\ ~(h + i < t - g) /\ ~(L <= h + i)
        BY <1>0, <1>5, <3>0, <3>2, SMTT(30), Z3T(30) DEF Place
      <4>2. m[h + i] = k[h + i] /\ k[h + i] = r[h + i] /\ r[h + i] = mem[h + i]
        BY <1>0, <1>2, <1>5, <2>1, <2>2, <3>2, <4>1, SMTT(30), Z3T(30)
      <4> QED BY <1>1, <4>1, <4>2
    <3>3. CASE h + i >= L /\ h + i < N
      <4> DEFINE x == h + i
                 y == h + i - L
      <4>1. /\ Place(h, i, L) = y /\ Place(h, i, N) = x
            /\ x \in 0 .. (N - 1) /\ ~(x < 0 + (t - g)) /\ L <= x /\ x < L + g
            /\ y \in 0 .. (N - 1) /\ y < L /\ 0 + (x - L) = y
        BY <1>0, <1>5, <3>0, <3>3, SMTT(30), Z3T(30) DEF Place
      <4> HIDE DEF x, y
      <4>2. m[x] = k[x]
        BY <2>2, <4>1
      <4>3. k[x] = r[y] /\ r[y] = mem[y]
        BY <1>2, <2>1, <4>1, ZenonT(30)
      <4> QED BY <1>1, <4>1, <4>2, <4>3, ZenonT(30)
    <3>4. CASE h + i >= N
      <4> DEFINE x == h + i - N
                 y == h + i - L
      <4>1. /\ Place(h, i, L) = y /\ Place(h, i, N) = x
            /\ x \in 0 .. (N - 1) /\ 0 <= x /\ x < 0 + (t - g) /\ g + (x - 0) = y
            /\ y \in 0 .. (N - 1) /\ y < L
        BY <1>0, <1>5, <3>0, <3>4, SMTT(30), Z3T(30) DEF Place
      <4> HIDE DEF x, y
      <4>2. m[x] = k[y]
        BY <2>2, <4>1
      <4>3. k[y] = r[y] /\ r[y] = mem[y]
        BY <1>0, <1>2, <2>1, <4>1, SMTT(30), Z3T(30)
      <4> QED BY <1>1, <4>1, <4>2, <4>3
    <3> QED BY <1>0, <3>2, <3>3, <3>4, SMTT(30), Z3T(30)
  <2> QED BY <1>0, <2>3, <2>4, ZenonT(30) DEF Ring, m, k
<1> QED BY <1>3, <1>4, <1>5, ZenonT(30) DEF r, g

\* The two memcpy of _bqueue_insert: up to the end of the block, and on from its start.
LEMMA InsertRing ==
  ASSUME NEW mem, NEW h, NEW t, NEW L, NEW s, Ring(mem, h, t, L, s),
         NEW d \in Seq(Cell), Len(s) + Len(d) < L
  PROVE  LET c == IF t + Len(d) <= L THEN Len(d) ELSE L - t
         IN  Ring(store(store(mem, t, d, 0, c), 0, d, c, Len(d) - c), h, (t + Len(d)) % L, L, s \o d)
<1> DEFINE n == Len(d)
           c == IF t + n <= L THEN n ELSE L - t
           e == n - c
           k == store(mem, t, d, 0, c)
           m == store(k, 0, d, c, e)
           u == (t + n) % L
           w == Len(s)
           v == s \o d
<1>0. /\ L \in Nat \ {0} /\ h \in Nat /\ t \in Nat /\ mem \in Block(L) /\ h < L /\ t < L
      /\ s \in Seq(Cell) /\ w \in Nat /\ w = UsedOf(h, t, L) /\ n \in Nat /\ w + n < L
  BY SMTT(30), Z3T(30) DEF Ring, RingType
<1>1. \A i \in 0 .. (w - 1) : mem[Place(h, i, L)] = s[i + 1]
  BY DEF Ring
<1>2. \A i \in 1 .. (w + n) : v[i] = IF i <= w THEN s[i] ELSE d[i - w]
  BY <1>0, SMTT(30), Z3T(30)
<1>3. v \in Seq(Cell) /\ Len(v) = w + n
  BY <1>0, SMTT(30), Z3T(30)
<1> HIDE DEF n, w, v
<1>4. /\ c \in Nat /\ e \in Nat /\ c <= n /\ t + c <= L /\ 0 + c <= n /\ 0 + e <= L /\ c + e <= n
      /\ 0 \in Nat /\ c = (IF t + n <= L THEN n ELSE L - t) /\ e = n - c
  BY <1>0, SMTT(30), Z3T(30)
<1> HIDE DEF c, e
<1>5. Stored(k, L, mem, t, d, 0, c)
  BY <1>0, <1>4, StoreAt, ZenonT(30) DEF n
<1> HIDE DEF k
<1>6. Stored(m, L, k, 0, d, c, e)
  <2>1. k \in Block(L)
    BY <1>5 DEF Stored
  <2> QED BY <1>0, <1>4, <2>1, StoreAt, ZenonT(30) DEF n
<1> HIDE DEF m
<1>7. u = IF t + n < L THEN t + n ELSE t + n - L
  <2> DEFINE z == t + n
  <2>1. z \in 0 .. (2 * L - 1)
    BY <1>0, SMTT(30), Z3T(30)
  <2> HIDE DEF z
  <2>2. z % L = Rem(z, L)
    BY <1>0, <2>1, Wrap, ZenonT(30)
  <2> QED BY <1>0, <2>2, SMTT(30), Z3T(30) DEF z, Rem
<1> HIDE DEF u
<1>8. RingType(m, h, u, L) /\ UsedOf(h, u, L) = w + n
  <2>1. m \in Block(L)
    BY <1>6 DEF Stored
  <2>2. u \in Nat /\ u < L
    BY <1>0, <1>7, SMTT(30), Z3T(30)
  <2>3. UsedOf(h, u, L) = w + n
    BY <1>0, <1>7, SMTT(30), Z3T(30) DEF UsedOf
  <2> QED BY <1>0, <2>1, <2>2, <2>3 DEF RingType
<1>9. ASSUME NEW i \in 0 .. (w + n - 1) PROVE m[Place(h, i, L)] = v[i + 1]
  <2> DEFINE x == Place(h, i, L)
  <2>0. x \in 0 .. (L - 1) /\ x = (IF h + i < L THEN h + i ELSE h + i - L)
    BY <1>0, SMTT(30), Z3T(30) DEF Place
  <2>1. /\ m[x] = IF 0 <= x /\ x < 0 + e THEN d[c + (x - 0) + 1] ELSE k[x]
        /\ k[x] = IF t <= x /\ x < t + c THEN d[0 + (x - t) + 1] ELSE mem[x]
    BY <1>5, <1>6, <2>0 DEF Stored
  <2>2. i + 1 \in 1 .. (w + n)
    BY <1>0, SMTT(30), Z3T(30)
  <2>3. CASE i < w
    <3>1. ~(x < e) /\ ~(t <= x /\ x < t + c)
      BY <1>0, <1>4, <2>0, <2>3, SMTT(30), Z3T(30) DEF UsedOf
    <3>2. m[x] = mem[x]
      BY <1>0, <1>4, <2>0, <2>1, <3>1, SMTT(30), Z3T(30)
    <3>3. mem[x] = s[i + 1]
      BY <1>0, <1>1, <2>3, SMTT(30), Z3T(30)
    <3> QED BY <1>0, <1>2, <2>2, <2>3, <3>2, <3>3, SMTT(30), Z3T(30)
  <2>4. CASE i >= w
    <3>0. v[i + 1] = d[(i + 1) - w]
      <4>1. ~(i + 1 <= w)
        BY <1>0, <2>4, SMTT(30), Z3T(30)
      <4> DEFINE y == i + 1
      <4>2. y \in 1 .. (w + n) /\ ~(y <= w)
        BY <2>2, <4>1
      <4> HIDE DEF y
      <4>3. v[y] = d[y - w]
        BY <1>2, <4>2, ZenonT(30)
      <4> QED BY <4>3 DEF y
    <3>1. CASE t + (i - w) < L
      <4>1. x = t + (i - w) /\ ~(x < 0 + e) /\ t <= x /\ x < t + c /\ 0 + (x - t) + 1 = (i + 1) - w
        BY <1>0, <1>4, <2>0, <2>4, <3>1, SMTT(30), Z3T(30) DEF UsedOf
      <4> QED BY <2>1, <3>0, <4>1, ZenonT(30)
    <3>2. CASE t + (i - w) >= L
      <4>1. 0 <= x /\ x < 0 + e /\ c + (x - 0) + 1 = (i + 1) - w
        BY <1>0, <1>4, <2>0, <2>4, <3>2, SMTT(30), Z3T(30) DEF UsedOf
      <4> QED BY <2>1, <3>0, <4>1
    <3>3. t + (i - w) < L \/ t + (i - w) >= L
      BY <1>0, <2>4, SMTT(30), Z3T(30)
    <3> QED BY <3>1, <3>2, <3>3, ZenonT(30)
  <2> QED BY <1>0, <2>3, <2>4, SMTT(30), Z3T(30)
<1>10. Ring(m, h, u, L, v)
  <2>1. UsedOf(h, u, L) = Len(v) /\ \A i \in 0 .. (Len(v) - 1) : m[Place(h, i, L)] = v[i + 1]
    <3>1. \A i \in 0 .. (w + n - 1) : m[Place(h, i, L)] = v[i + 1]
      BY <1>9
    <3>2. Len(v) = w + n
      BY <1>3, ZenonT(30)
    <3>3. UsedOf(h, u, L) = w + n
      BY <1>8, ZenonT(30)
    <3>4. \A i \in 0 .. (Len(v) - 1) : i \in 0 .. (w + n - 1)
      <4>1. w \in Nat /\ n \in Nat
        BY <1>0, ZenonT(30)
      <4> QED BY <3>2, <4>1, SMTT(30), Z3T(30)
    <3>5. \A i \in 0 .. (Len(v) - 1) : m[Place(h, i, L)] = v[i + 1]
      BY <3>1, <3>4, ZenonT(30)
    <3>6. UsedOf(h, u, L) = Len(v)
      BY <3>2, <3>3, ZenonT(30)
    <3> QED BY <3>5, <3>6, ZenonT(30)
  <2> QED BY <1>3, <1>8, <2>1, ZenonT(30) DEF Ring
<1> QED BY <1>10 DEF m, k, u, c, e, n, v

\* realloc to a part of the block after bytes were copied.
LEMMA ReallocCopied ==
  ASSUME NEW L \in Nat, NEW N \in Nat, N <= L, NEW m, NEW mem, NEW dst, NEW src, NEW n,
         Copied(m, L, mem, dst, src, n)
  PROVE  Copied(os_realloc(m, N), N, mem, dst, src, n)
<1>1. m \in Block(L)
  BY DEF Copied
<1>2. os_realloc(m, N) \in Block(N) /\ \A x \in 0 .. (N - 1) : x < L => os_realloc(m, N)[x] = m[x]
  BY <1>1, ReallocAt
<1>3. \A x \in 0 .. (N - 1) : x \in 0 .. (L - 1) /\ x < L
  BY SMTT(30), Z3T(30)
<1> QED BY <1>2, <1>3 DEF Copied

\* The moves of _bqueue_shrink to half of the memory or less, of a ring that is not empty
\* and whose bytes fit, and the realloc after them.
LEMMA ShrinkRing ==
  ASSUME NEW mem, NEW h, NEW t, NEW L, NEW s, Ring(mem, h, t, L, s), NEW N \in Nat, N <= L,
         Len(s) > 0, Len(s) < N
  PROVE  LET c == t - N
             g == L - N
         IN  /\ h < t /\ N <= h => Ring(os_realloc(memmove(mem, 0, h, t - h), N), 0, t - h, N, s)
             /\ h < t /\ h < N /\ N <= t =>
                  Ring(os_realloc(memmove(mem, 0, t - c, c), N), h, c, N, s)
             /\ h < t /\ t < N => Ring(os_realloc(mem, N), h, t, N, s)
             /\ h > t => Ring(os_realloc(memmove(mem, h - g, h, L - h), N), h - g, t, N, s)
<1> DEFINE w == Len(s)
<1>0. /\ L \in Nat \ {0} /\ h \in Nat /\ t \in Nat /\ mem \in Block(L) /\ h < L /\ t < L
      /\ s \in Seq(Cell) /\ w \in Nat /\ w = UsedOf(h, t, L) /\ w > 0 /\ w < N
  BY SMTT(30), Z3T(30) DEF Ring, RingType
<1>1. \A i \in 0 .. (w - 1) : mem[Place(h, i, L)] = s[i + 1]
  BY DEF Ring
<1> HIDE DEF w
<1>3. ASSUME h < t, N <= h PROVE Ring(os_realloc(memmove(mem, 0, h, t - h), N), 0, t - h, N, s)
  <2> DEFINE k == t - h
             m == os_realloc(memmove(mem, 0, h, k), N)
  <2>1. k \in Nat /\ k = t - h /\ 0 \in Nat /\ 0 + k <= L /\ h + k <= L /\ k = w
    BY <1>0, <1>3, SMTT(30), Z3T(30) DEF UsedOf
  <2> HIDE DEF k
  <2>2. Copied(memmove(mem, 0, h, k), L, mem, 0, h, k)
    BY <1>0, <2>1, MoveAt, ZenonT(30)
  <2>3. /\ m \in Block(N)
        /\ \A x \in 0 .. (N - 1) : m[x] = IF 0 <= x /\ x < 0 + k THEN mem[h + (x - 0)] ELSE mem[x]
    <3>1. Copied(m, N, mem, 0, h, k)
      BY <1>0, <2>2, ReallocCopied
    <3> QED BY <3>1 DEF Copied
  <2> HIDE DEF m
  <2>4. RingType(m, 0, k, N) /\ UsedOf(0, k, N) = w
    BY <1>0, <2>1, <2>3, SMTT(30), Z3T(30) DEF RingType, UsedOf
  <2>5. ASSUME NEW i \in 0 .. (w - 1) PROVE m[Place(0, i, N)] = s[i + 1]
    <3>1. /\ Place(0, i, N) = i /\ i \in 0 .. (N - 1) /\ 0 <= i /\ i < 0 + k
          /\ Place(h, i, L) = h + (i - 0)
      BY <1>0, <1>3, <2>1, SMTT(30), Z3T(30) DEF Place
    <3> QED BY <1>1, <2>3, <3>1
  <2> QED BY <1>0, <2>4, <2>5 DEF Ring, m, k, w
<1>4. ASSUME h < t, h < N, N <= t
      PROVE  Ring(os_realloc(memmove(mem, 0, t - (t - N), t - N), N), h, t - N, N, s)
  <2> DEFINE c == t - N
             f == t - c
             m == os_realloc(memmove(mem, 0, f, c), N)
  <2>1. c \in Nat /\ c = t - N /\ f \in Nat /\ f = N /\ 0 \in Nat /\ 0 + c <= L /\ f + c <= L
    BY <1>0, <1>4, SMTT(30), Z3T(30)
  <2> HIDE DEF c, f
  <2>2. Copied(memmove(mem, 0, f, c), L, mem, 0, f, c)
    BY <1>0, <2>1, MoveAt, ZenonT(30)
  <2>3. /\ m \in Block(N)
        /\ \A x \in 0 .. (N - 1) : m[x] = IF 0 <= x /\ x < 0 + c THEN mem[f + (x - 0)] ELSE mem[x]
    <3>1. Copied(m, N, mem, 0, f, c)
      BY <1>0, <2>2, ReallocCopied, ZenonT(30)
    <3> QED BY <3>1 DEF Copied
  <2> HIDE DEF m
  <2>4. RingType(m, h, c, N) /\ UsedOf(h, c, N) = w
    BY <1>0, <1>4, <2>1, <2>3, SMTT(30), Z3T(30) DEF RingType, UsedOf
  <2>5. ASSUME NEW i \in 0 .. (w - 1) PROVE m[Place(h, i, N)] = s[i + 1]
    <3> DEFINE x == Place(h, i, N)
               y == Place(h, i, L)
    <3>1. /\ x \in 0 .. (N - 1) /\ y = h + i
          /\ IF h + i < N THEN x = h + i /\ ~(x < 0 + c) ELSE 0 <= x /\ x < 0 + c /\ f + (x - 0) = h + i
      BY <1>0, <1>4, <2>1, SMTT(30), Z3T(30) DEF Place, UsedOf
    <3>2. mem[y] = s[i + 1]
      BY <1>1
    <3> HIDE DEF x, y
    <3>3. m[x] = mem[y]
      BY <2>3, <3>1
    <3> QED BY <3>2, <3>3, ZenonT(30) DEF x
  <2> QED BY <1>0, <2>4, <2>5 DEF Ring, m, c, f, w
<1>5. ASSUME h < t, t < N PROVE Ring(os_realloc(mem, N), h, t, N, s)
  <2> DEFINE m == os_realloc(mem, N)
  <2>1. m \in Block(N) /\ \A x \in 0 .. (N - 1) : x < L => m[x] = mem[x]
    BY <1>0, ReallocAt, ZenonT(30)
  <2> HIDE DEF m
  <2>2. RingType(m, h, t, N) /\ UsedOf(h, t, N) = w
    BY <1>0, <1>5, <2>1, SMTT(30), Z3T(30) DEF RingType, UsedOf
  <2>3. ASSUME NEW i \in 0 .. (w - 1) PROVE m[Place(h, i, N)] = s[i + 1]
    <3>1. /\ Place(h, i, N) = h + i /\ h + i \in 0 .. (N - 1) /\ h + i < L
          /\ Place(h, i, L) = h + i
      BY <1>0, <1>5, SMTT(30), Z3T(30) DEF Place, UsedOf
    <3> QED BY <1>1, <2>1, <3>1
  <2> QED BY <1>0, <2>2, <2>3 DEF Ring, m, w
<1>6. ASSUME h > t PROVE Ring(os_realloc(memmove(mem, h - (L - N), h, L - h), N), h - (L - N), t, N, s)
  <2> DEFINE b == h - (L - N)
             k == L - h
             m == os_realloc(memmove(mem, b, h, k), N)
  <2>1. b \in Nat /\ b = h - (L - N) /\ k \in Nat /\ k = L - h /\ b + k <= L /\ h + k <= L /\ b > t
    BY <1>0, <1>6, SMTT(30), Z3T(30) DEF UsedOf
  <2> HIDE DEF b, k
  <2>2. Copied(memmove(mem, b, h, k), L, mem, b, h, k)
    BY <1>0, <2>1, MoveAt, ZenonT(30)
  <2>3. /\ m \in Block(N)
        /\ \A x \in 0 .. (N - 1) : m[x] = IF b <= x /\ x < b + k THEN mem[h + (x - b)] ELSE mem[x]
    <3>1. Copied(m, N, mem, b, h, k)
      BY <1>0, <2>2, ReallocCopied
    <3> QED BY <3>1 DEF Copied
  <2> HIDE DEF m
  <2>4. RingType(m, b, t, N) /\ UsedOf(b, t, N) = w
    BY <1>0, <1>6, <2>1, <2>3, SMTT(30), Z3T(30) DEF RingType, UsedOf
  <2>5. ASSUME NEW i \in 0 .. (w - 1) PROVE m[Place(b, i, N)] = s[i + 1]
    <3> DEFINE x == Place(b, i, N)
               y == Place(h, i, L)
    <3>1. /\ x \in 0 .. (N - 1)
          /\ IF h + i < L THEN b <= x /\ x < b + k /\ h + (x - b) = y ELSE x = y /\ ~(b <= x)
      BY <1>0, <1>6, <2>1, SMTT(30), Z3T(30) DEF Place, UsedOf
    <3>2. mem[y] = s[i + 1]
      BY <1>1
    <3> HIDE DEF x, y
    <3>3. m[x] = mem[y]
      BY <2>3, <3>1, ZenonT(30)
    <3> QED BY <3>2, <3>3 DEF x
  <2> QED BY <1>0, <2>4, <2>5 DEF Ring, m, b, k, w
<1> QED BY <1>3, <1>4, <1>5, <1>6, ZenonT(30)

(***************************************************************************)
(* The operations of bqueue_op.c on a queue that holds a sequence          *)
(***************************************************************************)

Rec(mem, h, t, L) == [memory |-> mem, head |-> h, tail |-> t, length |-> L]

\* The queue holds the bytes s.
Holds(q, s) == q \in Queue /\ Ring(q.memory, q.head, q.tail, q.length, s)

\* A queue is made of its fields.
LEMMA QueueRec ==
  ASSUME NEW q \in Queue
  PROVE  q = Rec(q.memory, q.head, q.tail, q.length)
BY DEF Queue, Rec

\* The fields of such a queue.
LEMMA RecFields ==
  ASSUME NEW mem, NEW h, NEW t, NEW L
  PROVE  /\ Rec(mem, h, t, L).memory = mem /\ Rec(mem, h, t, L).head = h
         /\ Rec(mem, h, t, L).tail = t /\ Rec(mem, h, t, L).length = L
BY DEF Rec

\* The assignments to one field.
SetM(q, m) == [q EXCEPT !.memory = m]
SetH(q, x) == [q EXCEPT !.head = x]
SetT(q, x) == [q EXCEPT !.tail = x]
SetL(q, x) == [q EXCEPT !.length = x]

\* What an assignment makes of it.
LEMMA SetFields ==
  ASSUME NEW mem, NEW h, NEW t, NEW L, NEW x
  PROVE  /\ SetM(Rec(mem, h, t, L), x) = Rec(x, h, t, L)
         /\ SetH(Rec(mem, h, t, L), x) = Rec(mem, x, t, L)
         /\ SetT(Rec(mem, h, t, L), x) = Rec(mem, h, x, L)
         /\ SetL(Rec(mem, h, t, L), x) = Rec(mem, h, t, x)
BY SMTT(30), Z3T(30) DEF Rec, SetM, SetH, SetT, SetL

\* A ring in at most send_buffer_size bytes is a queue that holds its bytes.
LEMMA RecHolds ==
  ASSUME NEW mem, NEW h, NEW t, NEW L, NEW s, Ring(mem, h, t, L, s), L <= send_buffer_size
  PROVE  Holds(Rec(mem, h, t, L), s)
<1>1. /\ L \in 0 .. send_buffer_size /\ h \in 0 .. send_buffer_size /\ t \in 0 .. send_buffer_size
      /\ mem \in Block(L)
  BY NetBufferAssumption, SMTT(30), Z3T(30) DEF Ring, RingType
<1>2. mem \in UNION {[0 .. (n - 1) -> Cell \cup {Junk}] : n \in 0 .. send_buffer_size}
  BY <1>1, ZenonT(30) DEF Block, Byte
<1>3. Rec(mem, h, t, L) \in Queue
  BY <1>1, <1>2 DEF Rec, Queue
<1> QED BY <1>3, RecFields, SMTT(30), Z3T(30) DEF Holds

\* What _bqueue_used and _bqueue_empty return.
LEMMA HoldsUsed ==
  ASSUME NEW q, NEW s, Holds(q, s)
  PROVE  /\ _bqueue_used(q) = Len(s) /\ Len(s) \in Nat
         /\ _bqueue_empty(q) <=> Len(s) = 0
         /\ q.length \in 0 .. send_buffer_size /\ (Len(s) > 0 => q.length > Len(s))
         /\ q.head \in Nat /\ q.tail \in Nat /\ s \in Seq(Cell) /\ q.memory \in Block(q.length)
         /\ q.length > 0 => q.head < q.length /\ q.tail < q.length
<1> DEFINE L == q.length
           x == q.tail + q.length - q.head
<1>0. /\ L \in Nat /\ q.head \in Nat /\ q.tail \in Nat /\ L \in 0 .. send_buffer_size
      /\ L = 0 => q.head = 0 /\ q.tail = 0
      /\ L > 0 => q.head < L /\ q.tail < L
      /\ s \in Seq(Cell) /\ Len(s) \in Nat /\ Len(s) = UsedOf(q.head, q.tail, L)
      /\ q.memory \in Block(L)
  BY SMTT(30), Z3T(30) DEF Holds, Ring, RingType, Queue
<1>1. CASE L = 0
  BY <1>0, <1>1, SMTT(30), Z3T(30) DEF _bqueue_used, _bqueue_empty, UsedOf
<1>2. CASE L > 0
  <2>1. x \in 0 .. (2 * L - 1) /\ L \in Nat \ {0} /\ (x < L <=> ~(q.tail >= q.head))
        /\ x - L = q.tail - q.head
    BY <1>0, <1>2, SMTT(30), Z3T(30)
  <2>2. _bqueue_used(q) = x % L
    BY <1>2 DEF _bqueue_used
  <2> HIDE DEF x, L
  <2>3. _bqueue_used(q) = Rem(x, L)
    BY <2>1, <2>2, Wrap, ZenonT(30)
  <2>4. _bqueue_used(q) = Len(s)
    BY <1>0, <2>1, <2>3 DEF x, Rem, UsedOf, L
  <2>5. _bqueue_empty(q) <=> Len(s) = 0
    BY <1>0, <1>2, SMTT(30), Z3T(30) DEF _bqueue_empty, UsedOf
  <2>6. L > Len(s)
    BY <1>0, <1>2, SMTT(30), Z3T(30) DEF UsedOf
  <2> QED BY <1>0, <2>4, <2>5, <2>6 DEF L
<1> QED BY <1>0, <1>1, <1>2, SMTT(30), Z3T(30)

\* The bytes outside of the data may be forgotten.
LEMMA ForgetHolds ==
  ASSUME NEW q, NEW s, Holds(q, s), q.length > 0
  PROVE  Holds(Forget(q), s)
<1> DEFINE L == q.length
           h == q.head
           t == q.tail
           w == _bqueue_used(q)
           m == [i \in DOMAIN q.memory |-> IF (i + L - h) % L < w THEN q.memory[i] ELSE Junk]
<1>0. /\ L \in Nat \ {0} /\ h \in Nat /\ t \in Nat /\ h < L /\ t < L /\ q.memory \in Block(L)
      /\ w = Len(s) /\ w \in Nat /\ s \in Seq(Cell) /\ w < L /\ L <= send_buffer_size
  BY HoldsUsed, NetBufferAssumption, SMTT(30), Z3T(30)
<1>1. Forget(q) = Rec(m, h, t, L)
  <2>1. q = Rec(q.memory, h, t, L)
    BY QueueRec DEF Holds
  <2>2. Forget(q) = SetM(q, m)
    BY DEF Forget, SetM
  <2> HIDE DEF m
  <2> QED BY <2>1, <2>2, SetFields, SMTT(30), Z3T(30)
<1>2. Ring(q.memory, h, t, L, s)
  BY DEF Holds
<1>3. DOMAIN q.memory = 0 .. (L - 1) /\ \A x \in 0 .. (L - 1) : q.memory[x] \in Byte
  BY <1>0 DEF Block
<1>4. m \in Block(L)
  BY <1>3 DEF Block, Byte
<1>5. \A x \in 0 .. (L - 1) : (x + L - h) % L < w => m[x] = q.memory[x]
  BY <1>3
<1> HIDE DEF m, w, L, h, t
<1>6. ASSUME NEW i \in 0 .. (Len(s) - 1) PROVE m[Place(h, i, L)] = s[i + 1]
  <2> DEFINE x == Place(h, i, L)
             z == x + L - h
  <2>1. /\ x \in 0 .. (L - 1) /\ z \in 0 .. (2 * L - 1)
        /\ IF z < L THEN z = i ELSE z - L = i
    BY <1>0, SMTT(30), Z3T(30) DEF Place
  <2> HIDE DEF z
  <2>2. z % L = Rem(z, L)
    BY <1>0, <2>1, Wrap, ZenonT(30)
  <2>3. z % L < w
    BY <1>0, <2>1, <2>2, SMTT(30), Z3T(30) DEF Rem
  <2>4. m[x] = q.memory[x]
    BY <1>5, <2>1, <2>3, ZenonT(30) DEF z
  <2>5. q.memory[x] = s[i + 1]
    BY <1>2, ZenonT(30) DEF Ring
  <2> QED BY <2>4, <2>5
<1>7. Ring(m, h, t, L, s)
  BY <1>2, <1>4, <1>6, ZenonT(30) DEF Ring, RingType
<1> QED BY <1>0, <1>1, <1>7, RecHolds, ZenonT(30)

\* The operations on a queue given by its fields.
LEMMA ExpandRec ==
  ASSUME NEW mem, NEW h \in Nat, NEW t \in Nat, NEW L \in Nat, NEW N \in Nat, N > L
  PROVE  LET e == _bqueue_expand(Rec(mem, h, t, L), N)
             r == os_realloc(mem, N)
         IN  /\ t >= h => e = Rec(r, h, t, N)
             /\ t < h /\ t <= N - L => e = Rec(memmove(r, L, 0, t), h, (L + t) % N, N)
             /\ t < h /\ t > N - L =>
                  e = Rec(memmove(memmove(r, L, 0, N - L), 0, N - L, t - (N - L)), h, t - (N - L), N)
<1> DEFINE q == Rec(mem, h, t, L)
           e == _bqueue_expand(q, N)
           r == os_realloc(mem, N)
           g == N - L
           m2 == memmove(r, L, 0, t)
           m3 == memmove(memmove(r, L, 0, g), 0, g, t - g)
           t2 == (L + t) % N
           t3 == t - g
<1>1. /\ t >= h => e = SetL(SetM(q, r), N)
      /\ t < h /\ t <= g => e = SetL(SetT(SetM(q, m2), t2), N)
      /\ t < h /\ t > g => e = SetL(SetT(SetM(q, m3), t3), N)
  BY SMTT(30), Z3T(30) DEF _bqueue_expand, Rec, SetM, SetT, SetL
<1> HIDE DEF r, m2, m3, t2, t3
<1>2. /\ SetL(SetM(q, r), N) = Rec(r, h, t, N)
      /\ SetL(SetT(SetM(q, m2), t2), N) = Rec(m2, h, t2, N)
      /\ SetL(SetT(SetM(q, m3), t3), N) = Rec(m3, h, t3, N)
  BY SetFields, SMTT(30), Z3T(30)
<1>3. /\ t >= h => e = Rec(r, h, t, N)
      /\ t < h /\ t <= g => e = Rec(m2, h, t2, N)
      /\ t < h /\ t > g => e = Rec(m3, h, t3, N)
  BY <1>1, <1>2, ZenonT(30)
<1> QED BY <1>3 DEF r, m2, m3, t2, t3

\* _bqueue_insert, field by field.
LEMMA InsertRec ==
  ASSUME NEW mem, NEW h \in Nat, NEW t \in Nat, NEW L \in Nat, NEW d
  PROVE  LET c == IF t + Len(d) <= L THEN Len(d) ELSE L - t
         IN  _bqueue_insert(Rec(mem, h, t, L), d) =
               Rec(store(store(mem, t, d, 0, c), 0, d, c, Len(d) - c), h, (t + Len(d)) % L, L)
<1> DEFINE q == Rec(mem, h, t, L)
           c == IF t + Len(d) <= L THEN Len(d) ELSE L - t
           m == store(store(mem, t, d, 0, c), 0, d, c, Len(d) - c)
           u == (t + Len(d)) % L
<1>1. _bqueue_insert(q, d) = SetT(SetM(q, m), u)
  BY DEF _bqueue_insert, Rec, SetM, SetT
<1> HIDE DEF m, u
<1>2. SetT(SetM(q, m), u) = Rec(m, h, u, L)
  BY SetFields, SMTT(30), Z3T(30)
<1> QED BY <1>1, <1>2 DEF m, u

\* _bqueue_shrink, field by field, in each of its cases.
LEMMA ShrinkRec ==
  ASSUME NEW mem, NEW h \in Nat, NEW t \in Nat, NEW L \in Nat, NEW N \in Nat
  PROVE  LET c == t - N
             g == L - N
             e == _bqueue_shrink(Rec(mem, h, t, L), N)
         IN  /\ h < t /\ N <= h => e = Rec(os_realloc(memmove(mem, 0, h, t - h), N), 0, t - h, N)
             /\ h < t /\ h < N /\ N <= t =>
                  e = Rec(os_realloc(memmove(mem, 0, t - c, c), N), h, c, N)
             /\ h < t /\ t < N => e = Rec(os_realloc(mem, N), h, t, N)
             /\ h > t => e = Rec(os_realloc(memmove(mem, h - g, h, L - h), N), h - g, t, N)
<1> DEFINE q == Rec(mem, h, t, L)
           e == _bqueue_shrink(q, N)
           c == t - N
           g == L - N
           m1 == memmove(mem, 0, h, t - h)
           m2 == memmove(mem, 0, t - c, c)
           m4 == memmove(mem, h - g, h, L - h)
           t1 == t - h
           h4 == h - g
<1>1. /\ h < t /\ N <= h => Moved(q, N) = SetT(SetH(SetM(q, m1), 0), t1)
      /\ h < t /\ h < N /\ N <= t => Moved(q, N) = SetT(SetM(q, m2), c)
      /\ h < t /\ t < N => Moved(q, N) = q
      /\ h > t => Moved(q, N) = SetH(SetM(q, m4), h4)
  BY SMTT(30), Z3T(30) DEF Moved, Rec, SetM, SetH, SetT
<1> HIDE DEF m1, m2, m4, t1, h4, c
<1>2. /\ SetT(SetH(SetM(q, m1), 0), t1) = Rec(m1, 0, t1, L)
      /\ SetT(SetM(q, m2), c) = Rec(m2, h, c, L)
      /\ SetH(SetM(q, m4), h4) = Rec(m4, h4, t, L)
  BY SetFields, SMTT(30), Z3T(30)
<1>3. ASSUME NEW m, NEW x, NEW y, Moved(q, N) = Rec(m, x, y, L)
      PROVE  e = Rec(os_realloc(m, N), x, y, N)
  <2> DEFINE k == os_realloc(m, N)
  <2>1. e = SetL(SetM(Rec(m, x, y, L), k), N)
    <3> DEFINE v == Moved(q, N)
    <3>1. e = SetL(SetM(v, os_realloc(v.memory, N)), N)
      BY DEF _bqueue_shrink, SetM, SetL
    <3>2. v = Rec(m, x, y, L) /\ Rec(m, x, y, L).memory = m
      BY <1>3, RecFields, SMTT(30), Z3T(30)
    <3> HIDE DEF v
    <3> QED BY <3>1, <3>2
  <2> HIDE DEF k
  <2>2. SetL(SetM(Rec(m, x, y, L), k), N) = Rec(k, x, y, N)
    BY SetFields, SMTT(30), Z3T(30)
  <2> QED BY <2>1, <2>2 DEF k
<1> HIDE DEF e, q
<1>4. /\ h < t /\ N <= h => e = Rec(os_realloc(m1, N), 0, t1, N)
      /\ h < t /\ h < N /\ N <= t => e = Rec(os_realloc(m2, N), h, c, N)
      /\ h < t /\ t < N => e = Rec(os_realloc(mem, N), h, t, N)
      /\ h > t => e = Rec(os_realloc(m4, N), h4, t, N)
  BY <1>1, <1>2, <1>3, ZenonT(30) DEF q
<1> QED BY <1>4 DEF e, q, m1, m2, m4, t1, h4, c

\* _bqueue_expand keeps the bytes.
LEMMA ExpandHolds ==
  ASSUME NEW q, NEW s, Holds(q, s), NEW N \in Nat, N > q.length, N <= send_buffer_size
  PROVE  Holds(_bqueue_expand(q, N), s) /\ _bqueue_expand(q, N).length = N
<1> DEFINE mem == q.memory
           h == q.head
           t == q.tail
           L == q.length
           r == os_realloc(mem, N)
           g == N - L
           m2 == memmove(r, L, 0, t)
           m3 == memmove(memmove(r, L, 0, g), 0, g, t - g)
           t2 == (L + t) % N
<1>0. L \in Nat /\ h \in Nat /\ t \in Nat /\ N > L /\ g \in Nat
  BY HoldsUsed, SMTT(30), Z3T(30)
<1>1. q = Rec(mem, h, t, L) /\ Ring(mem, h, t, L, s)
  BY QueueRec, ZenonT(30) DEF Holds
<1>2. /\ t >= h => Ring(r, h, t, N, s)
      /\ t < h /\ t <= g => Ring(m2, h, t2, N, s)
      /\ t < h /\ t > g => Ring(m3, h, t - g, N, s)
  BY <1>0, <1>1, ExpandRing, ZenonT(30)
<1>3. CASE t >= h
  <2>1. _bqueue_expand(q, N) = Rec(r, h, t, N)
    BY <1>0, <1>1, <1>3, ExpandRec, SMTT(30), Z3T(30)
  <2> QED BY <1>2, <1>3, <2>1, RecHolds, RecFields, SMTT(30), Z3T(30)
<1>4. CASE t < h /\ t <= g
  <2>1. _bqueue_expand(q, N) = Rec(m2, h, t2, N)
    BY <1>0, <1>1, <1>4, ExpandRec, SMTT(30), Z3T(30)
  <2> QED BY <1>2, <1>4, <2>1, RecHolds, RecFields, SMTT(30), Z3T(30)
<1>5. CASE t < h /\ t > g
  <2>1. _bqueue_expand(q, N) = Rec(m3, h, t - g, N)
    BY <1>0, <1>1, <1>5, ExpandRec, SMTT(30), Z3T(30)
  <2> QED BY <1>2, <1>5, <2>1, RecHolds, RecFields, SMTT(30), Z3T(30)
<1> QED BY <1>0, <1>3, <1>4, <1>5, SMTT(30), Z3T(30)

\* _bqueue_insert appends the data.
LEMMA InsertHolds ==
  ASSUME NEW q, NEW s, Holds(q, s), NEW d \in Seq(Cell), Len(s) + Len(d) < q.length
  PROVE  Holds(_bqueue_insert(q, d), s \o d) /\ _bqueue_insert(q, d).length = q.length
<1> DEFINE mem == q.memory
           h == q.head
           t == q.tail
           L == q.length
           c == IF t + Len(d) <= L THEN Len(d) ELSE L - t
           m == store(store(mem, t, d, 0, c), 0, d, c, Len(d) - c)
           u == (t + Len(d)) % L
<1>0. L \in Nat /\ h \in Nat /\ t \in Nat /\ L <= send_buffer_size
  BY HoldsUsed, SMTT(30), Z3T(30)
<1>1. q = Rec(mem, h, t, L) /\ Ring(mem, h, t, L, s)
  BY QueueRec DEF Holds
<1>2. Ring(m, h, u, L, s \o d)
  BY <1>1, InsertRing, ZenonT(30)
<1>3. _bqueue_insert(q, d) = Rec(m, h, u, L)
  BY <1>0, <1>1, InsertRec, SMTT(30), Z3T(30)
<1> QED BY <1>0, <1>2, <1>3, RecHolds, RecFields, SMTT(30), Z3T(30)

\* _bqueue_shrink keeps the bytes.
LEMMA ShrinkHolds ==
  ASSUME NEW q, NEW s, Holds(q, s), NEW N \in Nat, N <= q.length, Len(s) > 0, Len(s) < N
  PROVE  Holds(_bqueue_shrink(q, N), s) /\ _bqueue_shrink(q, N).length = N
<1> DEFINE mem == q.memory
           h == q.head
           t == q.tail
           L == q.length
           c == t - N
           g == L - N
           m1 == memmove(mem, 0, h, t - h)
           m2 == memmove(mem, 0, t - c, c)
           m4 == memmove(mem, h - g, h, L - h)
<1>0. /\ L \in Nat /\ h \in Nat /\ t \in Nat /\ N <= L /\ L <= send_buffer_size
      /\ N <= send_buffer_size /\ h # t /\ send_buffer_size \in Nat
  BY HoldsUsed, NetBufferAssumption, SMTT(30), Z3T(30) DEF _bqueue_empty
<1>1. q = Rec(mem, h, t, L) /\ Ring(mem, h, t, L, s)
  BY QueueRec, ZenonT(30) DEF Holds
<1>2. /\ h < t /\ N <= h => Ring(os_realloc(m1, N), 0, t - h, N, s)
      /\ h < t /\ h < N /\ N <= t => Ring(os_realloc(m2, N), h, c, N, s)
      /\ h < t /\ t < N => Ring(os_realloc(mem, N), h, t, N, s)
      /\ h > t => Ring(os_realloc(m4, N), h - g, t, N, s)
  BY <1>0, <1>1, ShrinkRing, ZenonT(30)
<1>3. CASE h < t /\ N <= h
  <2>1. _bqueue_shrink(q, N) = Rec(os_realloc(m1, N), 0, t - h, N)
    BY <1>0, <1>1, <1>3, ShrinkRec, SMTT(30), Z3T(30)
  <2> QED BY <1>0, <1>2, <1>3, <2>1, RecHolds, RecFields, SMTT(30), Z3T(30)
<1>4. CASE h < t /\ h < N /\ N <= t
  <2>1. _bqueue_shrink(q, N) = Rec(os_realloc(m2, N), h, c, N)
    BY <1>0, <1>1, <1>4, ShrinkRec, SMTT(30), Z3T(30)
  <2> QED BY <1>0, <1>2, <1>4, <2>1, RecHolds, RecFields, SMTT(30), Z3T(30)
<1>5. CASE h < t /\ t < N
  <2>1. _bqueue_shrink(q, N) = Rec(os_realloc(mem, N), h, t, N)
    BY <1>0, <1>1, <1>5, ShrinkRec, SMTT(30), Z3T(30)
  <2> QED BY <1>0, <1>2, <1>5, <2>1, RecHolds, RecFields, SMTT(30), Z3T(30)
<1>6. CASE h > t
  <2>1. _bqueue_shrink(q, N) = Rec(os_realloc(m4, N), h - g, t, N)
    BY <1>0, <1>1, <1>6, ShrinkRec, SMTT(30), Z3T(30)
  <2> QED BY <1>0, <1>2, <1>6, <2>1, RecHolds, RecFields, SMTT(30), Z3T(30)
<1> QED BY <1>0, <1>3, <1>4, <1>5, <1>6, SMTT(30), Z3T(30)

\* The head moved over n bytes.
LEMMA DropRing ==
  ASSUME NEW mem, NEW h, NEW t, NEW L, NEW s, Ring(mem, h, t, L, s), NEW n \in 1 .. Len(s)
  PROVE  Ring(mem, (h + n) % L, t, L, SubSeq(s, n + 1, Len(s)))
<1> DEFINE w == Len(s)
           x == h + n
           p == SubSeq(s, n + 1, Len(s))
<1>0. /\ L \in Nat /\ h \in Nat /\ t \in Nat /\ mem \in Block(L) /\ w \in Nat /\ n \in Nat /\ n > 0 /\ n <= w
      /\ (L = 0 => h = 0 /\ t = 0) /\ (L > 0 => h < L /\ t < L)
      /\ s \in Seq(Cell) /\ w = UsedOf(h, t, L)
      /\ \A i \in 0 .. (w - 1) : mem[Place(h, i, L)] = s[i + 1]
  BY SMTT(30), Z3T(30) DEF Ring, RingType
<1>1. L \in Nat \ {0} /\ w < L /\ x \in 0 .. (2 * L - 1)
  BY <1>0, SMTT(30), Z3T(30) DEF UsedOf
<1>2. p \in Seq(Cell) /\ Len(p) = w - n /\ \A i \in 1 .. (w - n) : p[i] = s[n + i]
  BY <1>0, Part, SMTT(30), Z3T(30)
<1> HIDE DEF x, w, p
<1>3. x % L = Rem(x, L)
  BY <1>1, Wrap, ZenonT(30)
<1> DEFINE k == x % L
<1>3a. k = Rem(x, L)
  BY <1>3
<1> HIDE DEF k
<1>4. k = IF h + n < L THEN h + n ELSE h + n - L
  BY <1>0, <1>1, <1>3a, SMTT(30), Z3T(30) DEF Rem, x
<1>5. k \in Nat /\ k < L
  BY <1>0, <1>1, <1>4, SMTT(30), Z3T(30)
<1>6. w - n = UsedOf(k, t, L)
  BY <1>0, <1>1, <1>4, SMTT(30), Z3T(30) DEF UsedOf
<1>7. ASSUME NEW i \in 0 .. (Len(p) - 1) PROVE mem[Place(k, i, L)] = p[i + 1]
  <2>0. i \in Nat /\ i < w - n
    BY <1>0, <1>2, SMTT(30), Z3T(30)
  <2>1. Place(k, i, L) = Place(h, n + i, L) /\ n + i \in 0 .. (w - 1) /\ i + 1 \in 1 .. (w - n)
    BY <1>0, <1>1, <1>4, <2>0, SMTT(30), Z3T(30) DEF Place
  <2>2. p[i + 1] = s[(n + i) + 1]
    <3> DEFINE j == i + 1
    <3>1. j \in 1 .. (w - n) /\ n + j = (n + i) + 1
      BY <1>0, <2>0, <2>1, SMTT(30), Z3T(30)
    <3> HIDE DEF j
    <3>2. p[j] = s[n + j]
      BY <1>2, <3>1, ZenonT(30)
    <3> QED BY <3>1, <3>2, ZenonT(30) DEF j
  <2>3. mem[Place(h, n + i, L)] = s[(n + i) + 1]
    BY <1>0, <2>1, ZenonT(30)
  <2> QED BY <2>1, <2>2, <2>3, ZenonT(30)
<1>8. Ring(mem, k, t, L, p)
  BY <1>0, <1>1, <1>2, <1>5, <1>6, <1>7, ZenonT(30) DEF Ring, RingType
<1> QED BY <1>8, ZenonT(30) DEF k, x, p, w

\* A new queue is empty.
LEMMA InitHolds == Holds(bqueue_init, <<>>)
<1>1. bqueue_init = Rec(<<>>, 0, 0, 0)
  BY DEF bqueue_init, Rec
<1>2. <<>> \in Block(0)
  <2>1. 0 .. (0 - 1) = {}
    BY SMTT(30), Z3T(30)
  <2>2. <<>> \in [{} -> Byte]
    BY SMTT(30), Z3T(30)
  <2> QED BY <2>1, <2>2 DEF Block
<1>3. <<>> \in Seq(Cell) /\ Len(<<>>) = 0
  BY EmptySeq
<1>4. Ring(<<>>, 0, 0, 0, <<>>)
  BY <1>2, <1>3, SMTT(30), Z3T(30) DEF Ring, RingType, UsedOf
<1> QED BY <1>1, <1>4, RecHolds, NetBufferAssumption, SMTT(30), Z3T(30)

\* bqueue_push of data that fits appends it.
LEMMA PushHolds ==
  ASSUME NEW q, NEW s, Holds(q, s), NEW d \in Seq(Cell), Fits(q, Len(d), send_buffer_size)
  PROVE  Holds(bqueue_push(q, d), s \o d)
<1> DEFINE n == Len(d) + Len(s)
           r == IF n >= q.length THEN _bqueue_expand(q, n + 1) ELSE q
<1>0. Len(d) \in Nat /\ Len(s) \in Nat /\ q.length \in Nat /\ _bqueue_used(q) = Len(s)
  BY HoldsUsed, LenProperties, SMTT(30), Z3T(30)
<1>1. n < send_buffer_size /\ send_buffer_size \in Nat
  BY <1>0, NetBufferAssumption DEF Fits
<1>2. bqueue_push(q, d) = Forget(_bqueue_insert(r, d))
  BY <1>0, ZenonT(30) DEF bqueue_push
<1>3. Holds(r, s) /\ Len(s) + Len(d) < r.length
  <2>1. CASE n >= q.length
    <3>1. n + 1 \in Nat /\ n + 1 > q.length /\ n + 1 <= send_buffer_size
      BY <1>0, <1>1, <2>1, SMTT(30), Z3T(30)
    <3>2. Holds(_bqueue_expand(q, n + 1), s) /\ _bqueue_expand(q, n + 1).length = n + 1
      BY <3>1, ExpandHolds
    <3> QED BY <1>0, <2>1, <3>2, SMTT(30), Z3T(30)
  <2>2. CASE n < q.length
    BY <1>0, <2>2, SMTT(30), Z3T(30)
  <2> QED BY <1>0, <2>1, <2>2, SMTT(30), Z3T(30)
<1> HIDE DEF r
<1>4. Holds(_bqueue_insert(r, d), s \o d) /\ _bqueue_insert(r, d).length = r.length
  BY <1>3, InsertHolds
<1>5. r.length > 0
  BY <1>0, <1>3, HoldsUsed, SMTT(30), Z3T(30)
<1> QED BY <1>2, <1>4, <1>5, ForgetHolds, ZenonT(30)

\* bqueue_drop removes the first n bytes, and halves the memory or gives it back.
LEMMA DropHolds ==
  ASSUME NEW q, NEW s, Holds(q, s), NEW n \in 1 .. Len(s)
  PROVE  Holds(bqueue_drop(q, n), SubSeq(s, n + 1, Len(s)))
<1> DEFINE p == SubSeq(s, n + 1, Len(s))
           k == (q.head + n) % q.length
           r == SetH(q, k)
           L == q.length
           N == L \div 2
<1>0. /\ Len(s) \in Nat /\ L \in Nat /\ L > Len(s) /\ L <= send_buffer_size /\ s \in Seq(Cell)
      /\ n \in Nat /\ n <= Len(s) /\ L > 0
  BY HoldsUsed, SMTT(30), Z3T(30)
<1>1. p \in Seq(Cell) /\ Len(p) = Len(s) - n /\ Len(p) \in Nat
  BY <1>0, Part, SMTT(30), Z3T(30)
<1>2. N \in Nat /\ N <= L
  BY <1>0, SMTT(30), Z3T(30)
<1>3. bqueue_drop(q, n) =
        CASE _bqueue_empty(r) -> bqueue_init
          [] ~_bqueue_empty(r) /\ _bqueue_used(r) < N -> Forget(_bqueue_shrink(r, N))
          [] ~_bqueue_empty(r) /\ _bqueue_used(r) >= N -> Forget(r)
  BY DEF bqueue_drop, SetH, _bqueue_trim
<1>4. Ring(q.memory, k, q.tail, L, p)
  BY DropRing, ZenonT(30) DEF Holds
<1> HIDE DEF p, k
<1>5. r = Rec(q.memory, k, q.tail, L)
  <2>1. q = Rec(q.memory, q.head, q.tail, L)
    BY QueueRec DEF Holds
  <2> QED BY <2>1, SetFields, SMTT(30), Z3T(30)
<1> HIDE DEF r, N
<1>6. Holds(r, p) /\ r.length = L
  BY <1>0, <1>4, <1>5, RecHolds, RecFields, SMTT(30), Z3T(30)
<1>7. _bqueue_used(r) = Len(p) /\ (_bqueue_empty(r) <=> Len(p) = 0)
  BY <1>6, HoldsUsed
<1>8. CASE Len(p) = 0
  <2>1. p = <<>>
    BY <1>1, <1>8, EmptySeq
  <2>2. bqueue_drop(q, n) = bqueue_init
    BY <1>3, <1>7, <1>8
  <2>3. Holds(bqueue_drop(q, n), p)
    BY <2>1, <2>2, InitHolds, ZenonT(30)
  <2> QED BY <2>3 DEF p
<1>9. CASE Len(p) > 0 /\ Len(p) < N
  <2>1. bqueue_drop(q, n) = Forget(_bqueue_shrink(r, N))
    BY <1>1, <1>2, <1>3, <1>7, <1>9, SMTT(30), Z3T(30)
  <2>2. Holds(_bqueue_shrink(r, N), p) /\ _bqueue_shrink(r, N).length = N
    BY <1>2, <1>6, <1>9, ShrinkHolds, ZenonT(30)
  <2>3. _bqueue_shrink(r, N).length > 0
    BY <1>1, <1>2, <1>9, <2>2, SMTT(30), Z3T(30)
  <2> QED BY <2>1, <2>2, <2>3, ForgetHolds DEF p
<1>10. CASE Len(p) > 0 /\ Len(p) >= N
  <2>1. bqueue_drop(q, n) = Forget(r)
    BY <1>1, <1>2, <1>3, <1>7, <1>10, SMTT(30), Z3T(30)
  <2> QED BY <1>0, <1>6, <2>1, ForgetHolds DEF p
<1> QED BY <1>1, <1>2, <1>8, <1>9, <1>10, SMTT(30), Z3T(30)

\* The k bytes from an offset on, and where they are the bytes of s behind its first o.
Row(mem, from, k) == [i \in 1 .. k |-> mem[from + i - 1]]
InRow(mem, from, s, o, k) ==
  /\ s \in Seq(Cell) /\ from \in Nat /\ o \in Nat /\ k \in Nat /\ o + k <= Len(s)
  /\ \A i \in 0 .. (k - 1) : mem[from + i] = s[o + i + 1]

\* Such bytes are a part of s.
LEMMA RowOf ==
  ASSUME NEW mem, NEW s, NEW from, NEW o, NEW k, InRow(mem, from, s, o, k)
  PROVE  Row(mem, from, k) = SubSeq(s, o + 1, o + k)
<1> DEFINE b == Row(mem, from, k)
           z == o + k
           p == SubSeq(s, o + 1, z)
<1>0. /\ Len(s) \in Nat /\ z \in Nat /\ z <= Len(s) /\ z - o = k /\ o <= z /\ s \in Seq(Cell)
      /\ from \in Nat /\ o \in Nat /\ k \in Nat
  BY LenProperties, SMTT(30), Z3T(30) DEF InRow
<1>1. p \in Seq(Cell) /\ Len(p) = k /\ \A i \in 1 .. k : p[i] = s[o + i]
  <2> HIDE DEF z
  <2>1. /\ p \in Seq(Cell) /\ Len(p) = (IF o <= z THEN z - o ELSE 0)
        /\ \A i \in 1 .. (z - o) : p[i] = s[o + i]
    BY <1>0, Part, ZenonT(30)
  <2> QED BY <1>0, <2>1
<1>2. ASSUME NEW i \in 1 .. k PROVE b[i] = p[i]
  <2> DEFINE j == i - 1
  <2>1. j \in 0 .. (k - 1) /\ from + i - 1 = from + j /\ o + i = o + j + 1
    BY <1>0, SMTT(30), Z3T(30)
  <2>2. b[i] = mem[from + i - 1]
    BY DEF Row
  <2> HIDE DEF j, b, p
  <2>3. mem[from + j] = s[o + j + 1]
    BY <2>1 DEF InRow
  <2> QED BY <1>1, <2>1, <2>2, <2>3, ZenonT(30)
<1>3. b = [i \in 1 .. k |-> b[i]]
  BY DEF Row
<1> HIDE DEF b, p
<1>4. p = [i \in 1 .. k |-> p[i]]
  BY <1>1, LenProperties
<1>5. b = p
  BY <1>2, <1>3, <1>4, ZenonT(30)
<1> QED BY <1>5 DEF b, p

\* bqueue_peek of n bytes yields the first n, or all.
LEMMA PeekHolds ==
  ASSUME NEW q, NEW s, Holds(q, s), NEW n \in Nat
  PROVE  bqueue_peek(q, n) = SubSeq(s, 1, IF n < Len(s) THEN n ELSE Len(s))
<1> DEFINE L == q.length
           h == q.head
           t == q.tail
           mem == q.memory
           w == Len(s)
           a == L - h
           v == IF n < w THEN n ELSE w
           x == IF n < t - h THEN n ELSE t - h
           y == IF n - a < t THEN n - a ELSE t
<1>0. /\ w \in Nat /\ L \in Nat /\ h \in Nat /\ t \in Nat /\ s \in Seq(Cell) /\ w = UsedOf(h, t, L)
      /\ (L > 0 => h < L /\ t < L) /\ (w > 0 => L > w) /\ (_bqueue_empty(q) <=> w = 0) /\ (h = t <=> w = 0)
      /\ \A i \in 0 .. (w - 1) : mem[Place(h, i, L)] = s[i + 1]
  <2>1. Ring(mem, h, t, L, s)
    BY DEF Holds
  <2> HIDE DEF mem, h, t, L
  <2>2. \A i \in 0 .. (w - 1) : mem[Place(h, i, L)] = s[i + 1]
    BY <2>1, ZenonT(30) DEF Ring
  <2>3. /\ w \in Nat /\ L \in Nat /\ h \in Nat /\ t \in Nat /\ s \in Seq(Cell) /\ w = UsedOf(h, t, L)
        /\ (L > 0 => h < L /\ t < L) /\ (w > 0 => L > w) /\ (_bqueue_empty(q) <=> w = 0) /\ (h = t <=> w = 0)
    <3>1. w = UsedOf(h, t, L) /\ s \in Seq(Cell)
      BY <2>1, ZenonT(30) DEF Ring
    <3>2. /\ w \in Nat /\ L \in 0 .. send_buffer_size /\ h \in Nat /\ t \in Nat
          /\ (L > 0 => h < L /\ t < L) /\ (w > 0 => L > w) /\ (_bqueue_empty(q) <=> w = 0)
      BY HoldsUsed, ZenonT(30) DEF h, t, L
    <3>3. _bqueue_empty(q) <=> h = t
      BY ZenonT(30) DEF _bqueue_empty, h, t
    <3>4. L \in Nat
      BY <3>2, NetBufferAssumption, SMTT(30), Z3T(30)
    <3> QED BY <3>1, <3>2, <3>3, <3>4, ZenonT(30)
  <2> QED BY <2>2, <2>3, ZenonT(30)
<1>1. CASE w = 0
  <2>1. bqueue_peek(q, n) = <<>> /\ v = 0
    BY <1>0, <1>1, SMTT(30), Z3T(30) DEF bqueue_peek
  <2>2. SubSeq(s, 1, 0) = <<>>
    BY SubSeqEmpty, SMTT(30), Z3T(30)
  <2> QED BY <2>1, <2>2, ZenonT(30)
<1>2. CASE w > 0
  <2>0. L > 0 /\ h < L /\ t < L /\ h # t
    BY <1>0, <1>2, SMTT(30), Z3T(30)
  <2>1. bqueue_peek(q, n) = _bqueue_extract(q, n)
    BY <1>0, <1>2, SMTT(30), Z3T(30) DEF bqueue_peek
  <2>2. _bqueue_extract(q, n) = IF h > t THEN IF n < a THEN Row(mem, h, n)
                                                     ELSE Row(mem, h, a) \o Row(mem, 0, y)
                                         ELSE Row(mem, h, x)
    BY ZenonT(30) DEF _bqueue_extract, Row
  <2> HIDE DEF L, h, t, mem, w
  <2>3. /\ h < t => x = v /\ w = t - h
        /\ h > t => w = t + a /\ a \in Nat /\ a > 0 /\ a <= w
        /\ h > t /\ n < a => v = n
        /\ h > t /\ n >= a => v = a + y /\ y \in Nat /\ y <= t
        /\ v \in Nat /\ v <= w
    <3>1. (h < t => w = t - h) /\ (h > t => w = t + a /\ a \in Nat /\ a > 0 /\ a <= w)
      BY <1>0, <2>0, SMTT(30), Z3T(30) DEF UsedOf
    <3>2. v \in Nat /\ v <= w /\ (h < t => x = v)
      BY <1>0, <3>1, SMTT(30), Z3T(30)
    <3>3. h > t /\ n < a => v = n
      BY <1>0, <3>1, SMTT(30), Z3T(30)
    <3>4. h > t /\ n >= a => v = a + y /\ y \in Nat /\ y <= t
      BY <1>0, <3>1, SMTT(30), Z3T(30)
    <3> QED BY <3>1, <3>2, <3>3, <3>4, ZenonT(30)
  <2> HIDE DEF v, x, y
  <2>4. \A i \in 0 .. (w - 1) : Place(h, i, L) = IF i < a THEN h + i ELSE i - a
    BY <1>0, SMTT(30), Z3T(30) DEF Place, a
  <2> HIDE DEF a
  <2>5. ASSUME NEW k \in Nat, k <= w, h < t \/ k <= a PROVE Row(mem, h, k) = SubSeq(s, 1, k)
    <3>1. ASSUME NEW i \in 0 .. (k - 1) PROVE mem[h + i] = s[0 + i + 1]
      <4>1. i \in 0 .. (w - 1) /\ i < a /\ 0 + i + 1 = i + 1
        BY <1>0, <2>0, <2>3, <2>5, SMTT(30), Z3T(30) DEF a
      <4> QED BY <1>0, <2>4, <4>1, ZenonT(30)
    <3>2. InRow(mem, h, s, 0, k)
      <4>1. 0 \in Nat /\ 0 + k <= w
        BY <1>0, <2>5, SMTT(30), Z3T(30)
      <4> QED BY <1>0, <2>5, <3>1, <4>1, ZenonT(30) DEF InRow, w
    <3>3. Row(mem, h, k) = SubSeq(s, 0 + 1, 0 + k)
      BY <3>2, RowOf, SMTT(30), Z3T(30)
    <3>4. 0 + 1 = 1 /\ 0 + k = k
      BY SMTT(30), Z3T(30)
    <3> QED BY <3>3, <3>4, ZenonT(30)
  <2>6. CASE h < t
    <3>0. v \in Nat /\ v <= w
      BY <2>3
    <3>1. Row(mem, h, v) = SubSeq(s, 1, v)
      BY <2>5, <2>6, <3>0, ZenonT(30)
    <3>2. _bqueue_extract(q, n) = Row(mem, h, v)
      BY <1>0, <2>2, <2>3, <2>6, SMTT(30), Z3T(30)
    <3> QED BY <2>1, <3>1, <3>2 DEF v, w
  <2>7. CASE h > t /\ n < a
    <3>0. v \in Nat /\ v <= w /\ v <= a
      BY <2>3, <2>7, SMTT(30), Z3T(30)
    <3>1. Row(mem, h, v) = SubSeq(s, 1, v)
      BY <2>5, <3>0, ZenonT(30)
    <3>2. _bqueue_extract(q, n) = Row(mem, h, v)
      BY <1>0, <2>2, <2>3, <2>7
    <3> QED BY <2>1, <3>1, <3>2 DEF v, w
  <2>8. CASE h > t /\ n >= a
    <3>0. a \in Nat /\ y \in Nat /\ v = a + y /\ v <= w /\ a <= w
      BY <1>0, <2>3, <2>8
    <3>1. Row(mem, h, a) = SubSeq(s, 1, a)
      BY <2>5, <3>0, SMTT(30), Z3T(30)
    <3>2. ASSUME NEW i \in 0 .. (y - 1) PROVE mem[0 + i] = s[a + i + 1]
      <4>1. a + i \in 0 .. (w - 1) /\ ~(a + i < a) /\ (a + i) - a = 0 + i
        BY <1>0, <3>0, SMTT(30), Z3T(30)
      <4> DEFINE j == a + i
      <4>2. Place(h, j, L) = 0 + i /\ j \in 0 .. (w - 1)
        BY <2>4, <4>1, ZenonT(30)
      <4> HIDE DEF j
      <4>3. mem[Place(h, j, L)] = s[j + 1]
        BY <1>0, <4>2, ZenonT(30)
      <4> QED BY <4>2, <4>3, ZenonT(30) DEF j
    <3>3. InRow(mem, 0, s, a, y)
      BY <1>0, <3>0, <3>2, ZenonT(30) DEF InRow, w
    <3>4. Row(mem, 0, y) = SubSeq(s, a + 1, a + y)
      BY <3>3, RowOf, SMTT(30), Z3T(30)
    <3>5. SubSeq(s, 1, a) \o SubSeq(s, a + 1, v) = SubSeq(s, 1, v)
      <4>1. 1 \in 1 .. (Len(s) + 1) /\ a \in (1 - 1) .. Len(s) /\ v \in a .. Len(s)
        BY <1>0, <3>0, SMTT(30), Z3T(30) DEF w
      <4> QED BY <1>0, <4>1, ConcatAdjacentSubSeq, ZenonT(30)
    <3>6. _bqueue_extract(q, n) = Row(mem, h, a) \o Row(mem, 0, y)
      BY <1>0, <2>2, <2>8, <3>0, SMTT(30), Z3T(30)
    <3>7. _bqueue_extract(q, n) = SubSeq(s, 1, v)
      <4>1. Row(mem, 0, y) = SubSeq(s, a + 1, v)
        BY <3>0, <3>4
      <4> QED BY <3>1, <3>5, <3>6, <4>1, ZenonT(30)
    <3> QED BY <2>1, <3>7, ZenonT(30) DEF v, w
  <2> QED BY <1>0, <2>0, <2>6, <2>7, <2>8, <2>3, SMTT(30), Z3T(30)
<1> QED BY <1>0, <1>1, <1>2, SMTT(30), Z3T(30)

(***************************************************************************)
(* The send queue                                                          *)
(***************************************************************************)

\* Forgetting n messages and the bytes of them is forgetting bytes.
LEMMA Forgotten ==
  ASSUME NEW ms \in Seq(Msg), NEW o \in 0 .. Len(Frames(ms)), NEW sent \in 0 .. (Len(Frames(ms)) - o),
         NEW n \in 0 .. Len(ms), Len(Upto(ms, n)) <= o + sent
  PROVE  LET ns == SubSeq(ms, n + 1, Len(ms))
             p  == (o + sent) - Len(Upto(ms, n))
         IN  /\ p \in 0 .. Len(Frames(ns))
             /\ Suffix(Frames(ns), p) = Suffix(Suffix(Frames(ms), o), sent)
<1> DEFINE ns == SubSeq(ms, n + 1, Len(ms))
           U == Upto(ms, n)
           F == Frames(ms)
           E == Frames(ns)
           p == (o + sent) - Len(U)
<1>1. /\ ns \in Seq(Msg) /\ F = U \o E /\ U \in Seq(Cell) /\ F \in Seq(Cell) /\ E \in Seq(Cell)
      /\ Len(U) \in Nat /\ Len(F) \in Nat /\ Len(E) \in Nat
  <2>1. ns \in Seq(Msg) /\ F = U \o E
    BY UptoSplit
  <2> HIDE DEF ns
  <2> QED BY <2>1, UptoType
<1>2. o \in 0 .. Len(F) /\ sent \in 0 .. (Len(F) - o) /\ Len(U) <= o + sent
  OBVIOUS
<1> HIDE DEF ns, U, F, E
<1>3. Len(F) = Len(U) + Len(E)
  BY <1>1, ConcatProperties
<1>4. p \in 0 .. Len(E) /\ Len(U) + p = o + sent
  BY <1>1, <1>2, <1>3, SMTT(30), Z3T(30)
<1> HIDE DEF p
<1>5. Suffix(U \o E, Len(U) + p) = Suffix(E, p)
  BY <1>1, <1>4, SuffixSkip
<1>6. Suffix(Suffix(F, o), sent) = Suffix(F, o + sent)
  BY <1>1, <1>2, SuffixSuffix, ZenonT(30)
<1>7. Suffix(E, p) = Suffix(Suffix(F, o), sent)
  BY <1>1, <1>4, <1>5, <1>6
<1> QED BY <1>4, <1>7 DEF ns, U, F, E, p

BacklogType == backlog \in Seq(Message) /\ offset \in 0 .. Len(Frames(backlog))

\* What the manager owes is what follows the bytes that it has sent.
LEMMA BacklogFrames ==
  ASSUME BacklogType
  PROVE  /\ backlog \in Seq(Msg) /\ Frames(backlog) \in Seq(Cell) /\ Owed = Suffix(Frames(backlog), offset)
         /\ Owed \in Seq(Cell) /\ Len(Owed) = Len(Frames(backlog)) - offset /\ Len(Owed) \in Nat
         /\ Len(Frames(backlog)) \in Nat
<1>1. backlog \in Seq(Msg)
  BY SeqMonotonic, NetBufferAssumption DEF BacklogType, Msg
<1>2. Frames(backlog) \in Seq(Cell) /\ Len(Frames(backlog)) \in Nat
  BY <1>1, UptoType
<1>3. Owed = Suffix(Frames(backlog), offset)
  BY ZenonT(30) DEF Owed, Suffix
<1>4. /\ Suffix(Frames(backlog), offset) \in Seq(Cell)
      /\ Len(Suffix(Frames(backlog), offset)) = Len(Frames(backlog)) - offset
      /\ Len(Suffix(Frames(backlog), offset)) \in Nat
  BY <1>2, SuffixType DEF BacklogType
<1> QED BY <1>1, <1>2, <1>3, <1>4, ZenonT(30)

\* What nb_send records of the bytes that left.
LEMMA AdvanceTo ==
  ASSUME BacklogType, NEW sent \in 1 .. Len(Owed), Advance(sent)
  PROVE  BacklogType' /\ Owed' = Suffix(Owed, sent)
<1> DEFINE total == offset + sent
           Done(k) == Len(Frames(SubSeq(backlog, 1, k))) <= total
           M == Len(backlog)
           n == CHOOSE k \in 0 .. M : Done(k) /\ \A j \in (k + 1) .. M : ~Done(j)
           ns == SubSeq(backlog, n + 1, M)
           p == total - Len(Frames(SubSeq(backlog, 1, n)))
<1>1. /\ backlog \in Seq(Msg) /\ Owed = Suffix(Frames(backlog), offset) /\ M \in Nat
      /\ Len(Owed) = Len(Frames(backlog)) - offset /\ Len(Frames(backlog)) \in Nat /\ offset \in Nat
      /\ total \in Nat
  BY BacklogFrames, UptoType, SMTT(30), Z3T(30) DEF BacklogType
<1>2. backlog' = ns /\ offset' = p
  BY DEF Advance
<1>3. \A k \in 0 .. M : Frames(SubSeq(backlog, 1, k)) = Upto(backlog, k)
  BY <1>1, PrefixFrames
<1>4. n \in 0 .. M /\ Done(n)
  <2> DEFINE G == {k \in 0 .. M : Done(k)}
  <2>1. Done(0)
    <3>1. Frames(SubSeq(backlog, 1, 0)) = Upto(backlog, 0) /\ Upto(backlog, 0) = <<>>
      BY <1>1, <1>3, UptoAt, SMTT(30), Z3T(30)
    <3>2. Len(<<>>) = 0
      BY EmptySeq
    <3> QED BY <1>1, <3>1, <3>2, SMTT(30), Z3T(30)
  <2> HIDE DEF Done
  <2>2. G \in SUBSET (0 .. M) /\ 0 \in G
    BY <1>1, <2>1, SMTT(30), Z3T(30)
  <2> HIDE DEF G
  <2>3. PICK k \in G : \A j \in G : j <= k
    BY <1>1, <2>2, LargestOf, ZenonT(30)
  <2>4. k \in 0 .. M /\ Done(k) /\ \A j \in (k + 1) .. M : ~Done(j)
    BY <1>1, <2>3, SMTT(30), Z3T(30) DEF G
  <2> QED BY <2>4
<1> HIDE DEF n
<1>5. Frames(SubSeq(backlog, 1, n)) = Upto(backlog, n) /\ Len(Upto(backlog, n)) <= offset + sent
  BY <1>3, <1>4
<1>6. p = (offset + sent) - Len(Upto(backlog, n))
  BY <1>5
<1>7. /\ p \in 0 .. Len(Frames(ns))
      /\ Suffix(Frames(ns), p) = Suffix(Suffix(Frames(backlog), offset), sent)
  <2>1. sent \in 0 .. (Len(Frames(backlog)) - offset) /\ offset \in 0 .. Len(Frames(backlog))
    BY <1>1, SMTT(30), Z3T(30) DEF BacklogType
  <2> QED BY <1>1, <1>4, <1>5, <1>6, <2>1, Forgotten, ZenonT(30)
<1>8. ns \in Seq(Message)
  <2>1. M \in Nat /\ n \in Nat /\ M <= Len(backlog) /\ backlog \in Seq(Message)
    BY <1>1, <1>4, SMTT(30), Z3T(30) DEF BacklogType
  <2> HIDE DEF M
  <2> QED BY <2>1, Part
<1> HIDE DEF ns, p
<1>9. BacklogType'
  BY <1>2, <1>7, <1>8 DEF BacklogType
<1>10. Owed' = Suffix(Frames(ns), p)
  BY <1>2 DEF Owed, Suffix
<1> QED BY <1>1, <1>7, <1>9, <1>10, ZenonT(30)

\* What a push records.
LEMMA AppendTo ==
  ASSUME BacklogType, NEW m \in Message, backlog' = Append(backlog, m), offset' = offset
  PROVE  BacklogType' /\ Owed' = Owed \o Frame(m)
<1> DEFINE F == Frames(backlog)
           d == Frame(m)
<1>1. /\ backlog \in Seq(Msg) /\ Owed = Suffix(F, offset) /\ F \in Seq(Cell) /\ Len(F) \in Nat
      /\ m \in Msg /\ d \in Seq(Cell) /\ Len(d) \in Nat /\ offset \in 0 .. Len(F)
  <2>1. m \in Msg
    BY NetBufferAssumption DEF Msg
  <2> QED BY <2>1, BacklogFrames, FrameSeq, ZenonT(30) DEF BacklogType, Msg
<1>2. Frames(Append(backlog, m)) = F \o d
  BY <1>1, FramesAppend, ZenonT(30)
<1>3. Append(backlog, m) \in Seq(Message)
  BY AppendProperties DEF BacklogType
<1> HIDE DEF F, d
<1>4. Len(F \o d) = Len(F) + Len(d)
  BY <1>1, ConcatProperties
<1>5. offset \in 0 .. Len(F \o d)
  BY <1>1, <1>4, SMTT(30), Z3T(30)
<1>6. BacklogType'
  BY <1>2, <1>3, <1>5 DEF BacklogType
<1>7. Owed' = Suffix(F \o d, offset)
  BY <1>2 DEF Owed, Suffix
<1>8. Suffix(F \o d, offset) = Suffix(F, offset) \o d
  BY <1>1, SuffixConcat, ZenonT(30)
<1> QED BY <1>1, <1>6, <1>7, <1>8, ZenonT(30) DEF d

\* The queue holds the bytes the manager owes the agent, and epoll watches for
\* writability while there are some.
SendInv ==
  /\ BacklogType
  /\ interest \in {{}, {"READ"}, {"READ", "WRITE"}}
  /\ retry \in Message \union {None}
  /\ Open <=> interest # {}
  /\ Open => Holds(bqueue, Owed) /\ ("WRITE" \in interest <=> Len(Owed) > 0)
  /\ ~Open => backlog = <<>> /\ offset = 0

\* Without messages there are no bytes.
LEMMA NoFrames == Frames(<<>>) = <<>> /\ <<>> \in Seq(Message) /\ Len(<<>>) = 0
<1>1. <<>> \in Seq(Message) /\ Len(<<>>) = 0 /\ 0 \in Nat
  BY EmptySeq
<1> QED BY <1>1, UptoAt

\* Nothing is owed on a new connection.
LEMMA NothingOwed ==
  ASSUME backlog = <<>>, offset = 0
  PROVE  BacklogType /\ Owed = <<>>
<1>1. 0 \in 0 .. 0 /\ 0 + 1 = 1
  BY SMTT(30), Z3T(30)
<1>2. BacklogType
  BY <1>1, NoFrames DEF BacklogType
<1>3. SubSeq(<<>>, 0 + 1, 0) = <<>>
  BY SubSeqEmpty, SMTT(30), Z3T(30)
<1>4. Owed = SubSeq(<<>>, 0 + 1, 0)
  BY NoFrames, ZenonT(30) DEF Owed
<1> QED BY <1>2, <1>3, <1>4

\* A queue with content is that of an open socket.
LEMMA HoldsOpen ==
  ASSUME NEW q, NEW s, Holds(q, s)
  PROVE  q # None
BY NetBufferAssumption DEF Holds

\* _close_sock leaves nothing owed.
LEMMA CloseKeeps ==
  ASSUME SendInv, _close_sock
  PROVE  SendInv'
<1>1. ~Open' /\ interest' = {} /\ backlog' = <<>> /\ offset' = 0 /\ retry' = retry
  BY DEF _close_sock, Open
<1>2. BacklogType'
  <2>1. 0 \in 0 .. 0
    BY SMTT(30), Z3T(30)
  <2> QED BY <1>1, <2>1, NoFrames DEF BacklogType
<1> QED BY <1>1, <1>2 DEF SendInv

\* nb_open gives the connection an empty queue.
LEMMA OpenKeeps ==
  ASSUME SendInv, NEW ms, handle_new_tcp_connection(ms)
  PROVE  SendInv'
<1>1. /\ ~Open /\ bqueue' = bqueue_init /\ interest' = {"READ"} /\ retry' = retry
      /\ backlog' = backlog /\ offset' = offset
  BY DEF handle_new_tcp_connection
<1>2. backlog = <<>> /\ offset = 0
  BY <1>1 DEF SendInv
<1>3. BacklogType /\ Owed = <<>>
  BY <1>2, NothingOwed
<1>4. BacklogType' /\ Owed' = <<>>
  BY <1>1, <1>3 DEF BacklogType, Owed
<1>5. Holds(bqueue', Owed') /\ Len(Owed') = 0
  BY <1>1, <1>4, InitHolds, EmptySeq
<1>6. Open'
  BY <1>5, HoldsOpen DEF Open
<1>7. "WRITE" \notin interest' /\ interest' # {} /\ interest' \in {{}, {"READ"}, {"READ", "WRITE"}}
  BY <1>1
<1>8. retry' \in Message \union {None}
  BY <1>1 DEF SendInv
<1> QED BY <1>4, <1>5, <1>6, <1>7, <1>8, SMTT(30), Z3T(30) DEF SendInv

\* A push appends the frame and asks for the write event when it is alone.
LEMMA PushKeeps ==
  ASSUME SendInv, Open, NEW m \in Message, Fits(bqueue, Len(Frame(m)), send_buffer_size),
         Push(m), offset' = offset, retry' \in Message \union {None}
  PROVE  SendInv'
<1> DEFINE d == Frame(m)
<1>1. d \in Seq(Cell) /\ Len(d) \in Nat \ {0}
  <2>1. m \in DOMAIN Size
    BY NetBufferAssumption
  <2> QED BY <2>1, FrameSeq, ZenonT(30)
<1>2. /\ BacklogType /\ Holds(bqueue, Owed) /\ ("WRITE" \in interest <=> Len(Owed) > 0)
      /\ interest \in {{}, {"READ"}, {"READ", "WRITE"}} /\ interest # {}
  BY DEF SendInv
<1>3. /\ bqueue' = bqueue_push(bqueue, d) /\ backlog' = Append(backlog, m)
      /\ interest' = IF _bqueue_used(bqueue') = Len(d) THEN {"READ", "WRITE"} ELSE interest
  BY DEF Push
<1>4. BacklogType' /\ Owed' = Owed \o d
  BY <1>2, <1>3, AppendTo
<1>5. Owed \in Seq(Cell) /\ Len(Owed) \in Nat
  BY <1>2, BacklogFrames
<1> HIDE DEF d
<1>6. Holds(bqueue', Owed')
  BY <1>1, <1>2, <1>3, <1>4, PushHolds, ZenonT(30) DEF d
<1>7. Len(Owed') = Len(Owed) + Len(d)
  BY <1>1, <1>4, <1>5, ConcatProperties, ZenonT(30)
<1>8. _bqueue_used(bqueue') = Len(Owed')
  BY <1>6, HoldsUsed
<1>9. Open'
  BY <1>6, HoldsOpen DEF Open
<1>10. interest' = {"READ", "WRITE"} /\ Len(Owed') > 0
  <2>1. CASE Len(Owed) = 0
    BY <1>1, <1>3, <1>7, <1>8, <2>1, SMTT(30), Z3T(30)
  <2>2. CASE Len(Owed) > 0
    <3>1. interest = {"READ", "WRITE"}
      BY <1>2, <2>2, ZenonT(30)
    <3> QED BY <1>1, <1>3, <1>5, <1>7, <2>2, <3>1, SMTT(30), Z3T(30)
  <2> QED BY <1>5, <2>1, <2>2, SMTT(30), Z3T(30)
<1> QED BY <1>4, <1>6, <1>9, <1>10, ZenonT(30) DEF SendInv

\* nb_send drops what left and gives the write event up with the last byte.
LEMMA SendKeeps ==
  ASSUME SendInv, NEW sent \in 1 .. send_chunk, nb_send(sent)
  PROVE  SendInv'
<1>1. /\ Open /\ "WRITE" \in interest /\ sent <= Len(bqueue_peek(bqueue, send_chunk))
      /\ bqueue' = bqueue_drop(bqueue, sent) /\ Advance(sent) /\ retry' = retry
      /\ interest' = IF _bqueue_used(bqueue') = 0 THEN {"READ"} ELSE interest
  BY DEF nb_send
<1>2. /\ BacklogType /\ Holds(bqueue, Owed) /\ interest = {"READ", "WRITE"}
      /\ retry \in Message \union {None}
  BY <1>1, ZenonT(30) DEF SendInv
<1>3. Owed \in Seq(Cell) /\ Len(Owed) \in Nat /\ send_chunk \in Nat
  BY <1>2, BacklogFrames, NetBufferAssumption
<1>4. sent \in 1 .. Len(Owed)
  <2> DEFINE v == IF send_chunk < Len(Owed) THEN send_chunk ELSE Len(Owed)
  <2>1. bqueue_peek(bqueue, send_chunk) = SubSeq(Owed, 1, v)
    BY <1>2, <1>3, PeekHolds
  <2>2. v \in 0 .. Len(Owed)
    BY <1>3, SMTT(30), Z3T(30)
  <2> HIDE DEF v
  <2>3. Len(SubSeq(Owed, 1, v)) = v
    BY <1>3, <2>2, First
  <2> QED BY <1>1, <1>3, <2>1, <2>2, <2>3, SMTT(30), Z3T(30)
<1>5. BacklogType' /\ Owed' = Suffix(Owed, sent)
  BY <1>1, <1>2, <1>4, AdvanceTo, ZenonT(30)
<1>6. Holds(bqueue', Owed')
  BY <1>1, <1>2, <1>4, <1>5, DropHolds, ZenonT(30) DEF Suffix
<1>7. _bqueue_used(bqueue') = Len(Owed') /\ Len(Owed') \in Nat
  BY <1>6, HoldsUsed
<1>8. Open'
  BY <1>6, HoldsOpen DEF Open
<1>9. /\ interest' \in {{}, {"READ"}, {"READ", "WRITE"}} /\ interest' # {}
      /\ ("WRITE" \in interest' <=> Len(Owed') > 0)
  <2>1. CASE Len(Owed') = 0
    <3>1. interest' = {"READ"}
      BY <1>1, <1>7, <2>1
    <3> QED BY <2>1, <3>1, SMTT(30), Z3T(30)
  <2>2. CASE Len(Owed') > 0
    <3>1. interest' = {"READ", "WRITE"}
      BY <1>1, <1>2, <1>7, <2>2, SMTT(30), Z3T(30)
    <3> QED BY <2>2, <3>1
  <2> QED BY <1>7, <2>1, <2>2, SMTT(30), Z3T(30)
<1> QED BY <1>1, <1>2, <1>5, <1>6, <1>8, <1>9, ZenonT(30) DEF SendInv

\* At first the socket is closed.
LEMMA SendInit == Init => SendInv
<1> SUFFICES ASSUME Init PROVE SendInv
  OBVIOUS
<1>1. BacklogType
  BY NothingOwed DEF Init
<1> QED BY <1>1 DEF Init, SendInv, Open

\* Every step keeps the invariant of the send side.
LEMMA SendNext == SendInv /\ [Next]_vars => SendInv'
<1> SUFFICES ASSUME SendInv, [Next]_vars PROVE SendInv'
  OBVIOUS
<1>0. ASSUME UNCHANGED sendVars PROVE SendInv'
  BY <1>0 DEF sendVars, SendInv, Open, BacklogType, Owed
<1>1. ASSUME NEW ms \in Script, handle_new_tcp_connection(ms) PROVE SendInv'
  BY <1>1, OpenKeeps
<1>2. ASSUME _close_sock PROVE SendInv'
  BY <1>2, CloseKeeps
<1>3. ASSUME NEW m \in Message, nb_queue(m) PROVE SendInv'
  <2>1. retry' \in Message \union {None}
    BY <1>3 DEF nb_queue, SendInv
  <2> QED BY <1>3, <2>1, PushKeeps DEF nb_queue
<1>4. ASSUME NEW m \in Message, nb_queue_sleep(m) PROVE SendInv'
  <2>1. /\ retry' \in Message \union {None} /\ bqueue' = bqueue /\ interest' = interest
        /\ backlog' = backlog /\ offset' = offset
    BY <1>4 DEF nb_queue_sleep
  <2> QED BY <2>1 DEF SendInv, Open, BacklogType, Owed
<1>5. ASSUME nb_queue_retry PROVE SendInv'
  <2>1. retry \in Message /\ retry' = None /\ offset' = offset
    BY <1>5 DEF nb_queue_retry, SendInv
  <2>2. CASE Open /\ Fits(bqueue, Len(Frame(retry)), send_buffer_size)
    <3>1. Push(retry) /\ retry' \in Message \union {None}
      BY <1>5, <2>1, <2>2, ZenonT(30) DEF nb_queue_retry
    <3> QED BY <2>1, <2>2, <3>1, PushKeeps, ZenonT(30)
  <2>3. CASE ~(Open /\ Fits(bqueue, Len(Frame(retry)), send_buffer_size))
    <3>1. bqueue' = bqueue /\ interest' = interest /\ backlog' = backlog
      BY <1>5, <2>3 DEF nb_queue_retry
    <3> QED BY <2>1, <3>1, ZenonT(30) DEF SendInv, Open, BacklogType, Owed
  <2> QED BY <2>2, <2>3
<1>6. ASSUME NEW sent \in 1 .. send_chunk, nb_send(sent) PROVE SendInv'
  BY <1>6, SendKeeps
<1>7. ASSUME NEW n \in 1 .. receive_chunk, nb_recv(n) PROVE SendInv'
  <2>1. UNCHANGED sendVars
    BY <1>7 DEF nb_recv
  <2> QED BY <1>0, <2>1, ZenonT(30)
<1>8. ASSUME NEW n \in 1 .. receive_chunk, nb_recv_toobig(n) PROVE SendInv'
  BY <1>8, <1>2 DEF nb_recv_toobig
<1>9. ASSUME UNCHANGED vars PROVE SendInv'
  BY <1>0, <1>9 DEF vars
<1> QED BY <1>1, <1>2, <1>3, <1>4, <1>5, <1>6, <1>7, <1>8, <1>9, ZenonT(30) DEF Next

\* bqueue_push, bqueue_peek and bqueue_drop keep the byte stream, for messages of any
\* size, whatever parts are sent and whatever the ring is wrapped, grown or shrunk into.
THEOREM StreamKept == Spec => []StreamIntact
<1>1. SendInv => StreamIntact
  <2> SUFFICES ASSUME SendInv, Open PROVE
        /\ _bqueue_used(bqueue) = Len(Owed)
        /\ \A n \in 1 .. send_buffer_size :
             bqueue_peek(bqueue, n) = SubSeq(Owed, 1, IF n < Len(Owed) THEN n ELSE Len(Owed))
    BY DEF StreamIntact
  <2>1. Holds(bqueue, Owed)
    BY DEF SendInv
  <2>2. _bqueue_used(bqueue) = Len(Owed)
    BY <2>1, HoldsUsed
  <2>3. ASSUME NEW n \in 1 .. send_buffer_size
        PROVE  bqueue_peek(bqueue, n) = SubSeq(Owed, 1, IF n < Len(Owed) THEN n ELSE Len(Owed))
    <3>1. n \in Nat
      BY SMTT(30), Z3T(30)
    <3> QED BY <2>1, <3>1, PeekHolds
  <2> QED BY <2>2, <2>3
<1> QED BY <1>1, SendInit, SendNext, PTL DEF Spec

\* nb_queue and nb_send keep the write event exactly while there is something to send.
THEOREM InterestKept == Spec => []WriteInterestKept
<1>1. SendInv => WriteInterestKept
  BY HoldsUsed DEF SendInv, WriteInterestKept
<1> QED BY <1>1, SendInit, SendNext, PTL DEF Spec

(***************************************************************************)
(* The connection                                                          *)
(***************************************************************************)

\* The receive side: the bytes received are those of the messages handed over and of the
\* buffer, which holds less than one acceptable message.  Its block is never smaller.
RecvInv ==
  /\ \E k, r : Arrived(script, k, r, stream, data, pushed)
  /\ Len(data) \in Nat /\ Len(data) <= header_size + OS_MAXSTR - 1
  /\ data_size \in Len(data) .. (header_size + OS_MAXSTR - 1 + receive_chunk)
  /\ ~Open => data = <<>> /\ pushed = <<>>

\* At first nothing has arrived.
LEMMA RecvInit == Init => RecvInv
<1> SUFFICES ASSUME Init PROVE RecvInv
  OBVIOUS
<1>1. script = <<>> /\ stream = <<>> /\ data = <<>> /\ data_size = 0 /\ pushed = <<>>
  BY DEF Init
<1>2. Frames(<<>>) = <<>> /\ <<>> \in Seq(Msg) /\ Len(<<>>) = 0
  BY NoFrames, EmptySeq
<1>3. Arrived(script, 0, 0, stream, data, pushed)
  BY <1>1, <1>2, NothingArrived, ZenonT(30)
<1>4. 0 \in Nat /\ 0 <= header_size + OS_MAXSTR - 1 /\ 0 \in 0 .. (header_size + OS_MAXSTR - 1 + receive_chunk)
  BY NetBufferAssumption, SMTT(30), Z3T(30)
<1> QED BY <1>1, <1>2, <1>3, <1>4, ZenonT(30) DEF RecvInv

\* One call of nb_recv, whatever it receives.
LEMMA RecvKeeps ==
  ASSUME RecvInv, NEW n \in 1 .. receive_chunk, nb_recv(n)
  PROVE  RecvInv'
<1> DEFINE buf  == data \o SubSeq(stream, 1, n)
           d    == Dispatch(buf)
           size == Larger(data_size, Len(data) + receive_chunk)
           re   == SubSeq(buf, d.i + 1, Len(buf))
<1>1. /\ Open /\ n <= Len(stream) /\ ~d.bad /\ pushed' = pushed \o d.msgs /\ data' = re
      /\ data_size' = IF d.i > 0 THEN Relaxed(size, Len(data')) ELSE size
      /\ stream' = SubSeq(stream, n + 1, Len(stream)) /\ script' = script /\ bqueue' = bqueue
  BY DEF nb_recv, sendVars
<1>2. PICK k, r : Arrived(script, k, r, stream, data, pushed)
  BY DEF RecvInv
<1>3. n \in 1 .. Len(stream)
  <2> DEFINE F == Frames(script)
  <2>1. script \in Seq(Msg) /\ r \in 0 .. Len(F) /\ stream = Suffix(F, r)
    BY <1>2 DEF Arrived
  <2>2. F \in Seq(Cell)
    BY <2>1, UptoType, ZenonT(30)
  <2> HIDE DEF F
  <2>3. Len(stream) \in Nat
    BY <2>1, <2>2, SuffixType, ZenonT(30)
  <2>4. receive_chunk \in Nat
    BY NetBufferAssumption, ZenonT(30)
  <2> QED BY <1>1, <2>3, <2>4, SMTT(30), Z3T(30)
<1>4. /\ \E K : Arrived(script, K, r + n, SubSeq(stream, n + 1, Len(stream)), re, pushed \o d.msgs)
      /\ Len(buf) = Len(data) + n /\ Len(data) \in Nat
      /\ d.i \in Nat /\ Len(re) = Len(buf) - d.i /\ Len(re) \in Nat
      /\ Len(re) <= header_size + OS_MAXSTR - 1
  BY <1>1, <1>2, <1>3, RecvStep, ZenonT(30)
<1> HIDE DEF d, buf, re
<1>5. \E K, q : Arrived(script', K, q, stream', data', pushed')
  BY <1>1, <1>4
<1>6. data_size' \in Len(re) .. (header_size + OS_MAXSTR - 1 + receive_chunk)
  <2> DEFINE M == header_size + OS_MAXSTR - 1
             a == Len(data)
             b == Len(re)
             i == d.i
  <2>1. M \in Nat /\ receive_chunk \in Nat
    BY NetBufferAssumption, SMTT(30), Z3T(30)
  <2>2. data_size \in Len(data) .. (M + receive_chunk) /\ Len(data) <= M
    BY DEF RecvInv
  <2>3. a \in Nat /\ b \in Nat /\ i \in Nat /\ b = a + n - i /\ b <= M
    BY <1>4, SMTT(30), Z3T(30)
  <2> HIDE DEF M
  <2>4. data_size \in Nat /\ a <= data_size /\ data_size <= M + receive_chunk /\ a <= M
    BY <2>1, <2>2, <2>3, SMTT(30), Z3T(30)
  <2> HIDE DEF a, b, i
  <2>5. (IF i > 0 THEN Relaxed(Larger(data_size, a + receive_chunk), b) ELSE Larger(data_size, a + receive_chunk))
          \in b .. (M + receive_chunk)
    BY <2>3, <2>4, BlockSize, ZenonT(30) DEF M
  <2>6. data_size' = IF i > 0 THEN Relaxed(Larger(data_size, a + receive_chunk), b) ELSE Larger(data_size, a + receive_chunk)
    BY <1>1 DEF a, b, i
  <2> QED BY <2>5, <2>6, ZenonT(30) DEF b, M
<1>7. Open'
  BY <1>1 DEF Open
<1> QED BY <1>1, <1>4, <1>5, <1>6, <1>7, ZenonT(30) DEF RecvInv

\* Every step keeps the invariant of the receive side.
LEMMA RecvNext == RecvInv /\ SendInv /\ [Next]_vars => RecvInv'
<1> SUFFICES ASSUME RecvInv, SendInv, [Next]_vars PROVE RecvInv'
  OBVIOUS
<1>0. ASSUME UNCHANGED recvVars, Open' <=> Open PROVE RecvInv'
  BY <1>0, ZenonT(30) DEF recvVars, RecvInv
<1>1. ASSUME NEW ms \in Script, handle_new_tcp_connection(ms) PROVE RecvInv'
  <2>1. ms \in Seq(Msg)
    BY NetBufferAssumption DEF Msg
  <2>2. /\ script' = ms /\ stream' = Frames(ms) /\ data' = data /\ data_size' = data_size
        /\ pushed' = pushed /\ interest' = {"READ"} /\ ~Open
    BY <1>1 DEF handle_new_tcp_connection
  <2>3. data = <<>> /\ pushed = <<>>
    BY <2>2 DEF RecvInv
  <2>4. Arrived(script', 0, 0, stream', data', pushed')
    BY <2>1, <2>2, <2>3, NothingArrived, ZenonT(30)
  <2> QED BY <2>2, <2>3, <2>4, ZenonT(30) DEF RecvInv
<1>2. ASSUME _close_sock PROVE RecvInv'
  <2>1. script' = <<>> /\ stream' = <<>> /\ data' = <<>> /\ data_size' = 0 /\ pushed' = <<>>
    BY <1>2 DEF _close_sock
  <2>2. Frames(<<>>) = <<>> /\ <<>> \in Seq(Msg) /\ Len(<<>>) = 0
    BY NoFrames, EmptySeq
  <2>3. Arrived(<<>>, 0, 0, <<>>, <<>>, <<>>)
    BY <2>2, NothingArrived, ZenonT(30)
  <2>4. Arrived(script', 0, 0, stream', data', pushed')
    BY <2>1, <2>3, ZenonT(30)
  <2>5. 0 \in Nat /\ 0 <= header_size + OS_MAXSTR - 1 /\ 0 \in 0 .. (header_size + OS_MAXSTR - 1 + receive_chunk)
    BY NetBufferAssumption, SMTT(30), Z3T(30)
  <2> QED BY <2>1, <2>2, <2>4, <2>5, ZenonT(30) DEF RecvInv
<1>3. ASSUME Open, Open', UNCHANGED recvVars PROVE RecvInv'
  BY <1>0, <1>3
<1>4. SendInv'
  BY SendNext
<1>5. ASSUME interest' = interest, UNCHANGED recvVars PROVE RecvInv'
  <2>1. Open' <=> Open
    BY <1>4, <1>5 DEF SendInv
  <2> QED BY <1>0, <1>5, <2>1, ZenonT(30)
<1>6. ASSUME interest' # {}, Open, UNCHANGED recvVars PROVE RecvInv'
  <2>1. Open'
    BY <1>4, <1>6 DEF SendInv
  <2> QED BY <1>0, <1>6, <2>1, ZenonT(30)
<1>7. ASSUME NEW m, Push(m), Open, UNCHANGED recvVars PROVE RecvInv'
  <2>1. interest # {}
    BY <1>7 DEF SendInv
  <2>2. interest' # {}
    BY <1>7, <2>1 DEF Push
  <2> QED BY <1>6, <1>7, <2>2
<1>8. ASSUME NEW m \in Message, nb_queue(m) PROVE RecvInv'
  BY <1>7, <1>8 DEF nb_queue
<1>9. ASSUME NEW m \in Message, nb_queue_sleep(m) PROVE RecvInv'
  BY <1>5, <1>9 DEF nb_queue_sleep
<1>10. ASSUME nb_queue_retry PROVE RecvInv'
  BY <1>5, <1>7, <1>10, ZenonT(30) DEF nb_queue_retry
<1>11. ASSUME NEW sent \in 1 .. send_chunk, nb_send(sent) PROVE RecvInv'
  <2>1. interest # {} /\ Open /\ UNCHANGED recvVars
    BY <1>11 DEF nb_send, SendInv
  <2>2. interest' # {}
    BY <1>11, <2>1 DEF nb_send
  <2> QED BY <1>6, <2>1, <2>2, ZenonT(30)
<1>12. ASSUME NEW n \in 1 .. receive_chunk, nb_recv(n) PROVE RecvInv'
  BY <1>12, RecvKeeps
<1>13. ASSUME NEW n \in 1 .. receive_chunk, nb_recv_toobig(n) PROVE RecvInv'
  BY <1>2, <1>13, ZenonT(30) DEF nb_recv_toobig
<1>14. ASSUME UNCHANGED vars PROVE RecvInv'
  BY <1>5, <1>14 DEF vars, sendVars
<1> QED BY <1>1, <1>2, <1>8, <1>9, <1>10, <1>11, <1>12, <1>13, <1>14, ZenonT(30) DEF Next

\* Both directions of a connection.
LEMMA BufferInv == Spec => [](SendInv /\ RecvInv)
<1>1. Init => SendInv /\ RecvInv
  BY SendInit, RecvInit
<1>2. SendInv /\ RecvInv /\ [Next]_vars => (SendInv /\ RecvInv)'
  BY SendNext, RecvNext
<1> QED BY <1>1, <1>2, PTL DEF Spec

\* The offsets of the send queue stay inside of its memory, which never grows past
\* send_buffer_size, and the receive block holds what nb_recv reads into it: the rest of
\* one message and one chunk at most, whatever buffer_relax frees.
THEOREM BuffersBounded == Spec => []TypeOK
<1>1. SendInv /\ RecvInv => TypeOK
  <2> SUFFICES ASSUME SendInv, RecvInv PROVE TypeOK
    BY ZenonT(30)
  <2>1. ASSUME Open
        PROVE  /\ bqueue.length \in 0 .. send_buffer_size
               /\ DOMAIN bqueue.memory = 0 .. (bqueue.length - 1)
               /\ {bqueue.head, bqueue.tail} \subseteq 0 .. (bqueue.length - 1) \cup {0}
    <3>1. Holds(bqueue, Owed)
      BY <2>1 DEF SendInv
    <3> DEFINE L == bqueue.length
               h == bqueue.head
               t == bqueue.tail
    <3>2. L \in 0 .. send_buffer_size /\ bqueue.memory \in Block(L)
      BY <3>1, HoldsUsed, ZenonT(30)
    <3>3. /\ h \in Nat /\ t \in Nat /\ (L > 0 => h < L /\ t < L) /\ (L = 0 => h = 0 /\ t = 0)
      BY <3>1 DEF Holds, Ring, RingType
    <3>4. DOMAIN bqueue.memory = 0 .. (L - 1)
      BY <3>2 DEF Block
    <3>5. L \in Nat
      BY <3>2, NetBufferAssumption, SMTT(30), Z3T(30)
    <3> HIDE DEF L, h, t
    <3>6. h \in 0 .. (L - 1) \cup {0} /\ t \in 0 .. (L - 1) \cup {0}
      BY <3>3, <3>5, SMTT(30), Z3T(30)
    <3>7. {h, t} \subseteq 0 .. (L - 1) \cup {0}
      BY <3>6
    <3> QED BY <3>2, <3>4, <3>7, ZenonT(30) DEF L, h, t
  <2>2. data_size \in Len(data) .. (header_size + OS_MAXSTR - 1 + receive_chunk)
    BY DEF RecvInv
  <2>3. interest \in {{}, {"READ"}, {"READ", "WRITE"}} /\ retry \in Message \cup {None} /\ (Open <=> interest # {})
    BY DEF SendInv
  <2> QED BY <2>1, <2>2, <2>3 DEF TypeOK
<1> QED BY <1>1, BufferInv, PTL

\* However the bytes of an agent are cut into receives, for frames of any size, nb_recv
\* hands over the messages whose last byte has arrived, each once and in their order.
THEOREM MessagesKept == Spec => []MessagesInOrder
<1>1. RecvInv => MessagesInOrder
  <2> SUFFICES ASSUME RecvInv PROVE MessagesInOrder
    OBVIOUS
  <2>1. PICK k, r : Arrived(script, k, r, stream, data, pushed)
    BY DEF RecvInv
  <2> DEFINE F == Frames(script)
             L == Len(script)
             received == Len(F) - Len(stream)
             C == {n \in 0 .. L : Len(Frames(SubSeq(script, 1, n))) <= received}
             x == CHOOSE y \in C : \A j \in C : j <= y
  <2>2. /\ script \in Seq(Msg) /\ r \in 0 .. Len(F) /\ stream = Suffix(F, r) /\ Whole(script, k, r)
        /\ pushed = Piece(Payloads(script), 0, k)
    BY <2>1 DEF Arrived
  <2>3. L \in Nat /\ F \in Seq(Cell) /\ Len(F) \in Nat
    BY <2>2, UptoType
  <2>4. received = r
    <3> HIDE DEF F
    <3>1. Len(stream) = Len(F) - r
      BY <2>2, <2>3, SuffixType, ZenonT(30)
    <3> QED BY <2>2, <2>3, <3>1, SMTT(30), Z3T(30)
  <2> HIDE DEF received
  <2>5. \A n \in 0 .. L : Len(Frames(SubSeq(script, 1, n))) = At(script, n)
    BY <2>2, PrefixFrames DEF At
  <2>6. k \in 0 .. L /\ At(script, k) <= r /\ (k < L => r < At(script, k + 1))
    BY <2>2 DEF Whole
  <2>7. k \in C
    BY <2>4, <2>5, <2>6, ZenonT(30)
  <2>8. ASSUME NEW j \in C PROVE j <= k
    <3>1. j \in 0 .. L /\ At(script, j) <= r
      BY <2>4, <2>5
    <3>2. ASSUME ~(j <= k) PROVE FALSE
      <4> DEFINE z == k + 1
      <4>1. z \in 0 .. L /\ z <= j /\ k < L
        BY <2>3, <2>6, <3>1, <3>2, SMTT(30), Z3T(30)
      <4>2. r < At(script, z)
        BY <2>6, <4>1, ZenonT(30)
      <4> HIDE DEF z
      <4>3. At(script, z) <= At(script, j) /\ At(script, z) \in Nat /\ At(script, j) \in Nat
        BY <2>2, <3>1, <4>1, AtBounds, ZenonT(30)
      <4>4. r \in Nat
        BY <2>2, <2>3, SMTT(30), Z3T(30)
      <4> QED BY <3>1, <4>2, <4>3, <4>4, SMTT(30), Z3T(30)
    <3> QED BY <3>2
  <2>9. \A y \in C : y \in Nat
    BY <2>3, SMTT(30), Z3T(30)
  <2> HIDE DEF C
  <2>10. x = k
    <3>1. x \in C /\ \A j \in C : j <= x
      BY <2>7, <2>8
    <3>2. x <= k /\ k <= x /\ x \in Nat /\ k \in Nat
      BY <2>7, <2>8, <2>9, <3>1, ZenonT(30)
    <3> HIDE DEF x
    <3> QED BY <3>2, SMTT(30), Z3T(30)
  <2>11. pushed = [y \in 1 .. x |-> Payload(script[y])]
    <3> HIDE DEF x
    <3>1. Piece(Payloads(script), 0, k) = [y \in 1 .. k |-> Payload(script[y])]
      BY <2>2, <2>6, PayloadsType
    <3> QED BY <2>2, <2>10, <3>1, ZenonT(30)
  <2> QED BY <2>11 DEF MessagesInOrder, C, received
<1> QED BY <1>1, BufferInv, PTL
=============================================================================
