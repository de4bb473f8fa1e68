-------------------------- MODULE EnrolmentProofs --------------------------
(***************************************************************************)
(* The agents of authd's store and of client.keys do not clash, ids are    *)
(* fresh, and the table of agents follows client.keys or is repaired, for  *)
(* any number of names and addresses, any combination of features, and any *)
(* number of enrolments and faults.                                        *)
(*                                                                         *)
(* A request goes through checks each of which may remove the one entry    *)
(* that clashes.  What a check leaves is a part of what it found, so that  *)
(* an earlier check is not undone by a later one.                          *)
(***************************************************************************)
EXTENDS Enrolment, WellFoundedInduction, TLAPS

(***************************************************************************)
(* The greatest id of a set                                                *)
(***************************************************************************)

\* What OS_ReadKeys computes: a bound of the ids of the file, 0 when there are none.
LEMMA LargestId ==
  ASSUME NEW S \in SUBSET Id
  PROVE  Largest(S) \in 0..MaxId /\ \A n \in S : n <= Largest(S)
<1>0. MaxId \in Nat /\ \A n \in S : n \in 1..MaxId
  BY EnrolmentAssumption DEF Id
<1>1. CASE S = {}
  BY <1>0, <1>1, SMTT(30), Z3T(30) DEF Largest
<1>2. CASE S # {}
  <2> DEFINE T == {MaxId - n : n \in S}
             R == OpToRel(<, Nat)
  <2>1. T \subseteq Nat /\ T # {}
    BY <1>0, <1>2, SMTT(30), Z3T(30)
  <2>2. PICK x \in T : \A y \in T : ~(<<y, x>> \in R)
    BY <2>1, WFMin, NatLessThanWellFounded, ZenonT(30)
  <2>3. \A y \in T : ~(y < x)
    BY <2>1, <2>2, ZenonT(30) DEF OpToRel
  <2>4. PICK n \in S : x = MaxId - n
    OBVIOUS
  <2>5. \A m \in S : m <= n
    BY <1>0, <2>3, <2>4, SMTT(30), Z3T(30)
  <2>6. Largest(S) \in S /\ \A m \in S : m <= Largest(S)
    BY <1>2, <2>5 DEF Largest
  <2> QED BY <1>0, <2>6, SMTT(30), Z3T(30)
<1> QED BY <1>1, <1>2

(***************************************************************************)
(* Sequences of entries                                                    *)
(***************************************************************************)

\* The fields of an entry have their types.
LEMMA EntryFields ==
  \A e \in Entry :
    e.id \in Id /\ e.name \in Name /\ e.ip \in Ip \union {Any} /\ e.key \in 1..MaxAdds
BY DEF Entry

\* The entries of a store, and their places.
LEMMA EntriesType ==
  ASSUME NEW s \in Seq(Entry)
  PROVE  /\ Entries(s) \subseteq Entry /\ Ids(Entries(s)) \subseteq Id
         /\ Len(s) \in Nat /\ DOMAIN s = 1..Len(s)
         /\ \A k \in 1..Len(s) : s[k] \in Entry
<1>1. Len(s) \in Nat /\ DOMAIN s = 1..Len(s)
  BY SMTT(30), Z3T(30)
<1>2. \A k \in 1..Len(s) : s[k] \in Entry
  BY <1>1, SMTT(30), Z3T(30)
<1>3. Entries(s) \subseteq Entry
  BY <1>1, <1>2 DEF Entries
<1>4. Ids(Entries(s)) \subseteq Id
  BY <1>3, EntryFields DEF Ids
<1> QED BY <1>1, <1>2, <1>3, <1>4

\* The place where OS_DeleteKey took an entry from.
LEMMA DeleteAtPlaces ==
  ASSUME NEW s \in Seq(Entry), NEW k \in DOMAIN s
  PROVE  /\ DeleteAt(s, k) \in Seq(Entry)
         /\ DOMAIN DeleteAt(s, k) = 1..(Len(s) - 1)
         /\ \A m \in 1..(Len(s) - 1) :
              /\ (IF m = k THEN Len(s) ELSE m) \in DOMAIN s \ {k}
              /\ DeleteAt(s, k)[m] = s[IF m = k THEN Len(s) ELSE m]
<1> DEFINE t == DeleteAt(s, k)
<1>1. /\ Len(s) \in Nat /\ DOMAIN s = 1..Len(s) /\ k \in 1..Len(s) /\ Len(s) - 1 \in Nat
      /\ \A m \in 1..Len(s) : s[m] \in Entry
  BY EntriesType, SMTT(30), Z3T(30)
<1>2. t = [m \in 1..(Len(s) - 1) |-> IF m = k THEN s[Len(s)] ELSE s[m]]
  BY DEF DeleteAt
<1>3. t \in [1..(Len(s) - 1) -> Entry]
  BY <1>1, <1>2, SMTT(30), Z3T(30)
<1>4. t \in Seq(Entry)
  BY <1>1, <1>3, SMTT(30), Z3T(30)
<1>5. \A m \in 1..(Len(s) - 1) : /\ (IF m = k THEN Len(s) ELSE m) \in 1..Len(s)
                                 /\ (IF m = k THEN Len(s) ELSE m) # k
  BY <1>1, SMTT(30), Z3T(30)
<1>6. \A m \in 1..(Len(s) - 1) : t[m] = s[IF m = k THEN Len(s) ELSE m]
  BY <1>2
<1> QED BY <1>1, <1>2, <1>4, <1>5, <1>6

\* OS_DeleteKey leaves the other entries, and no clash.
LEMMA DeleteAtSafe ==
  ASSUME NEW s \in Seq(Entry), NEW k \in DOMAIN s
  PROVE  /\ DeleteAt(s, k) \in Seq(Entry)
         /\ \A e \in Entries(DeleteAt(s, k)) : \E m \in DOMAIN s : m # k /\ e = s[m]
         /\ Entries(DeleteAt(s, k)) \subseteq Entries(s)
         /\ NoClash(s) => NoClash(DeleteAt(s, k))
<1> DEFINE t == DeleteAt(s, k)
           p(m) == IF m = k THEN Len(s) ELSE m
<1>1. /\ t \in Seq(Entry) /\ DOMAIN t = 1..(Len(s) - 1)
      /\ \A m \in DOMAIN t : p(m) \in DOMAIN s /\ p(m) # k /\ t[m] = s[p(m)]
  BY DeleteAtPlaces, SMTT(30), Z3T(30)
<1>2. \A m, q \in DOMAIN t : m # q => p(m) # p(q)
  BY <1>1, EntriesType, SMTT(30), Z3T(30)
<1> HIDE DEF p, t
<1>3. \A e \in Entries(t) : \E m \in DOMAIN s : m # k /\ e = s[m]
  BY <1>1 DEF Entries
<1>4. Entries(t) \subseteq Entries(s)
  BY <1>1 DEF Entries
<1>5. NoClash(s) => NoClash(t)
  BY <1>1, <1>2, SMTT(30), Z3T(30) DEF NoClash
<1> QED BY <1>1, <1>3, <1>4, <1>5 DEF t

\* An entry that clashes with none is appended.
LEMMA AppendSafe ==
  ASSUME NEW s \in Seq(Entry), NEW e \in Entry, NoClash(s),
         \A f \in Entries(s) : f.id # e.id /\ f.name # e.name /\ (e.ip = Any \/ f.ip # e.ip)
  PROVE  /\ Append(s, e) \in Seq(Entry)
         /\ Entries(Append(s, e)) = Entries(s) \union {e}
         /\ NoClash(Append(s, e))
<1>1. Len(s) \in Nat /\ DOMAIN s = 1..Len(s)
  BY EntriesType
<1>2. Append(s, e) \in Seq(Entry)
  BY SMTT(30), Z3T(30)
<1>3. DOMAIN Append(s, e) = 1..(Len(s) + 1)
  BY <1>1, <1>2, EntriesType, SMTT(30), Z3T(30)
<1>4. \A k \in 1..(Len(s) + 1) : Append(s, e)[k] = IF k = Len(s) + 1 THEN e ELSE s[k]
  BY <1>1, SMTT(30), Z3T(30)
<1>5. Entries(Append(s, e)) = Entries(s) \union {e}
  BY <1>1, <1>3, <1>4, SMTT(30), Z3T(30) DEF Entries
<1>6. \A k \in DOMAIN s : s[k] \in Entries(s)
  BY DEF Entries
<1>7. NoClash(Append(s, e))
  <2> SUFFICES ASSUME NEW k \in 1..(Len(s) + 1), NEW m \in 1..(Len(s) + 1), k # m
               PROVE  /\ Append(s, e)[k].id # Append(s, e)[m].id
                      /\ Append(s, e)[k].name # Append(s, e)[m].name
                      /\ Append(s, e)[k].ip = Any \/ Append(s, e)[k].ip # Append(s, e)[m].ip
    BY <1>3 DEF NoClash
  <2>1. CASE k = Len(s) + 1
    <3>1. m \in DOMAIN s /\ Append(s, e)[k] = e /\ Append(s, e)[m] = s[m]
      BY <1>1, <1>4, <2>1, SMTT(30), Z3T(30)
    <3> QED BY <1>6, <3>1
  <2>2. CASE m = Len(s) + 1
    <3>1. k \in DOMAIN s /\ Append(s, e)[m] = e /\ Append(s, e)[k] = s[k]
      BY <1>1, <1>4, <2>2, SMTT(30), Z3T(30)
    <3> QED BY <1>6, <3>1
  <2>3. CASE k # Len(s) + 1 /\ m # Len(s) + 1
    <3>1. k \in DOMAIN s /\ m \in DOMAIN s /\ Append(s, e)[m] = s[m] /\ Append(s, e)[k] = s[k]
      BY <1>1, <1>4, <2>3, SMTT(30), Z3T(30)
    <3> QED BY <3>1 DEF NoClash
  <2> QED BY <2>1, <2>2, <2>3
<1> QED BY <1>2, <1>5, <1>7

(***************************************************************************)
(* The checks of a request                                                 *)
(***************************************************************************)

\* The record a request works on.
RequestType == [entries : Seq(Entry), removed : SUBSET Id, removals : Seq(Entry), ok : BOOLEAN]

\* Request q is what is left of r: no entry is new, and the marks are of entries of r.
Left(q, r) ==
  /\ q \in RequestType /\ NoClash(q.entries)
  /\ Entries(q.entries) \subseteq Entries(r.entries)
  /\ q.removed \subseteq r.removed \union Ids(Entries(r.entries))
  /\ q.ok => r.ok

\* The places at hold at most one place, all of them of the entries s.
AtMost(at, s) == at \subseteq DOMAIN s /\ \A x, y \in at : x = y

\* A request q that is accepted holds only entries of r outside the places at.
Without(q, r, at) ==
  q.ok => \A e \in Entries(q.entries) :
            \E m \in DOMAIN r.entries : m \notin at /\ e = r.entries[m]

\* The record of a request has the fields it is made of.
LEMMA RequestRecord ==
  ASSUME NEW d \in Seq(Entry), NEW m \in SUBSET Id, NEW v \in Seq(Entry), NEW b \in BOOLEAN
  PROVE  LET q == [entries |-> d, removed |-> m, removals |-> v, ok |-> b] IN
         q \in RequestType /\ q.entries = d /\ q.removed = m /\ q.ok = b
BY DEF RequestType

\* What is left of what is left is left.
LEMMA LeftTransitive ==
  ASSUME NEW p, NEW q, NEW r, Left(p, q), Left(q, r)
  PROVE  Left(p, r)
BY DEF Left, Ids

\* A check that finds at most one entry removes it or rejects the request.
LEMMA ResolveSafe ==
  ASSUME NEW r \in RequestType, NoClash(r.entries), NEW at, AtMost(at, r.entries),
         NEW replaceable
  PROVE  /\ Left(Resolve(r, at, replaceable), r)
         /\ Without(Resolve(r, at, replaceable), r, at)
<1> DEFINE q == Resolve(r, at, replaceable)
<1>1. /\ r.entries \in Seq(Entry) /\ r.removed \subseteq Id
      /\ r.removals \in Seq(Entry) /\ r.ok \in BOOLEAN
  BY DEF RequestType
<1>2. CASE ~r.ok \/ at = {}
  <2>1. q = r
    BY <1>2, ZenonT(30) DEF Resolve
  <2>2. Left(r, r)
    BY DEF Left
  <2>3. Without(r, r, at)
    BY <1>2 DEF Without, Entries
  <2> QED BY <2>1, <2>2, <2>3
<1>3. CASE r.ok /\ at # {}
  <2> DEFINE k == CHOOSE x \in at : \A y \in at : x <= y
             e == r.entries[k]
  <2>1. PICK x \in at : at = {x}
    BY <1>3 DEF AtMost
  <2>2. x \in DOMAIN r.entries /\ x \in Nat
    BY <1>1, <2>1, EntriesType, SMTT(30), Z3T(30) DEF AtMost
  <2>3. \A y \in at : x <= y
    BY <2>1, <2>2, SMTT(30), Z3T(30)
  <2>4. k = x
    BY <2>1, <2>3
  <2>5. e \in Entry /\ e.id \in Id /\ e \in Entries(r.entries)
    BY <1>1, <2>2, <2>4, EntriesType, EntryFields, ZenonT(30) DEF Entries
  <2>6. CASE e.key \in replaceable /\ e.id \in Ids(db)
    <3>1. q = [entries |-> DeleteAt(r.entries, k), removed |-> Mark(r.removed, e.id, FALSE),
               removals |-> Append(r.removals, e), ok |-> TRUE]
      BY <1>3, <2>6 DEF Resolve
    <3>2. /\ DeleteAt(r.entries, k) \in Seq(Entry) /\ NoClash(DeleteAt(r.entries, k))
          /\ Entries(DeleteAt(r.entries, k)) \subseteq Entries(r.entries)
          /\ \A f \in Entries(DeleteAt(r.entries, k)) :
               \E m \in DOMAIN r.entries : m # k /\ f = r.entries[m]
      BY <1>1, <2>2, <2>4, DeleteAtSafe, ZenonT(30)
    <3>3. /\ Mark(r.removed, e.id, FALSE) \subseteq Id
          /\ Mark(r.removed, e.id, FALSE) \subseteq r.removed \union Ids(Entries(r.entries))
      BY <1>1, <2>5, ZenonT(30) DEF Mark, Ids
    <3>4. Append(r.removals, e) \in Seq(Entry)
      BY <1>1, <2>5, SMTT(30), Z3T(30)
    <3> HIDE DEF e, k
    <3>5. /\ q \in RequestType /\ q.entries = DeleteAt(r.entries, k)
          /\ q.removed = Mark(r.removed, e.id, FALSE)
      <4>1. TRUE \in BOOLEAN /\ Mark(r.removed, e.id, FALSE) \in SUBSET Id
        BY <3>3, ZenonT(30)
      <4> HIDE DEF q
      <4> QED BY <3>1, <3>2, <3>4, <4>1, RequestRecord, ZenonT(30)
    <3> HIDE DEF q
    <3>6. Left(q, r)
      BY <1>3, <3>2, <3>3, <3>5, ZenonT(30) DEF Left
    <3>7. Without(q, r, at)
      BY <2>1, <2>4, <3>2, <3>5 DEF Without
    <3> QED BY <3>6, <3>7 DEF q
  <2>7. CASE ~(e.key \in replaceable /\ e.id \in Ids(db))
    <3>1. q = [r EXCEPT !.ok = FALSE]
      BY <1>3, <2>7 DEF Resolve
    <3> HIDE DEF q
    <3>2. /\ q.entries = r.entries /\ q.removed = r.removed /\ q.ok = FALSE
          /\ q \in RequestType
      BY <3>1, ZenonT(30) DEF RequestType
    <3>3. Left(q, r)
      BY <3>2 DEF Left
    <3>4. Without(q, r, at)
      BY <3>2 DEF Without
    <3> QED BY <3>3, <3>4 DEF q
  <2> QED BY <2>6, <2>7
<1> QED BY <1>1, <1>2, <1>3

\* In a store without clashes each of the three checks finds at most one entry.
LEMMA AtMostOne ==
  ASSUME NEW s, NoClash(s)
  PROVE  /\ \A id : AtMost(SameId(s, id), s)
         /\ \A a : AtMost(SameIp(s, a), s)
         /\ \A n : AtMost(SameName(s, n), s)
BY DEF NoClash, SameId, SameIp, SameName, AtMost

\* What w_auth_validate_data accepts has neither the address nor the name in the store.
LEMMA ValidateSafe ==
  ASSUME NEW r \in RequestType, NoClash(r.entries), NEW n, NEW a, NEW replaceable
  PROVE  /\ Left(Validate(r, n, a, replaceable), r)
         /\ Validate(r, n, a, replaceable).ok =>
              \A e \in Entries(Validate(r, n, a, replaceable).entries) :
                e.name # n /\ (a = Any \/ e.ip # a)
<1> DEFINE p == Resolve(r, SameIp(r.entries, a), replaceable)
           h == NotHost(p, n)
           q == Resolve(h, SameName(h.entries, n), replaceable)
<1>1. Left(p, r) /\ Without(p, r, SameIp(r.entries, a))
  BY AtMostOne, ResolveSafe
<1>2. p.ok => \A e \in Entries(p.entries) : a = Any \/ e.ip # a
  BY <1>1 DEF SameIp, Without
<1> HIDE DEF p
<1>3. p \in RequestType /\ NoClash(p.entries)
  BY <1>1 DEF Left
<1>4. h \in RequestType /\ h.entries = p.entries /\ h.removed = p.removed /\ (h.ok => p.ok)
  BY <1>3, ZenonT(30) DEF NotHost, RequestType
<1>5. Left(h, p)
  BY <1>3, <1>4 DEF Left
<1> HIDE DEF h
<1>6. Left(q, h) /\ Without(q, h, SameName(h.entries, n))
  BY <1>3, <1>4, ResolveSafe, AtMostOne
<1>7. q.ok => \A e \in Entries(q.entries) : e.name # n
  BY <1>6 DEF SameName, Without
<1>8. Validate(r, n, a, replaceable) = q
  BY DEF Validate, p, h
<1> HIDE DEF q
<1>9. Left(q, r)
  BY <1>1, <1>5, <1>6, LeftTransitive
<1>10. q.ok => p.ok /\ Entries(q.entries) \subseteq Entries(p.entries)
  BY <1>4, <1>6 DEF Left
<1> QED BY <1>2, <1>7, <1>8, <1>9, <1>10

(***************************************************************************)
(* A store that is safe under a counter                                    *)
(***************************************************************************)

\* No two entries clash, and neither an entry nor a mark has an id above the counter c.
StoreSafe(s, marks, c) ==
  /\ s \in Seq(Entry) /\ marks \subseteq Id /\ c \in 0..MaxId
  /\ NoClash(s)
  /\ \A id \in Ids(Entries(s)) \union marks : id <= c

\* It stays safe when the counter grows.
LEMMA CounterGrows ==
  ASSUME NEW s, NEW marks, NEW c, StoreSafe(s, marks, c), NEW d \in 0..MaxId, c <= d
  PROVE  StoreSafe(s, marks, d)
<1>0. Ids(Entries(s)) \subseteq Id /\ marks \subseteq Id
  BY EntriesType DEF StoreSafe
<1>4. \A i \in Id : i \in Int
  BY EnrolmentAssumption, SMTT(30), Z3T(30) DEF Id
<1>1. \A id \in Ids(Entries(s)) \union marks : id \in Int
  BY <1>0, <1>4
<1>2. c \in Int /\ d \in Int
  BY SMTT(30), Z3T(30) DEF StoreSafe
<1>3. \A id \in Ids(Entries(s)) \union marks : id <= d
  BY <1>1, <1>2, SMTT(30), Z3T(30) DEF StoreSafe
<1> QED BY <1>3 DEF StoreSafe

\* The empty store is safe.
LEMMA EmptySafe ==
  ASSUME NEW c \in 0..MaxId
  PROVE  StoreSafe(<<>>, {}, c)
<1>1. DOMAIN <<>> = {} /\ <<>> \in Seq(Entry)
  BY SMTT(30), Z3T(30)
<1>2. NoClash(<<>>)
  BY <1>1 DEF NoClash
<1>3. Ids(Entries(<<>>)) = {}
  BY <1>1 DEF Ids, Entries
<1> QED BY <1>1, <1>2, <1>3 DEF StoreSafe

\* An entry that OS_DeleteKey removes, with or without a mark, leaves a safe store.
LEMMA DeleteSafe ==
  ASSUME NEW s, NEW marks, NEW c, StoreSafe(s, marks, c), NEW k \in DOMAIN s, NEW purge
  PROVE  /\ StoreSafe(DeleteAt(s, k), marks, c)
         /\ StoreSafe(DeleteAt(s, k), Mark(marks, s[k].id, purge), c)
<1>1. s \in Seq(Entry) /\ marks \subseteq Id /\ c \in 0..MaxId /\ NoClash(s)
  BY DEF StoreSafe
<1>2. /\ DeleteAt(s, k) \in Seq(Entry) /\ NoClash(DeleteAt(s, k))
      /\ Entries(DeleteAt(s, k)) \subseteq Entries(s)
  BY <1>1, DeleteAtSafe
<1>3. s[k] \in Entries(s) /\ s[k].id \in Id /\ s[k].id \in Ids(Entries(s))
  BY <1>1, EntriesType, EntryFields DEF Entries, Ids
<1>4. Ids(Entries(DeleteAt(s, k))) \subseteq Ids(Entries(s))
  BY <1>2 DEF Ids
<1>5. /\ Mark(marks, s[k].id, purge) \subseteq Id
      /\ Mark(marks, s[k].id, purge) \subseteq marks \union Ids(Entries(s))
  BY <1>1, <1>3 DEF Mark
<1>6. \A id \in Ids(Entries(s)) \union marks : id <= c
  BY DEF StoreSafe
<1> QED BY <1>1, <1>2, <1>4, <1>5, <1>6 DEF StoreSafe

\* What is left of a request on a safe store is safe.
LEMMA LeftSafe ==
  ASSUME NEW r, NEW q, Left(q, r), NEW c, StoreSafe(r.entries, r.removed, c)
  PROVE  /\ StoreSafe(q.entries, q.removed, c)
         /\ q.removals \in Seq(Entry)
<1>1. q.entries \in Seq(Entry) /\ q.removed \subseteq Id /\ q.removals \in Seq(Entry)
  BY DEF Left, RequestType
<1>2. Ids(Entries(q.entries)) \subseteq Ids(Entries(r.entries))
  BY DEF Left, Ids
<1>3. \A id \in Ids(Entries(q.entries)) \union q.removed : id <= c
  BY <1>2 DEF Left, StoreSafe
<1>4. c \in 0..MaxId /\ NoClash(q.entries)
  BY DEF Left, StoreSafe
<1> QED BY <1>1, <1>3, <1>4 DEF StoreSafe

\* OS_AddNewAgent keeps a store safe when nothing in it clashes with the new entry.
LEMMA AddSafe ==
  ASSUME NEW s, NEW marks, NEW c, StoreSafe(s, marks, c), NEW d \in 0..MaxId, c <= d,
         NEW e \in Entry, e.id <= d,
         \A f \in Entries(s) : f.id # e.id /\ f.name # e.name /\ (e.ip = Any \/ f.ip # e.ip)
  PROVE  StoreSafe(Append(s, e), marks, d)
<1>1. StoreSafe(s, marks, d)
  BY CounterGrows
<1>2. s \in Seq(Entry) /\ marks \subseteq Id /\ NoClash(s)
  BY <1>1 DEF StoreSafe
<1>3. /\ Append(s, e) \in Seq(Entry) /\ NoClash(Append(s, e))
      /\ Entries(Append(s, e)) = Entries(s) \union {e}
  BY <1>2, AppendSafe
<1>4. Ids(Entries(Append(s, e))) = Ids(Entries(s)) \union {e.id}
  BY <1>3 DEF Ids
<1>5. \A id \in Ids(Entries(s)) \union marks : id <= d
  BY <1>1 DEF StoreSafe
<1> QED BY <1>2, <1>3, <1>4, <1>5, ZenonT(30) DEF StoreSafe

(***************************************************************************)
(* The invariant                                                           *)
(***************************************************************************)

\* The types, by part.
QueueType == queue_insert \in Seq(Entry) /\ queue_remove \in Seq(Entry) /\ write_pending \in BOOLEAN

DispatcherType == dpc \in {"idle", "reply"} /\ new \in Entry \union {None}

WriterType ==
  /\ wpc \in {"wait", "keys", "insert", "ended"} /\ copy \in Stored
  /\ copy_insert \in Seq(Entry) /\ copy_remove \in Seq(Entry) /\ saved \in BOOLEAN

SyncType ==
  /\ spc \in {"off", "keys", "rows", "update"} /\ skeys \in Seq(Entry)
  /\ to_insert \subseteq Entry /\ to_remove \subseteq Id

RestType ==
  /\ features \in Options /\ client_keys \in Stored /\ db \subseteq Entry /\ running \in BOOLEAN
  /\ adds \in 0..MaxAdds /\ faults \in 0..MaxFaults /\ quiet \in BOOLEAN

\* The store, the writer's copy of it and the file: what the writer writes later was
\* copied from a store that was safe, and the counter has only grown since.
StoresSafe ==
  /\ StoreSafe(keyentries, removed_keys, id_counter)
  /\ StoreSafe(copy.entries, copy.removed, id_counter)
  /\ StoreSafe(client_keys.entries, client_keys.removed, id_counter)

\* The inductive invariant.
IInv ==
  /\ QueueType /\ DispatcherType /\ WriterType /\ SyncType /\ RestType
  /\ StoresSafe

\* A part whose variables do not change keeps its type.
LEMMA TypesKept ==
  ASSUME IInv
  PROVE  /\ UNCHANGED queues => QueueType'
         /\ UNCHANGED dispatcher => DispatcherType'
         /\ UNCHANGED writer => WriterType'
         /\ UNCHANGED sync => SyncType'
         /\ UNCHANGED <<features, client_keys, db, running, adds, faults>> /\ quiet' \in BOOLEAN
              => RestType'
<1>1. UNCHANGED queues => QueueType'
  BY DEF IInv, QueueType, queues
<1>2. UNCHANGED dispatcher => DispatcherType'
  BY DEF IInv, DispatcherType, dispatcher
<1>3. UNCHANGED writer => WriterType'
  BY DEF IInv, WriterType, writer
<1>4. UNCHANGED sync => SyncType'
  BY DEF IInv, SyncType, sync
<1>5. UNCHANGED <<features, client_keys, db, running, adds, faults>> /\ quiet' \in BOOLEAN => RestType'
  BY DEF IInv, RestType
<1> QED BY <1>1, <1>2, <1>3, <1>4, <1>5

\* Nothing in the store s has the id, if one is asked for, the name or the address.
Clear(s, id, n, a) ==
  \A e \in Entries(s) : (id # None => e.id # id) /\ e.name # n /\ (a = Any \/ e.ip # a)

\* A request starts from the store.
LEMMA RequestStarts ==
  ASSUME IInv
  PROVE  /\ Request \in RequestType /\ NoClash(Request.entries)
         /\ Request.entries = keyentries /\ Request.removed = removed_keys
         /\ StoreSafe(Request.entries, Request.removed, id_counter)
<1>1. keyentries \in Seq(Entry) /\ removed_keys \in SUBSET Id /\ queue_remove \in Seq(Entry)
  BY DEF IInv, QueueType, StoresSafe, StoreSafe
<1>2. Request \in RequestType /\ Request.entries = keyentries /\ Request.removed = removed_keys
  BY <1>1, RequestRecord, ZenonT(30) DEF Request
<1> QED BY <1>2 DEF IInv, StoresSafe, StoreSafe

\* What w_auth_validate_data leaves of a remote request, and what it has made sure of.
LEMMA RemoteSafe ==
  ASSUME IInv, NEW n, NEW a, NEW f
  PROVE  LET r == Validate(Request, n, a, f) IN
         /\ StoreSafe(r.entries, r.removed, id_counter) /\ r.removals \in Seq(Entry)
         /\ r.ok => \A e \in Entries(r.entries) : e.name # n /\ (a = Any \/ e.ip # a)
<1> DEFINE r == Validate(Request, n, a, f)
<1>1. /\ Left(r, Request)
      /\ r.ok => \A e \in Entries(r.entries) : e.name # n /\ (a = Any \/ e.ip # a)
  BY RequestStarts, ValidateSafe, SMTT(30), Z3T(30)
<1> HIDE DEF r
<1>2. StoreSafe(r.entries, r.removed, id_counter) /\ r.removals \in Seq(Entry)
  BY <1>1, RequestStarts, LeftSafe
<1> QED BY <1>1, <1>2 DEF r

\* The same of local_add, which also looks for the id that is asked for.
LEMMA LocalSafe ==
  ASSUME IInv, NEW id, NEW n, NEW a, NEW f
  PROVE  LET r == LocalRequest(id, n, a, f) IN
         /\ StoreSafe(r.entries, r.removed, id_counter) /\ r.removals \in Seq(Entry)
         /\ r.ok => \A e \in Entries(r.entries) :
                      e.id # id /\ e.name # n /\ (a = Any \/ e.ip # a)
<1> DEFINE p == Resolve(Request, SameId(keyentries, id), f)
           r == Validate(p, n, a, f)
<1>1. Left(p, Request) /\ Without(p, Request, SameId(keyentries, id))
  BY RequestStarts, AtMostOne, ResolveSafe
<1>2. p.ok => \A e \in Entries(p.entries) : e.id # id
  BY <1>1, RequestStarts DEF SameId, Without
<1> HIDE DEF p
<1>3. p \in RequestType /\ NoClash(p.entries)
  BY <1>1 DEF Left
<1>4. /\ Left(r, p)
      /\ r.ok => \A e \in Entries(r.entries) : e.name # n /\ (a = Any \/ e.ip # a)
  BY <1>3, ValidateSafe
<1>5. LocalRequest(id, n, a, f) = r
  BY DEF LocalRequest, p
<1> HIDE DEF r
<1>6. r.ok => p.ok /\ Entries(r.entries) \subseteq Entries(p.entries)
  BY <1>4 DEF Left
<1>7. StoreSafe(r.entries, r.removed, id_counter) /\ r.removals \in Seq(Entry)
  BY <1>1, <1>4, RequestStarts, LeftTransitive, LeftSafe
<1> QED BY <1>2, <1>4, <1>5, <1>6, <1>7, ZenonT(30)

\* The entry that OS_AddNewAgent makes, under the bounds.
LEMMA NewEntryType ==
  ASSUME IInv, NEW id \in Id \union {None}, NEW n \in Name, NEW a \in Ip \union {Any},
         adds < MaxAdds, id = None => id_counter < MaxId
  PROVE  LET e == NewEntry(id, n, a) IN
         /\ e \in Entry /\ e.name = n /\ e.ip = a
         /\ e.id = IF id = None THEN id_counter + 1 ELSE id
         /\ NextCounter(id) \in 0..MaxId /\ id_counter <= NextCounter(id)
         /\ e.id <= NextCounter(id)
         /\ adds + 1 \in 0..MaxAdds
<1>1. MaxId \in Nat /\ MaxAdds \in Nat /\ id_counter \in 0..MaxId /\ adds \in 0..MaxAdds
  BY EnrolmentAssumption DEF IInv, StoresSafe, StoreSafe, RestType
<1>2. adds + 1 \in 1..MaxAdds
  BY <1>1, SMTT(30), Z3T(30)
<1> DEFINE i == IF id = None THEN id_counter + 1 ELSE id
<1>3. /\ i \in Id /\ i <= NextCounter(id)
      /\ NextCounter(id) \in 0..MaxId /\ id_counter <= NextCounter(id)
  BY <1>1, SMTT(30), Z3T(30) DEF Id, NextCounter
<1> HIDE DEF i
<1>4. [id |-> i, name |-> n, ip |-> a, key |-> adds + 1] \in Entry
  BY <1>2, <1>3 DEF Entry
<1>5. NewEntry(id, n, a) = [id |-> i, name |-> n, ip |-> a, key |-> adds + 1]
  BY DEF NewEntry, i
<1> QED BY <1>2, <1>3, <1>4, <1>5, SMTT(30), Z3T(30) DEF i

\* The key added to what is left of a request gives a safe store under the new counter,
\* which the copy and the file are under too.
LEMMA AddedSafe ==
  ASSUME IInv, NEW id \in Id \union {None}, NEW n \in Name, NEW a \in Ip \union {Any},
         adds < MaxAdds, id = None => id_counter < MaxId,
         NEW s, NEW marks, StoreSafe(s, marks, id_counter), Clear(s, id, n, a)
  PROVE  /\ StoreSafe(Append(s, NewEntry(id, n, a)), marks, NextCounter(id))
         /\ StoreSafe(copy.entries, copy.removed, NextCounter(id))
         /\ StoreSafe(client_keys.entries, client_keys.removed, NextCounter(id))
<1> DEFINE e == NewEntry(id, n, a)
           c == NextCounter(id)
<1>1. /\ e \in Entry /\ e.name = n /\ e.ip = a
      /\ e.id = IF id = None THEN id_counter + 1 ELSE id
      /\ c \in 0..MaxId /\ id_counter <= c /\ e.id <= c
  BY NewEntryType, SMTT(30), Z3T(30)
<1> HIDE DEF e, c
<1>2. id_counter \in Nat /\ \A g \in Entries(s) : g.id \in Int /\ g.id <= id_counter
  <2>1. s \in Seq(Entry) /\ id_counter \in 0..MaxId
    BY DEF StoreSafe
  <2>2. Ids(Entries(s)) \subseteq Id /\ \A g \in Entries(s) : g.id \in Ids(Entries(s))
    BY <2>1, EntriesType DEF Ids
  <2>3. \A g \in Entries(s) : g.id <= id_counter
    BY <2>2 DEF StoreSafe
  <2>4. id_counter \in Nat
    BY <2>1, EnrolmentAssumption, SMTT(30), Z3T(30)
  <2>5. \A g \in Entries(s) : g.id \in Int
    BY <2>2, SMTT(30), Z3T(30) DEF Id
  <2> QED BY <2>3, <2>4, <2>5
<1>3. \A g \in Entries(s) : g.id # e.id
  BY <1>1, <1>2, SMTT(30), Z3T(30) DEF Clear
<1>4. \A g \in Entries(s) : g.name # e.name /\ (e.ip = Any \/ g.ip # e.ip)
  BY <1>1 DEF Clear
<1>5. StoreSafe(Append(s, e), marks, c)
  BY <1>1, <1>3, <1>4, AddSafe
<1>6. /\ StoreSafe(copy.entries, copy.removed, c)
      /\ StoreSafe(client_keys.entries, client_keys.removed, c)
  BY <1>1, CounterGrows DEF IInv, StoresSafe
<1> QED BY <1>5, <1>6 DEF e, c

(***************************************************************************)
(* Every step keeps the invariant                                          *)
(***************************************************************************)

\* The empty file and the empty store are safe.
LEMMA InitIInv == Init => IInv
<1> SUFFICES ASSUME Init PROVE IInv
  OBVIOUS
<1>1. MaxId \in Nat /\ MaxAdds \in Nat /\ MaxFaults \in Nat
  BY EnrolmentAssumption
<1>2. NoKeys \in Stored /\ NoKeys.entries = <<>> /\ NoKeys.removed = {}
  BY SMTT(30), Z3T(30) DEF NoKeys, Stored
<1>3. StoreSafe(<<>>, {}, 0)
  BY <1>1, EmptySafe, SMTT(30), Z3T(30)
<1>4. StoresSafe
  BY <1>2, <1>3 DEF Init, StoresSafe
<1>7. QueueType
  <2>1. queue_insert = <<>> /\ queue_remove = <<>> /\ write_pending = FALSE
    BY DEF Init
  <2>2. write_pending \in BOOLEAN
    BY <2>1, ZenonT(30)
  <2>3. queue_insert \in Seq(Entry) /\ queue_remove \in Seq(Entry)
    BY <2>1, SMTT(30), Z3T(30)
  <2> QED BY <2>2, <2>3 DEF QueueType
<1>8. DispatcherType
  BY DEF Init, DispatcherType
<1>5. SyncType
  BY SMTT(30), Z3T(30) DEF Init, SyncType
<1>6. WriterType /\ RestType
  BY <1>1, <1>2, SMTT(30), Z3T(30) DEF Init, WriterType, RestType
<1> QED BY <1>4, <1>5, <1>6, <1>7, <1>8 DEF IInv

\* A remote request, accepted or rejected.
LEMMA RemoteStep ==
  ASSUME IInv, NEW n \in Name, NEW a \in Ip \union {Any}, NEW f,
         RemoteAdd(n, a, f) \/ RemoteReject(n, a, f)
  PROVE  IInv'
<1> DEFINE r == Validate(Request, n, a, f)
<1>0. /\ StoreSafe(r.entries, r.removed, id_counter) /\ r.removals \in Seq(Entry)
      /\ r.ok => \A e \in Entries(r.entries) : e.name # n /\ (a = Any \/ e.ip # a)
  BY RemoteSafe
<1>1. CASE RemoteAdd(n, a, f)
  <2>1. /\ r.ok /\ adds < MaxAdds /\ id_counter < MaxId
        /\ keyentries' = Append(r.entries, NewEntry(None, n, a)) /\ removed_keys' = r.removed
        /\ id_counter' = NextCounter(None) /\ queue_remove' = r.removals
        /\ new' = NewEntry(None, n, a) /\ dpc' = "reply" /\ adds' = adds + 1 /\ quiet' = FALSE
        /\ UNCHANGED <<features, queue_insert, write_pending, wpc, copy, copy_insert,
                       copy_remove, saved, client_keys, db, running, spc, skeys, to_insert,
                       to_remove, faults>>
    BY <1>1 DEF RemoteAdd, writer, sync
  <2> HIDE DEF r
  <2>2. adds < MaxAdds /\ id_counter < MaxId /\ Clear(r.entries, None, n, a)
    BY <1>0, <2>1, ZenonT(30) DEF Clear
  <2>3. /\ StoreSafe(Append(r.entries, NewEntry(None, n, a)), r.removed, NextCounter(None))
        /\ StoreSafe(copy.entries, copy.removed, NextCounter(None))
        /\ StoreSafe(client_keys.entries, client_keys.removed, NextCounter(None))
    BY <1>0, <2>2, AddedSafe, ZenonT(30)
  <2>4. NewEntry(None, n, a) \in Entry /\ adds + 1 \in 0..MaxAdds
    BY <2>2, NewEntryType, ZenonT(30)
  <2>5. StoresSafe'
    BY <2>1, <2>3, ZenonT(30) DEF StoresSafe
  <2>6. WriterType' /\ SyncType'
    BY <1>1, TypesKept DEF RemoteAdd
  <2>7. QueueType'
    BY <1>0, <2>1 DEF IInv, QueueType
  <2>8. DispatcherType'
    BY <2>1, <2>4 DEF DispatcherType
  <2>9. RestType'
    BY <2>1, <2>4, ZenonT(30) DEF IInv, RestType
  <2> QED BY <2>5, <2>6, <2>7, <2>8, <2>9 DEF IInv
<1>2. CASE RemoteReject(n, a, f)
  <2>1. /\ keyentries' = r.entries /\ removed_keys' = r.removed /\ queue_remove' = r.removals
        /\ quiet' = FALSE
        /\ UNCHANGED <<features, id_counter, queue_insert, write_pending, dpc, new, wpc, copy,
                       copy_insert, copy_remove, saved, client_keys, db, running, spc, skeys,
                       to_insert, to_remove, adds, faults>>
    BY <1>2 DEF RemoteReject, dispatcher, writer, sync
  <2> HIDE DEF r
  <2>2. StoresSafe'
    BY <1>0, <2>1, ZenonT(30) DEF IInv, StoresSafe
  <2>3. quiet' \in BOOLEAN /\ UNCHANGED <<features, client_keys, db, running, adds, faults>>
    BY <2>1, ZenonT(30)
  <2>4. DispatcherType' /\ WriterType' /\ SyncType' /\ RestType'
    BY <1>2, <2>3, TypesKept DEF RemoteReject
  <2>5. QueueType'
    BY <1>0, <2>1 DEF IInv, QueueType
  <2> QED BY <2>2, <2>4, <2>5 DEF IInv
<1> QED BY <1>1, <1>2

\* A local request, accepted or rejected, with an id of its own or without.
LEMMA LocalStep ==
  ASSUME IInv, NEW id \in Id \union {None}, NEW n \in Name, NEW a \in Ip \union {Any}, NEW f,
         local_add(id, n, a, f) \/ local_add_reject(id, n, a, f)
  PROVE  IInv'
<1> DEFINE r == LocalRequest(id, n, a, f)
<1>0. /\ StoreSafe(r.entries, r.removed, id_counter) /\ r.removals \in Seq(Entry)
      /\ r.ok => \A e \in Entries(r.entries) : e.id # id /\ e.name # n /\ (a = Any \/ e.ip # a)
  BY LocalSafe
<1>1. CASE local_add(id, n, a, f)
  <2>1. /\ r.ok /\ adds < MaxAdds /\ (id = None => id_counter < MaxId)
        /\ keyentries' = Append(r.entries, NewEntry(id, n, a)) /\ removed_keys' = r.removed
        /\ id_counter' = NextCounter(id) /\ queue_remove' = r.removals
        /\ queue_insert' = Append(queue_insert, NewEntry(id, n, a)) /\ write_pending' = TRUE
        /\ adds' = adds + 1 /\ quiet' = FALSE
        /\ UNCHANGED <<features, dpc, new, wpc, copy, copy_insert, copy_remove, saved,
                       client_keys, db, running, spc, skeys, to_insert, to_remove, faults>>
    BY <1>1 DEF local_add, dispatcher, writer, sync
  <2> HIDE DEF r
  <2>2. adds < MaxAdds /\ (id = None => id_counter < MaxId) /\ Clear(r.entries, id, n, a)
    BY <1>0, <2>1, ZenonT(30) DEF Clear
  <2>3. /\ StoreSafe(Append(r.entries, NewEntry(id, n, a)), r.removed, NextCounter(id))
        /\ StoreSafe(copy.entries, copy.removed, NextCounter(id))
        /\ StoreSafe(client_keys.entries, client_keys.removed, NextCounter(id))
    BY <1>0, <2>2, AddedSafe
  <2>4. NewEntry(id, n, a) \in Entry /\ adds + 1 \in 0..MaxAdds
    BY <2>2, NewEntryType
  <2>5. Append(queue_insert, NewEntry(id, n, a)) \in Seq(Entry)
    BY <2>4, SMTT(30), Z3T(30) DEF IInv, QueueType
  <2>6. StoresSafe'
    BY <2>1, <2>3, ZenonT(30) DEF StoresSafe
  <2>7. DispatcherType' /\ WriterType' /\ SyncType'
    BY <1>1, TypesKept DEF local_add
  <2>8. QueueType'
    BY <1>0, <2>1, <2>5, ZenonT(30) DEF QueueType
  <2>9. RestType'
    BY <2>1, <2>4, ZenonT(30) DEF IInv, RestType
  <2> QED BY <2>6, <2>7, <2>8, <2>9, ZenonT(30) DEF IInv
<1>2. CASE local_add_reject(id, n, a, f)
  <2>1. /\ keyentries' = r.entries /\ removed_keys' = r.removed /\ queue_remove' = r.removals
        /\ quiet' = FALSE
        /\ UNCHANGED <<features, id_counter, queue_insert, write_pending, dpc, new, wpc, copy,
                       copy_insert, copy_remove, saved, client_keys, db, running, spc, skeys,
                       to_insert, to_remove, adds, faults>>
    BY <1>2 DEF local_add_reject, dispatcher, writer, sync
  <2> HIDE DEF r
  <2>2. StoresSafe'
    BY <1>0, <2>1, ZenonT(30) DEF IInv, StoresSafe
  <2>3. quiet' \in BOOLEAN /\ UNCHANGED <<features, client_keys, db, running, adds, faults>>
    BY <2>1, ZenonT(30)
  <2>4. DispatcherType' /\ WriterType' /\ SyncType' /\ RestType'
    BY <1>2, <2>3, TypesKept DEF local_add_reject
  <2>5. QueueType'
    BY <1>0, <2>1 DEF IInv, QueueType
  <2> QED BY <2>2, <2>4, <2>5 DEF IInv
<1> QED BY <1>1, <1>2

\* The second critical section of the dispatcher, in a store that is not empty.
LEMMA ReplyStep ==
  ASSUME IInv, ReplyOk \/ ReplyFail
  PROVE  IInv'
<1>0. /\ keyentries \in Seq(Entry) /\ keyentries # <<>> /\ queue_insert \in Seq(Entry)
  BY ZenonT(30) DEF ReplyOk, ReplyFail, IInv, StoresSafe, StoreSafe, QueueType
<1>1. Len(keyentries) \in DOMAIN keyentries /\ keyentries[Len(keyentries)] \in Entry
  <2>1. Len(keyentries) \in Nat /\ Len(keyentries) # 0
    BY <1>0, SMTT(30), Z3T(30)
  <2>2. Len(keyentries) \in 1..Len(keyentries)
    BY <2>1, SMTT(30), Z3T(30)
  <2> QED BY <1>0, <2>2, EntriesType
<1>2. CASE ReplyOk
  <2>1. /\ dpc' = "idle" /\ new' = None /\ write_pending' = TRUE /\ quiet' = FALSE
        /\ queue_insert' = Append(queue_insert, keyentries[Len(keyentries)])
        /\ UNCHANGED <<features, keyentries, removed_keys, id_counter, queue_remove, wpc, copy,
                       copy_insert, copy_remove, saved, client_keys, db, running, spc, skeys,
                       to_insert, to_remove, adds, faults>>
    BY <1>2 DEF ReplyOk, Replied, store, writer, sync
  <2>2. Append(queue_insert, keyentries[Len(keyentries)]) \in Seq(Entry)
    BY <1>0, <1>1, SMTT(30), Z3T(30)
  <2>3. StoresSafe'
    BY <2>1, ZenonT(30) DEF IInv, StoresSafe
  <2>4. quiet' \in BOOLEAN /\ UNCHANGED <<features, client_keys, db, running, adds, faults>>
    BY <2>1, ZenonT(30)
  <2>5. WriterType' /\ SyncType' /\ RestType'
    BY <1>2, <2>4, TypesKept DEF ReplyOk
  <2>6. QueueType'
    BY <2>1, <2>2 DEF IInv, QueueType
  <2>7. DispatcherType'
    BY <2>1 DEF DispatcherType
  <2> QED BY <2>3, <2>5, <2>6, <2>7, ZenonT(30) DEF IInv
<1>3. CASE ReplyFail
  <2>1. /\ dpc' = "idle" /\ new' = None /\ quiet' = FALSE
        /\ keyentries' = DeleteAt(keyentries, Len(keyentries))
        /\ UNCHANGED <<features, removed_keys, id_counter, queue_insert, queue_remove,
                       write_pending, wpc, copy, copy_insert, copy_remove, saved, client_keys,
                       db, running, spc, skeys, to_insert, to_remove, adds, faults>>
    BY <1>3 DEF ReplyFail, Replied, queues, writer, sync
  <2>2. StoreSafe(DeleteAt(keyentries, Len(keyentries)), removed_keys, id_counter)
    BY <1>1, DeleteSafe, ZenonT(30) DEF IInv, StoresSafe
  <2>3. StoresSafe'
    BY <2>1, <2>2, ZenonT(30) DEF IInv, StoresSafe
  <2>4. quiet' \in BOOLEAN /\ UNCHANGED <<features, client_keys, db, running, adds, faults>>
    BY <2>1, ZenonT(30)
  <2>5. QueueType' /\ WriterType' /\ SyncType' /\ RestType'
    BY <1>3, <2>4, TypesKept DEF ReplyFail
  <2>6. DispatcherType'
    BY <2>1 DEF DispatcherType
  <2> QED BY <2>3, <2>5, <2>6 DEF IInv
<1> QED BY <1>2, <1>3, ZenonT(30)

\* A removal by the local server.
LEMMA RemoveStep ==
  ASSUME IInv, NEW k \in DOMAIN keyentries, NEW purge, local_remove(k, purge)
  PROVE  IInv'
<1>1. /\ keyentries' = DeleteAt(keyentries, k)
      /\ removed_keys' = Mark(removed_keys, keyentries[k].id, purge)
      /\ queue_remove' = Append(queue_remove, keyentries[k])
      /\ write_pending' = TRUE /\ quiet' = FALSE
      /\ UNCHANGED <<features, id_counter, queue_insert, dpc, new, wpc, copy, copy_insert,
                     copy_remove, saved, client_keys, db, running, spc, skeys, to_insert,
                     to_remove, adds, faults>>
  BY ZenonT(30) DEF local_remove, dispatcher, writer, sync
<1>2. StoreSafe(DeleteAt(keyentries, k), Mark(removed_keys, keyentries[k].id, purge), id_counter)
  BY DeleteSafe DEF IInv, StoresSafe
<1>3. StoresSafe'
  BY <1>1, <1>2, ZenonT(30) DEF IInv, StoresSafe
<1>4. keyentries[k] \in Entry
  BY EntriesType DEF IInv, StoresSafe, StoreSafe
<1>5. Append(queue_remove, keyentries[k]) \in Seq(Entry)
  BY <1>4, SMTT(30), Z3T(30) DEF IInv, QueueType
<1>6. quiet' \in BOOLEAN /\ UNCHANGED <<features, client_keys, db, running, adds, faults>>
  BY <1>1, ZenonT(30)
<1>7. DispatcherType' /\ WriterType' /\ SyncType' /\ RestType'
  BY <1>6, TypesKept DEF local_remove
<1>8. QueueType'
  BY <1>1, <1>5 DEF IInv, QueueType
<1> QED BY <1>3, <1>7, <1>8 DEF IInv

\* The critical section of the writer.
LEMMA CopyStep ==
  ASSUME IInv, WriterCopy
  PROVE  IInv'
<1>1. /\ copy' = [entries |-> keyentries, removed |-> removed_keys]
      /\ copy_insert' = queue_insert /\ copy_remove' = queue_remove
      /\ queue_insert' = <<>> /\ queue_remove' = <<>> /\ write_pending' = FALSE
      /\ wpc' = "keys"
      /\ UNCHANGED <<features, keyentries, removed_keys, id_counter, dpc, new, saved,
                     client_keys, db, running, spc, skeys, to_insert, to_remove, adds, faults,
                     quiet>>
  BY DEF WriterCopy, store, dispatcher, sync
<1>2. keyentries \in Seq(Entry) /\ removed_keys \subseteq Id
  BY DEF IInv, StoresSafe, StoreSafe
<1>3. copy' \in Stored /\ copy'.entries = keyentries /\ copy'.removed = removed_keys
  BY <1>1, <1>2, ZenonT(30) DEF Stored
<1>4. StoresSafe'
  BY <1>1, <1>3 DEF IInv, StoresSafe
<1>5. QueueType'
  <2>1. queue_insert' = <<>> /\ queue_remove' = <<>> /\ write_pending' = FALSE
    BY <1>1
  <2>2. write_pending' \in BOOLEAN
    BY <2>1, ZenonT(30)
  <2>3. queue_insert' \in Seq(Entry) /\ queue_remove' \in Seq(Entry)
    BY <2>1, SMTT(30), Z3T(30)
  <2> QED BY <2>2, <2>3 DEF QueueType
<1>6. quiet' \in BOOLEAN /\ UNCHANGED <<features, client_keys, db, running, adds, faults>>
  BY <1>1 DEF IInv, RestType
<1>7. DispatcherType' /\ SyncType' /\ RestType'
  BY <1>6, TypesKept DEF WriterCopy
<1>8. WriterType'
  BY <1>1, <1>3 DEF IInv, WriterType, QueueType
<1> QED BY <1>4, <1>5, <1>7, <1>8 DEF IInv

\* The file is replaced by the writer's copy, or kept.
LEMMA WriteStep ==
  ASSUME IInv, OS_WriteKeys
  PROVE  IInv'
<1>1. /\ \/ client_keys' = copy /\ saved' = TRUE /\ faults' = faults
         \/ /\ faults < MaxFaults /\ faults' = faults + 1
            /\ saved' = FALSE /\ client_keys' = client_keys
      /\ copy' = NoKeys /\ wpc' = "insert"
      /\ UNCHANGED <<features, keyentries, removed_keys, id_counter, queue_insert, queue_remove,
                     write_pending, dpc, new, copy_insert, copy_remove, db, running, spc, skeys,
                     to_insert, to_remove, adds, quiet>>
  BY ZenonT(30) DEF OS_WriteKeys, store, queues, dispatcher, sync
<1>2. MaxFaults \in Nat /\ faults \in 0..MaxFaults /\ id_counter \in 0..MaxId
  BY EnrolmentAssumption DEF IInv, RestType, StoresSafe, StoreSafe
<1>3. faults' \in 0..MaxFaults /\ saved' \in BOOLEAN
  <2>1. faults' = faults \/ (faults < MaxFaults /\ faults' = faults + 1)
    BY <1>1
  <2>2. faults' \in 0..MaxFaults
    BY <1>2, <2>1, SMTT(30), Z3T(30)
  <2>3. saved' \in BOOLEAN
    BY <1>1, ZenonT(30)
  <2> QED BY <2>2, <2>3
<1>4. client_keys' \in Stored
  BY <1>1 DEF IInv, RestType, WriterType
<1>5. NoKeys \in Stored /\ NoKeys.entries = <<>> /\ NoKeys.removed = {}
  BY SMTT(30), Z3T(30) DEF NoKeys, Stored
<1>6. StoreSafe(<<>>, {}, id_counter)
  BY <1>2, EmptySafe, ZenonT(30)
<1>7. StoresSafe'
  BY <1>1, <1>5, <1>6 DEF IInv, StoresSafe
<1>8. QueueType' /\ DispatcherType' /\ SyncType'
  BY TypesKept DEF OS_WriteKeys
<1>9. WriterType'
  BY <1>1, <1>3, <1>5 DEF IInv, WriterType
<1>10. RestType'
  BY <1>1, <1>3, <1>4 DEF IInv, RestType
<1> QED BY <1>7, <1>8, <1>9, <1>10 DEF IInv

\* A row put in by wdb_insert_agent.
LEMMA InsertedType ==
  ASSUME db \subseteq Entry, NEW e \in Entry
  PROVE  Inserted(e) \subseteq Entry
BY ZenonT(30) DEF Inserted

\* The loops of the writer over its copied queues.
LEMMA UpdateStep ==
  ASSUME IInv, WriterUpdate
  PROVE  IInv'
<1>1. UNCHANGED <<features, keyentries, removed_keys, id_counter, queue_insert, queue_remove,
                  write_pending, dpc, new, copy, saved, client_keys, running, spc, skeys,
                  to_insert, to_remove, adds, faults, quiet>>
  BY DEF WriterUpdate, store, queues, dispatcher, sync
<1>2. copy_insert \in Seq(Entry) /\ copy_remove \in Seq(Entry) /\ db \subseteq Entry
      /\ wpc \in {"wait", "keys", "insert", "ended"}
  BY DEF IInv, WriterType, RestType
<1>3. /\ copy_insert # <<>> => Head(copy_insert) \in Entry /\ Tail(copy_insert) \in Seq(Entry)
      /\ copy_remove # <<>> => Tail(copy_remove) \in Seq(Entry)
  BY <1>2, SMTT(30), Z3T(30)
<1>4. /\ wpc' \in {"wait", "keys", "insert", "ended"} /\ db' \subseteq Entry
      /\ copy_insert' \in Seq(Entry) /\ copy_remove' \in Seq(Entry)
  BY <1>2, <1>3, InsertedType, ZenonT(30) DEF WriterUpdate
<1>5. StoresSafe'
  BY <1>1 DEF IInv, StoresSafe
<1>6. QueueType' /\ DispatcherType' /\ SyncType'
  BY TypesKept DEF WriterUpdate
<1>7. WriterType'
  BY <1>1, <1>4 DEF IInv, WriterType
<1>8. RestType'
  BY <1>1, <1>4 DEF IInv, RestType
<1> QED BY <1>5, <1>6, <1>7, <1>8 DEF IInv

\* The start of the manager: the store is the file, and the counter its greatest id.
LEMMA StartStep ==
  ASSUME IInv, StartAuthd, StartModulesd, faults' \in 0..MaxFaults,
         UNCHANGED <<features, client_keys, db, adds>>
  PROVE  IInv'
<1> DEFINE S == Ids(Entries(client_keys.entries)) \union client_keys.removed
<1>1. /\ client_keys.entries \in Seq(Entry) /\ client_keys.removed \subseteq Id
      /\ NoClash(client_keys.entries)
  BY ZenonT(30) DEF IInv, StoresSafe, StoreSafe
<1>2. S \subseteq Id
  BY <1>1, EntriesType
<1>3. CounterOfFile \in 0..MaxId /\ \A id \in S : id <= CounterOfFile
  BY <1>2, LargestId DEF CounterOfFile
<1>4. StoreSafe(client_keys.entries, client_keys.removed, CounterOfFile)
  BY <1>1, <1>3 DEF StoreSafe
<1>5. StoreSafe(client_keys.entries, {}, CounterOfFile)
  BY <1>4 DEF StoreSafe
<1>6. NoKeys \in Stored /\ NoKeys.entries = <<>> /\ NoKeys.removed = {}
  BY SMTT(30), Z3T(30) DEF NoKeys, Stored
<1>7. StoreSafe(<<>>, {}, CounterOfFile)
  BY <1>3, EmptySafe
<1>8. /\ keyentries' = client_keys.entries /\ id_counter' = CounterOfFile
      /\ removed_keys' = client_keys.removed \/ removed_keys' = {}
      /\ copy' = NoKeys /\ client_keys' = client_keys
  BY DEF StartAuthd
<1>9. StoresSafe'
  BY <1>4, <1>5, <1>6, <1>7, <1>8, ZenonT(30) DEF StoresSafe
<1>10. QueueType'
  <2>1. queue_insert' = <<>> /\ queue_remove' = <<>> /\ write_pending' = FALSE
    BY DEF StartAuthd
  <2>2. write_pending' \in BOOLEAN
    BY <2>1, ZenonT(30)
  <2>3. queue_insert' \in Seq(Entry) /\ queue_remove' \in Seq(Entry)
    BY <2>1, SMTT(30), Z3T(30)
  <2> QED BY <2>2, <2>3 DEF QueueType
<1>11. DispatcherType'
  BY DEF StartAuthd, Replied, DispatcherType
<1>12. WriterType'
  BY <1>6, SMTT(30), Z3T(30) DEF StartAuthd, WriterType
<1>13. SyncType'
  BY SMTT(30), Z3T(30) DEF StartModulesd, SyncType
<1>14. RestType'
  BY DEF IInv, RestType, StartAuthd, StartModulesd
<1> QED BY <1>9, <1>10, <1>11, <1>12, <1>13, <1>14, ZenonT(30) DEF IInv

\* The synchronization of modulesd touches neither the store nor the file.
LEMMA SyncStep ==
  ASSUME IInv, wm_sync_agents
  PROVE  IInv'
<1>0. /\ client_keys.entries \in Seq(Entry) /\ skeys \in Seq(Entry) /\ db \subseteq Entry
      /\ to_insert \subseteq Entry /\ to_remove \subseteq Id
  <2>1. client_keys.entries \in Seq(Entry)
    BY DEF IInv, StoresSafe, StoreSafe
  <2>2. db \subseteq Entry
    BY DEF IInv, RestType
  <2>3. skeys \in Seq(Entry) /\ to_insert \subseteq Entry /\ to_remove \subseteq Id
    BY ZenonT(30) DEF IInv, SyncType
  <2> QED BY <2>1, <2>2, <2>3, ZenonT(30)
<1>1. UNCHANGED <<features, keyentries, removed_keys, id_counter, queue_insert, queue_remove,
                  write_pending, dpc, new, wpc, copy, copy_insert, copy_remove, saved,
                  client_keys, running, adds, faults, quiet>>
  BY DEF wm_sync_agents, SyncReadKeys, SyncReadRows, SyncUpdate, store, queues, dispatcher, writer
<1>2. SyncType' /\ db' \subseteq Entry
  <2>1. CASE SyncReadKeys
    BY <1>0, <2>1 DEF SyncReadKeys, IInv, SyncType
  <2>2. CASE SyncReadRows
    <3>1. Entries(skeys) \subseteq Entry /\ Ids(db) \subseteq Id
      BY <1>0, EntriesType, EntryFields DEF Ids
    <3>2. /\ to_insert' \subseteq Entry /\ to_remove' \subseteq Id
          /\ skeys' = <<>> /\ spc' = "update" /\ db' = db
      BY <2>2, <3>1 DEF SyncReadRows
    <3> QED BY <1>0, <3>2, SMTT(30), Z3T(30) DEF SyncType
  <2>3. CASE SyncUpdate
    <3>1. /\ db' \subseteq Entry /\ to_insert' \subseteq Entry /\ to_remove' \subseteq Id
          /\ (spc' = spc \/ spc' = "off") /\ skeys' = skeys
      BY <1>0, <2>3, InsertedType, ZenonT(30) DEF SyncUpdate
    <3> QED BY <3>1 DEF IInv, SyncType
  <2> QED BY <2>1, <2>2, <2>3 DEF wm_sync_agents
<1>3. StoresSafe'
  BY <1>1, ZenonT(30) DEF IInv, StoresSafe
<1>4. QueueType' /\ DispatcherType' /\ WriterType'
  BY TypesKept DEF wm_sync_agents, SyncReadKeys, SyncReadRows, SyncUpdate
<1>5. RestType'
  BY <1>1, <1>2 DEF IInv, RestType
<1> QED BY <1>2, <1>3, <1>4, <1>5 DEF IInv

\* Every step of the specification keeps the invariant.
LEMMA NextIInv == IInv /\ [Next]_vars => IInv'
<1> SUFFICES ASSUME IInv, [Next]_vars PROVE IInv'
  OBVIOUS
<1>0. faults \in 0..MaxFaults /\ MaxFaults \in Nat
  BY EnrolmentAssumption DEF IInv, RestType
<1>1. CASE run_dispatcher
  <2>1. CASE \E n \in Name, a \in Ip \union {Any}, f \in SUBSET Keys :
               RemoteAdd(n, a, f) \/ RemoteReject(n, a, f)
    BY <2>1, RemoteStep
  <2>2. CASE ReplyOk \/ ReplyFail
    BY <2>2, ReplyStep
  <2>3. CASE ReplyNoEntry
    BY <1>0, <2>3, StartStep DEF ReplyNoEntry
  <2> QED BY <1>1, <2>1, <2>2, <2>3 DEF run_dispatcher
<1>2. CASE run_local_server
  <2>1. CASE \E id \in Id \union {None}, n \in Name, a \in Ip \union {Any}, f \in SUBSET Keys :
               local_add(id, n, a, f) \/ local_add_reject(id, n, a, f)
    BY <2>1, LocalStep, ZenonT(30)
  <2>2. CASE \E k \in DOMAIN keyentries, purge \in BOOLEAN : local_remove(k, purge)
    BY <2>2, RemoveStep
  <2> QED BY <1>2, <2>1, <2>2 DEF run_local_server
<1>3. CASE run_writer
  BY <1>3, CopyStep, WriteStep, UpdateStep DEF run_writer
<1>4. CASE wm_sync_agents
  BY <1>4, SyncStep
<1>5. CASE Stop
  <2>1. /\ running' = FALSE
        /\ UNCHANGED <<features, keyentries, removed_keys, id_counter, queue_insert,
                       queue_remove, write_pending, dpc, new, wpc, copy, copy_insert,
                       copy_remove, saved, client_keys, db, spc, skeys, to_insert, to_remove,
                       adds, faults, quiet>>
    BY <1>5, ZenonT(30) DEF Stop, store, queues, dispatcher, writer, sync
  <2>2. StoresSafe'
    BY <2>1 DEF IInv, StoresSafe
  <2>3. QueueType' /\ DispatcherType' /\ WriterType' /\ SyncType'
    BY <1>5, TypesKept DEF Stop
  <2>4. RestType'
    BY <2>1, ZenonT(30) DEF IInv, RestType
  <2> QED BY <2>2, <2>3, <2>4 DEF IInv
<1>6. CASE Restart
  BY <1>0, <1>6, StartStep DEF Restart
<1>7. CASE Crash
  <2>1. faults' \in 0..MaxFaults
    BY <1>0, <1>7, SMTT(30), Z3T(30) DEF Crash
  <2> QED BY <1>7, <2>1, StartStep DEF Crash
<1>8. CASE UNCHANGED vars
  <2>1. UNCHANGED <<features, keyentries, removed_keys, id_counter, queue_insert, queue_remove,
                    write_pending, dpc, new, wpc, copy, copy_insert, copy_remove, saved,
                    client_keys, db, running, spc, skeys, to_insert, to_remove, adds, faults,
                    quiet>>
    BY <1>8, ZenonT(30) DEF vars, store, queues, dispatcher, writer, sync
  <2>2. StoresSafe'
    BY <2>1, ZenonT(30) DEF IInv, StoresSafe
  <2>3. quiet' \in BOOLEAN /\ UNCHANGED <<features, client_keys, db, running, adds, faults>>
    BY <2>1 DEF IInv, RestType
  <2>4. QueueType' /\ DispatcherType' /\ WriterType' /\ SyncType' /\ RestType'
    BY <1>8, <2>3, TypesKept DEF vars
  <2> QED BY <2>2, <2>4, ZenonT(30) DEF IInv
<1> QED BY <1>1, <1>2, <1>3, <1>4, <1>5, <1>6, <1>7, <1>8, ZenonT(30) DEF Next

(***************************************************************************)
(* The theorems                                                            *)
(***************************************************************************)

\* Whatever is replaced, removed, moved by OS_DeleteKey, given an id by a key request
\* or read again after a crash, no two agents of authd's store or of client.keys share
\* an id, a name or an address.
THEOREM AgentsDistinct == Spec => []NoClashingAgents
<1>1. IInv => NoClashingAgents
  <2> SUFFICES ASSUME IInv PROVE NoClashingAgents
    BY ZenonT(30)
  <2>1. /\ keyentries \in Seq(Entry) /\ removed_keys \subseteq Id /\ id_counter \in 0..MaxId
        /\ NoClash(keyentries) /\ NoClash(client_keys.entries)
    BY ZenonT(30) DEF IInv, StoresSafe, StoreSafe
  <2>2. TypeOK
    BY <2>1, ZenonT(30) DEF TypeOK, IInv, QueueType, DispatcherType, WriterType, SyncType, RestType
  <2> QED BY <2>1, <2>2 DEF NoClashingAgents
<1> QED BY <1>1, InitIInv, NextIInv, PTL DEF Spec

\* The id that OS_AddNewAgent gives next is above every id of the store, of client.keys
\* and of the removed keys kept in them, also when the counter was read from the file.
THEOREM CounterAbove == Spec => []FreshIds
<1>1. IInv => FreshIds
  BY ZenonT(30) DEF IInv, StoresSafe, StoreSafe, FreshIds
<1> QED BY <1>1, InitIInv, NextIInv, PTL DEF Spec

(***************************************************************************)
(* The key of a reply that fails                                           *)
(***************************************************************************)

\* The key that the dispatcher is about to send is the last one of the store.
OwnKeyLast == dpc = "reply" => keyentries # <<>> /\ keyentries[Len(keyentries)] = new

\* Only a request of the local server that falls between the two critical sections of
\* run_dispatcher moves the dispatcher's key from the end of the store; while it is
\* there, a reply that fails takes that key out of the store and no other.
OwnKeyDropped ==
  [][/\ OwnKeyLast /\ ~run_local_server => OwnKeyLast'
     /\ OwnKeyLast /\ ReplyFail => Entries(keyentries') = Entries(keyentries) \ {new}]_vars

\* Without the last place the other entries are left.
LEMMA LastDeleted ==
  ASSUME NEW s \in Seq(Entry), s # <<>>, NoClash(s)
  PROVE  Entries(DeleteAt(s, Len(s))) = Entries(s) \ {s[Len(s)]}
<1> DEFINE n == Len(s)
           t == DeleteAt(s, n)
<1>1. n \in Nat /\ n # 0 /\ DOMAIN s = 1..n
  BY SMTT(30), Z3T(30)
<1>2. n \in DOMAIN s
  BY <1>1, SMTT(30), Z3T(30)
<1>3. /\ DOMAIN t = 1..(n - 1)
      /\ \A m \in 1..(n - 1) : t[m] = s[IF m = n THEN n ELSE m]
  BY <1>2, DeleteAtPlaces, ZenonT(30)
<1> HIDE DEF t, n
<1>4. \A m \in 1..(n - 1) : m # n /\ m \in 1..n /\ t[m] = s[m]
  BY <1>1, <1>3, SMTT(30), Z3T(30)
<1>5. \A m \in 1..n : m # n => m \in 1..(n - 1)
  BY <1>1, SMTT(30), Z3T(30)
<1>6. \A m \in 1..n : m # n => s[m] # s[n]
  BY <1>1, <1>2, ZenonT(30) DEF NoClash
<1>7. Entries(t) \subseteq Entries(s) \ {s[n]}
  BY <1>1, <1>3, <1>4, <1>6, ZenonT(30) DEF Entries
<1>8. Entries(s) \ {s[n]} \subseteq Entries(t)
  BY <1>1, <1>3, <1>4, <1>5, ZenonT(30) DEF Entries
<1>9. Entries(t) = Entries(s) \ {s[n]}
  BY <1>7, <1>8, ZenonT(30)
<1> QED BY <1>9 DEF n, t

\* A key that was added is the last one.
LEMMA AddedLast ==
  ASSUME NEW s \in Seq(Entry), NEW e
  PROVE  Append(s, e) # <<>> /\ Append(s, e)[Len(Append(s, e))] = e
<1>1. Len(s) \in Nat
  BY SMTT(30), Z3T(30)
<1>2. Len(Append(s, e)) = Len(s) + 1 /\ Append(s, e)[Len(s) + 1] = e
  BY SMTT(30), Z3T(30)
<1>3. Len(Append(s, e)) # 0 /\ Len(<<>>) = 0
  BY <1>1, <1>2, SMTT(30), Z3T(30)
<1> QED BY <1>2, <1>3

\* OnlyOwnKeyDropped fails for no other reason than the local server's requests between
\* the two critical sections of run_dispatcher: neither the writer, the synchronization,
\* a stop nor a crash makes it drop the key of another agent.
THEOREM OthersKeysKept == Spec => OwnKeyDropped
<1>1. ASSUME IInv, [Next]_vars, OwnKeyLast, ~run_local_server
      PROVE  OwnKeyLast'
  <2>1. CASE UNCHANGED <<dpc, new, keyentries>>
    BY <1>1, <2>1, ZenonT(30) DEF OwnKeyLast
  <2>2. CASE dpc' = "idle"
    BY <2>2 DEF OwnKeyLast
  <2>3. ASSUME NEW n, NEW a, NEW f, RemoteAdd(n, a, f)
        PROVE  OwnKeyLast'
    <3> DEFINE r == Validate(Request, n, a, f)
    <3>1. r.entries \in Seq(Entry)
      BY <1>1, RemoteSafe, ZenonT(30) DEF StoreSafe
    <3>2. keyentries' = Append(r.entries, new')
      BY <2>3, ZenonT(30) DEF RemoteAdd
    <3> HIDE DEF r
    <3> QED BY <3>1, <3>2, AddedLast, ZenonT(30) DEF OwnKeyLast
  <2>4. ASSUME NEW n, NEW a, NEW f, RemoteReject(n, a, f)
        PROVE  OwnKeyLast'
    <3>1. dpc' = "idle"
      BY <2>4, ZenonT(30) DEF RemoteReject, dispatcher
    <3> QED BY <3>1 DEF OwnKeyLast
  <2>5. ReplyOk \/ ReplyFail \/ ReplyNoEntry \/ Restart \/ Crash => dpc' = "idle"
    BY ZenonT(30) DEF ReplyOk, ReplyFail, ReplyNoEntry, Restart, Crash, StartAuthd, Replied
  <2>6. run_writer \/ wm_sync_agents \/ Stop \/ UNCHANGED vars => UNCHANGED <<dpc, new, keyentries>>
    BY ZenonT(30) DEF run_writer, WriterCopy, OS_WriteKeys, WriterUpdate, wm_sync_agents,
           SyncReadKeys, SyncReadRows, SyncUpdate, Stop, vars, store, dispatcher
  <2>7. CASE run_dispatcher
    BY <2>2, <2>3, <2>4, <2>5, <2>7, ZenonT(30) DEF run_dispatcher
  <2> QED BY <1>1, <2>1, <2>2, <2>5, <2>6, <2>7, ZenonT(30) DEF Next
<1>2. ASSUME IInv, OwnKeyLast, ReplyFail
      PROVE  Entries(keyentries') = Entries(keyentries) \ {new}
  <2>1. keyentries \in Seq(Entry) /\ NoClash(keyentries)
    BY <1>2, ZenonT(30) DEF IInv, StoresSafe, StoreSafe
  <2>2. /\ keyentries # <<>> /\ keyentries[Len(keyentries)] = new
        /\ keyentries' = DeleteAt(keyentries, Len(keyentries))
    BY <1>2, ZenonT(30) DEF ReplyFail, OwnKeyLast
  <2>3. Entries(DeleteAt(keyentries, Len(keyentries))) = Entries(keyentries) \ {keyentries[Len(keyentries)]}
    BY <2>1, <2>2, LastDeleted, ZenonT(30)
  <2> QED BY <2>2, <2>3, ZenonT(30)
<1>3. IInv /\ [Next]_vars =>
        [/\ OwnKeyLast /\ ~run_local_server => OwnKeyLast'
         /\ OwnKeyLast /\ ReplyFail => Entries(keyentries') = Entries(keyentries) \ {new}]_vars
  BY <1>1, <1>2, ZenonT(30)
<1> QED BY <1>3, InitIInv, NextIInv, PTL DEF Spec, OwnKeyDropped

(***************************************************************************)
(* The synchronization of modulesd                                         *)
(***************************************************************************)

\* The ids of a store, of a queue, of the file.
IdsOf(s) == Ids(Entries(s))

\* Without a request since the start authd holds what the file holds, and has nothing
\* to do but to write it once more when it is stopped.
QuietStore ==
  /\ keyentries = client_keys.entries
  /\ queue_insert = <<>> /\ queue_remove = <<>> /\ write_pending = FALSE
  /\ dpc = "idle"
  /\ copy_insert = <<>> /\ copy_remove = <<>>
  /\ running => wpc = "wait"
  /\ wpc = "keys" => copy.entries = client_keys.entries

\* How far wm_sync_agents has come: what it read is still what the file holds, and the
\* rows differ from the file by what is still to be inserted and to be removed.
SyncStage ==
  /\ spc = "off" => Ids(db) = IdsOf(client_keys.entries)
  /\ spc = "rows" => skeys = client_keys.entries
  /\ spc = "update" =>
       /\ to_insert \subseteq Entries(client_keys.entries)
       /\ to_remove \cap IdsOf(client_keys.entries) = {}
       /\ IdsOf(client_keys.entries) \subseteq Ids(db) \union Ids(to_insert)
       /\ Ids(db) \subseteq IdsOf(client_keys.entries) \union to_remove

SyncInv == quiet => QuietStore /\ ("sync" \in features => SyncStage)

\* The rows after an insertion and after a removal.
LEMMA RowIds ==
  /\ \A e : Ids(Inserted(e)) = Ids(db) \union {e.id}
  /\ \A i : Ids({e \in db : e.id # i}) = Ids(db) \ {i}
BY DEF Ids, Inserted

\* wm_sync_agents on the way from the file it read to the table.
LEMMA StageKept ==
  ASSUME SyncStage, wm_sync_agents
  PROVE  SyncStage'
<1> DEFINE K == Entries(client_keys.entries)
           D == Ids(db)
<1>0. client_keys' = client_keys
  BY DEF wm_sync_agents, SyncReadKeys, SyncReadRows, SyncUpdate
<1>1. CASE SyncReadKeys
  BY <1>0, <1>1, ZenonT(30) DEF SyncReadKeys, SyncStage
<1>2. CASE SyncReadRows
  <2>1. /\ skeys = client_keys.entries /\ spc' = "update" /\ db' = db
        /\ to_insert' = {e \in K : e.id \notin D} /\ to_remove' = D \ Ids(K)
    BY <1>2, ZenonT(30) DEF SyncReadRows, SyncStage
  <2>2. Ids(K) \subseteq D \union Ids({e \in K : e.id \notin D})
    BY ZenonT(30) DEF Ids
  <2> QED BY <1>0, <2>1, <2>2, ZenonT(30) DEF SyncStage, IdsOf
<1>3. CASE SyncUpdate
  <2>0. /\ spc = "update" /\ to_insert \subseteq K /\ to_remove \cap Ids(K) = {}
        /\ Ids(K) \subseteq D \union Ids(to_insert) /\ D \subseteq Ids(K) \union to_remove
    BY <1>3, ZenonT(30) DEF SyncUpdate, SyncStage, IdsOf
  <2>1. ASSUME NEW e \in to_insert, db' = Inserted(e), to_insert' = to_insert \ {e},
               spc' = spc, to_remove' = to_remove
        PROVE  SyncStage'
    <3>0. e.id \in Ids(K)
      BY <2>0, <2>1 DEF Ids
    <3>1. Ids(db') = D \union {e.id}
      BY <2>1, RowIds
    <3>2. Ids(to_insert) \subseteq {e.id} \union Ids(to_insert')
      BY <2>1, ZenonT(30) DEF Ids
    <3> QED BY <1>0, <2>0, <2>1, <3>0, <3>1, <3>2, ZenonT(30) DEF SyncStage, IdsOf
  <2>2. ASSUME NEW i \in to_remove, db' = {e \in db : e.id # i}, to_remove' = to_remove \ {i},
               spc' = spc, to_insert' = to_insert
        PROVE  SyncStage'
    <3>1. Ids(db') = D \ {i}
      BY <2>2 DEF Ids
    <3> QED BY <1>0, <2>0, <2>2, <3>1 DEF SyncStage, IdsOf
  <2>3. ASSUME to_insert = {}, to_remove = {}, spc' = "off", db' = db
        PROVE  SyncStage'
    <3>1. Ids(to_insert) = {}
      BY <2>3 DEF Ids
    <3>2. Ids(db') = Ids(K)
      BY <2>0, <2>3, <3>1
    <3> QED BY <1>0, <2>3, <3>2, ZenonT(30) DEF SyncStage, IdsOf
  <2> QED BY <1>3, <2>1, <2>2, <2>3, ZenonT(30) DEF SyncUpdate
<1> QED BY <1>1, <1>2, <1>3, ZenonT(30) DEF wm_sync_agents

\* The manager starts with the store that the file holds.
LEMMA StartQuiet ==
  ASSUME StartAuthd, StartModulesd, UNCHANGED <<features, client_keys>>
  PROVE  SyncInv'
<1>1. QuietStore'
  BY DEF StartAuthd, Replied, QuietStore
<1>2. "sync" \in features => SyncStage'
  BY DEF StartModulesd, SyncStage
<1> QED BY <1>1, <1>2, ZenonT(30) DEF SyncInv

\* What the writer leaves alone.
LEMMA WriterKeeps ==
  ASSUME run_writer
  PROVE  (quiet' => quiet) /\ UNCHANGED <<features, sync, keyentries, dpc, running>>
<1>1. CASE WriterCopy
  BY <1>1 DEF WriterCopy, store, dispatcher, sync
<1>2. CASE OS_WriteKeys
  BY <1>2 DEF OS_WriteKeys, store, dispatcher, sync
<1>3. CASE WriterUpdate
  BY <1>3 DEF WriterUpdate, store, dispatcher, sync
<1> QED BY <1>1, <1>2, <1>3 DEF run_writer

\* What a signal leaves alone.
LEMMA StopKeeps ==
  ASSUME Stop \/ UNCHANGED vars
  PROVE  /\ (quiet' => quiet) /\ (running' => running)
         /\ UNCHANGED <<features, store, queues, dispatcher, writer, client_keys, db, sync>>
<1>1. CASE Stop
  BY <1>1 DEF Stop
<1>2. CASE UNCHANGED vars
  BY <1>2 DEF vars
<1> QED BY <1>1, <1>2

\* Every step keeps it: a request ends the quiet, and the writer, once stopped, writes
\* the file as it is.
LEMMA NextSync == SyncInv /\ [Next]_vars => SyncInv'
<1> SUFFICES ASSUME SyncInv, [Next]_vars, quiet' PROVE SyncInv'
  BY DEF SyncInv
<1>1. CASE run_dispatcher
  <2>1. ~(\E n \in Name, a \in Ip \union {Any}, f \in SUBSET Keys :
            RemoteAdd(n, a, f) \/ RemoteReject(n, a, f))
    BY DEF RemoteAdd, RemoteReject
  <2>2. ~ReplyOk /\ ~ReplyFail
    BY DEF ReplyOk, ReplyFail
  <2>3. ReplyNoEntry
    BY <1>1, <2>1, <2>2 DEF run_dispatcher
  <2> QED BY <2>3, StartQuiet, ZenonT(30) DEF ReplyNoEntry
<1>2. CASE run_local_server
  <2>1. ~(\E id \in Id \union {None}, n \in Name, a \in Ip \union {Any}, f \in SUBSET Keys :
            local_add(id, n, a, f) \/ local_add_reject(id, n, a, f))
    BY SMTT(30), Z3T(30) DEF local_add, local_add_reject
  <2>2. ~(\E k \in DOMAIN keyentries, purge \in BOOLEAN : local_remove(k, purge))
    BY DEF local_remove
  <2> QED BY <1>2, <2>1, <2>2, ZenonT(30) DEF run_local_server
<1>3. CASE run_writer
  <2>0. quiet /\ UNCHANGED <<features, sync, keyentries, dpc, running>>
    BY <1>3, WriterKeeps
  <2>1. QuietStore /\ ("sync" \in features => SyncStage)
    BY <2>0 DEF SyncInv
  <2>2. CASE WriterCopy
    <3>1. /\ ~running /\ copy'.entries = keyentries /\ wpc' = "keys"
          /\ copy_insert' = <<>> /\ copy_remove' = <<>> /\ queue_insert' = <<>>
          /\ queue_remove' = <<>> /\ write_pending' = FALSE /\ UNCHANGED <<client_keys, db>>
      BY <2>1, <2>2, ZenonT(30) DEF WriterCopy, QuietStore
    <3>2. QuietStore'
      BY <2>0, <2>1, <3>1, ZenonT(30) DEF QuietStore
    <3>3. SyncStage => SyncStage'
      BY <2>0, <3>1, ZenonT(30) DEF SyncStage, sync
    <3> QED BY <2>0, <2>1, <3>2, <3>3, ZenonT(30) DEF SyncInv
  <2>3. CASE OS_WriteKeys
    <3>1. /\ wpc = "keys" /\ wpc' = "insert" /\ db' = db /\ UNCHANGED queues
          /\ UNCHANGED <<copy_insert, copy_remove>>
          /\ client_keys' = copy \/ client_keys' = client_keys
      BY <2>3 DEF OS_WriteKeys
    <3>2. client_keys'.entries = client_keys.entries /\ ~running
      BY <2>1, <3>1, ZenonT(30) DEF QuietStore
    <3>3. QuietStore'
      BY <2>0, <2>1, <3>1, <3>2, ZenonT(30) DEF QuietStore, queues
    <3>4. SyncStage => SyncStage'
      BY <2>0, <3>1, <3>2, ZenonT(30) DEF SyncStage, sync
    <3> QED BY <2>0, <2>1, <3>3, <3>4 DEF SyncInv
  <2>4. CASE WriterUpdate
    <3>1. /\ wpc = "insert" /\ wpc' = IF running THEN "wait" ELSE "ended"
          /\ UNCHANGED <<queues, copy_insert, copy_remove, db, client_keys>>
      BY <2>1, <2>4, ZenonT(30) DEF WriterUpdate, QuietStore
    <3>2. QuietStore'
      BY <2>0, <2>1, <3>1, ZenonT(30) DEF QuietStore, queues
    <3>3. SyncStage => SyncStage'
      BY <2>0, <3>1 DEF SyncStage, sync
    <3> QED BY <2>0, <2>1, <3>2, <3>3 DEF SyncInv
  <2> QED BY <1>3, <2>2, <2>3, <2>4 DEF run_writer
<1>4. CASE wm_sync_agents
  <2>1. /\ quiet' = quiet
        /\ UNCHANGED <<features, store, queues, dispatcher, writer, client_keys, running>>
    <3>1. SyncReadKeys \/ SyncReadRows \/ SyncUpdate
      BY <1>4, ZenonT(30) DEF wm_sync_agents
    <3> QED BY <3>1, ZenonT(30) DEF SyncReadKeys, SyncReadRows, SyncUpdate
  <2>2. QuietStore'
    BY <2>1 DEF SyncInv, QuietStore, store, queues, dispatcher, writer
  <2> QED BY <1>4, <2>1, <2>2, StageKept DEF SyncInv
<1>5. CASE Stop \/ UNCHANGED vars
  <2>1. /\ quiet /\ (running' => running)
        /\ UNCHANGED <<features, store, queues, dispatcher, writer, client_keys, db, sync>>
    BY <1>5, StopKeeps, ZenonT(30)
  <2>2. QuietStore => QuietStore'
    BY <2>1 DEF QuietStore, store, queues, dispatcher, writer
  <2>3. SyncStage => SyncStage'
    BY <2>1 DEF SyncStage, sync
  <2> QED BY <2>1, <2>2, <2>3 DEF SyncInv
<1>6. CASE Restart \/ Crash
  BY <1>6, StartQuiet DEF Restart, Crash
<1> QED BY <1>1, <1>2, <1>3, <1>4, <1>5, <1>6 DEF Next

\* The synchronization of modulesd leaves a row for exactly the agents of client.keys,
\* whatever a crash, a failed write or a lost reply left behind, when no request comes
\* between the start and its end.
THEOREM SyncComplete == Spec => []SyncRepairs
<1>1. Init => SyncInv
  <2> SUFFICES ASSUME Init PROVE SyncInv
    OBVIOUS
  <2>1. client_keys.entries = <<>> /\ NoKeys.entries = <<>> /\ DOMAIN <<>> = {}
    BY SMTT(30), Z3T(30) DEF Init, NoKeys
  <2>2. IdsOf(client_keys.entries) = {} /\ Ids(db) = {}
    BY <2>1 DEF Init, IdsOf, Ids, Entries
  <2>3. QuietStore
    BY <2>1, ZenonT(30) DEF Init, QuietStore
  <2>4. SyncStage
    BY <2>2 DEF Init, SyncStage
  <2> QED BY <2>3, <2>4, ZenonT(30) DEF SyncInv
<1>2. SyncInv => SyncRepairs
  BY ZenonT(30) DEF SyncInv, SyncStage, SyncRepairs, IdsOf
<1> QED BY <1>1, <1>2, NextSync, PTL DEF Spec

(***************************************************************************)
(* The local server and the writer                                         *)
(***************************************************************************)

\* What the table will hold when the batch that the writer is at is done.
Target == IF wpc = "keys" THEN IdsOf(copy.entries) ELSE IdsOf(client_keys.entries)

\* The rows with the batch of the writer applied are the file that it writes, and that
\* file with the queues applied is the store.  An id that is queued for removal is not
\* given again, so that the order in which the two queues are applied does not matter.
TableStage ==
  /\ dpc = "idle" /\ spc = "off"
  /\ wpc \in {"wait", "ended"} => copy_insert = <<>> /\ copy_remove = <<>>
  /\ (Ids(db) \union IdsOf(copy_insert)) \ IdsOf(copy_remove) = Target
  /\ (Target \union IdsOf(queue_insert)) \ IdsOf(queue_remove) = IdsOf(keyentries)
  /\ \A i \in IdsOf(queue_remove) : i <= id_counter

TableInv == features = {} /\ faults = 0 => TableStage

\* Nothing is queued in an empty queue.
LEMMA IdsEmpty == IdsOf(<<>>) = {}
<1>1. DOMAIN <<>> = {}
  BY SMTT(30), Z3T(30)
<1> QED BY <1>1, ZenonT(30) DEF IdsOf, Ids, Entries

\* The ids of a queue that grows at its end.
LEMMA IdsAppend ==
  ASSUME NEW s \in Seq(Entry), NEW e \in Entry
  PROVE  IdsOf(Append(s, e)) = IdsOf(s) \union {e.id}
<1>1. Len(s) \in Nat /\ DOMAIN s = 1..Len(s)
  BY EntriesType
<1>2. Append(s, e) \in Seq(Entry)
  BY SMTT(30), Z3T(30)
<1>3. DOMAIN Append(s, e) = 1..(Len(s) + 1)
  BY <1>1, <1>2, EntriesType, SMTT(30), Z3T(30)
<1>4. \A k \in 1..(Len(s) + 1) : Append(s, e)[k] = IF k = Len(s) + 1 THEN e ELSE s[k]
  BY <1>1, SMTT(30), Z3T(30)
<1>5. Entries(Append(s, e)) = Entries(s) \union {e}
  BY <1>1, <1>3, <1>4, SMTT(30), Z3T(30) DEF Entries
<1> QED BY <1>5, ZenonT(30) DEF IdsOf, Ids

\* The ids of a queue that is taken from at its front.
LEMMA IdsTail ==
  ASSUME NEW s \in Seq(Entry), s # <<>>
  PROVE  IdsOf(s) = {Head(s).id} \union IdsOf(Tail(s))
<1>1. Len(s) \in Nat /\ DOMAIN s = 1..Len(s) /\ Len(s) # 0
  BY EntriesType, SMTT(30), Z3T(30)
<1>2. Tail(s) \in Seq(Entry) /\ Len(Tail(s)) = Len(s) - 1 /\ Head(s) = s[1]
  BY <1>1, SMTT(30), Z3T(30)
<1>3. DOMAIN Tail(s) = 1..(Len(s) - 1)
  BY <1>2, EntriesType
<1>4. \A k \in 1..(Len(s) - 1) : Tail(s)[k] = s[k + 1]
  BY <1>1, SMTT(30), Z3T(30)
<1>5. Entries(Tail(s)) \subseteq Entries(s)
  BY <1>1, <1>3, <1>4, SMTT(30), Z3T(30) DEF Entries
<1>6. Head(s) \in Entries(s)
  BY <1>1, <1>2, SMTT(30), Z3T(30) DEF Entries
<1>7. Entries(s) \subseteq {Head(s)} \union Entries(Tail(s))
  <2> SUFFICES ASSUME NEW k \in 1..Len(s), k # 1
               PROVE  s[k] \in Entries(Tail(s))
    BY <1>1, <1>2 DEF Entries
  <2>1. k - 1 \in 1..(Len(s) - 1) /\ s[k] = Tail(s)[k - 1]
    BY <1>1, <1>4, SMTT(30), Z3T(30)
  <2>2. k - 1 \in DOMAIN Tail(s)
    BY <1>3, <2>1
  <2> QED BY <2>1, <2>2, Zenon DEF Entries
<1>8. Entries(s) = {Head(s)} \union Entries(Tail(s))
  BY <1>5, <1>6, <1>7
<1> QED BY <1>8 DEF IdsOf, Ids

\* OS_DeleteKey takes the id of the deleted entry out of a store without clashes.
LEMMA IdsDelete ==
  ASSUME NEW s \in Seq(Entry), NoClash(s), NEW k \in DOMAIN s
  PROVE  IdsOf(DeleteAt(s, k)) = IdsOf(s) \ {s[k].id}
<1> DEFINE t == DeleteAt(s, k)
           n == Len(s)
<1>1. n \in Nat /\ DOMAIN s = 1..n /\ k \in 1..n
  BY EntriesType, ZenonT(30)
<1>2. /\ DOMAIN t = 1..(n - 1)
      /\ \A m \in 1..(n - 1) : t[m] = s[IF m = k THEN n ELSE m]
  BY DeleteAtPlaces, SMTT(30), Z3T(30)
<1>3. \A e \in Entries(t) : \E m \in DOMAIN s : m # k /\ e = s[m]
  BY DeleteAtSafe
<1> HIDE DEF t, n
<1>4. \A m \in DOMAIN s : m # k => s[m] \in Entries(t)
  <2> SUFFICES ASSUME NEW m \in 1..n, m # k PROVE s[m] \in Entries(t)
    BY <1>1
  <2>1. CASE m = n
    <3>1. k \in 1..(n - 1) /\ t[k] = s[n]
      BY <1>1, <1>2, <2>1, SMTT(30), Z3T(30)
    <3> QED BY <1>2, <2>1, <3>1 DEF Entries
  <2>2. CASE m # n
    <3>1. m \in 1..(n - 1)
      BY <1>1, <2>2, SMTT(30), Z3T(30)
    <3>2. t[m] = s[m]
      BY <1>2, <3>1
    <3> QED BY <1>2, <3>1, <3>2 DEF Entries
  <2> QED BY <2>1, <2>2
<1>5. \A m \in DOMAIN s : m # k => s[m].id # s[k].id
  BY ZenonT(30) DEF NoClash
<1>6. IdsOf(t) \subseteq IdsOf(s) \ {s[k].id}
  BY <1>3, <1>5, SMTT(30), Z3T(30) DEF IdsOf, Ids, Entries
<1>7. IdsOf(s) \ {s[k].id} \subseteq IdsOf(t)
  BY <1>4, ZenonT(30) DEF IdsOf, Ids, Entries
<1> QED BY <1>6, <1>7 DEF t

\* What a request takes out of the store it queues for removal.
Moved(q, r) ==
  /\ IdsOf(q.entries) \subseteq IdsOf(r.entries)
  /\ IdsOf(q.removals) = IdsOf(r.removals) \union (IdsOf(r.entries) \ IdsOf(q.entries))

\* The checks of a request one after the other.
LEMMA MovedTransitive ==
  ASSUME NEW p, NEW q, NEW r, Moved(p, q), Moved(q, r)
  PROVE  Moved(p, r)
BY DEF Moved

\* A check queues the entry that it removes.
LEMMA ResolveMoves ==
  ASSUME NEW r \in RequestType, NoClash(r.entries), NEW at, AtMost(at, r.entries),
         NEW replaceable
  PROVE  Moved(Resolve(r, at, replaceable), r)
<1> DEFINE q == Resolve(r, at, replaceable)
<1>0. Moved(r, r)
  BY DEF Moved
<1>1. r.entries \in Seq(Entry) /\ r.removals \in Seq(Entry)
  BY DEF RequestType
<1>2. CASE ~r.ok \/ at = {}
  BY <1>0, <1>2 DEF Resolve
<1>3. CASE r.ok /\ at # {}
  <2> DEFINE k == CHOOSE x \in at : \A y \in at : x <= y
             e == r.entries[k]
  <2>1. PICK x \in at : at = {x}
    BY <1>3 DEF AtMost
  <2>2. x \in DOMAIN r.entries /\ x \in Nat
    BY <1>1, <2>1, EntriesType, SMTT(30), Z3T(30) DEF AtMost
  <2>3. \A y \in at : x <= y
    BY <2>1, <2>2, SMTT(30), Z3T(30)
  <2>4. k = x
    BY <2>1, <2>3
  <2>5. e \in Entry /\ k \in DOMAIN r.entries
    <3>1. r.entries[x] \in Entry
      BY <1>1, <2>2, EntriesType, ZenonT(30)
    <3> HIDE DEF k
    <3> QED BY <2>2, <2>4, <3>1, ZenonT(30)
  <2>6. CASE e.key \in replaceable /\ e.id \in Ids(db)
    <3>1. q = [entries |-> DeleteAt(r.entries, k), removed |-> Mark(r.removed, e.id, FALSE),
               removals |-> Append(r.removals, e), ok |-> TRUE]
      BY <1>3, <2>6 DEF Resolve
    <3>2. q.entries = DeleteAt(r.entries, k) /\ q.removals = Append(r.removals, e)
      BY <3>1, SMTT(30), Z3T(30)
    <3> HIDE DEF k, q
    <3>3. IdsOf(DeleteAt(r.entries, k)) = IdsOf(r.entries) \ {e.id}
      BY <1>1, <2>5, IdsDelete
    <3> HIDE DEF e
    <3>4. IdsOf(Append(r.removals, e)) = IdsOf(r.removals) \union {e.id}
      BY <1>1, <2>5, IdsAppend
    <3>5. e.id \in IdsOf(r.entries)
      BY <2>5, Zenon DEF IdsOf, Ids, Entries, e
    <3> QED BY <3>2, <3>3, <3>4, <3>5, ZenonT(30) DEF Moved, q
  <2>7. CASE ~(e.key \in replaceable /\ e.id \in Ids(db))
    <3>1. q = [r EXCEPT !.ok = FALSE]
      BY <1>3, <2>7 DEF Resolve
    <3>2. q.entries = r.entries /\ q.removals = r.removals
      BY <3>1 DEF RequestType
    <3> HIDE DEF q
    <3> QED BY <1>0, <3>2, ZenonT(30) DEF Moved, q
  <2> QED BY <2>6, <2>7, ZenonT(30)
<1> QED BY <1>1, <1>2, <1>3, ZenonT(30) DEF RequestType

\* The verdict alone moves nothing.
LEMMA RequestVerdict ==
  ASSUME NEW q \in RequestType, NEW b \in BOOLEAN
  PROVE  LET h == [q EXCEPT !.ok = b] IN
         h \in RequestType /\ h.entries = q.entries /\ h.removals = q.removals
BY DEF RequestType

\* So do all checks of local_add together.
LEMMA LocalMoves ==
  ASSUME IInv, NEW id, NEW n, NEW a, NEW f
  PROVE  Moved(LocalRequest(id, n, a, f), Request)
<1> DEFINE g == Resolve(Request, SameId(keyentries, id), f)
           p == Resolve(g, SameIp(g.entries, a), f)
           h == NotHost(p, n)
           q == Resolve(h, SameName(h.entries, n), f)
<1>1. Left(g, Request) /\ Moved(g, Request)
  BY RequestStarts, AtMostOne, ResolveSafe, ResolveMoves, ZenonT(30)
<1>2. g \in RequestType /\ NoClash(g.entries)
  BY <1>1, ZenonT(30) DEF Left
<1> HIDE DEF g
<1>3. Left(p, g) /\ Moved(p, g)
  BY <1>2, AtMostOne, ResolveSafe, ResolveMoves, ZenonT(30)
<1>4. p \in RequestType /\ NoClash(p.entries)
  BY <1>3, ZenonT(30) DEF Left
<1> HIDE DEF p
<1>5. h \in RequestType /\ h.entries = p.entries /\ h.removals = p.removals
  <2> DEFINE b == p.ok /\ n # shost
  <2>1. b \in BOOLEAN /\ h = [p EXCEPT !.ok = b]
    BY Zenon DEF NotHost
  <2> HIDE DEF b, h
  <2> QED BY <1>4, <2>1, RequestVerdict
<1>6. Moved(h, p) /\ NoClash(h.entries)
  BY <1>4, <1>5, ZenonT(30) DEF Moved
<1> HIDE DEF h
<1>7. Moved(q, h)
  BY <1>5, <1>6, AtMostOne, ResolveMoves, ZenonT(30)
<1> HIDE DEF q
<1>8. Moved(q, Request)
  BY <1>1, <1>3, <1>6, <1>7, MovedTransitive, ZenonT(30)
<1>9. LocalRequest(id, n, a, f) = q
  BY DEF LocalRequest, Validate, q, h, p, g
<1> QED BY <1>8, <1>9, ZenonT(30)

\* A number of faults below the bound is a natural number, and one more is not zero.
LEMMA FaultsCounted == \A n \in 0..MaxFaults : n + 1 # 0
BY EnrolmentAssumption, SMTT(30), Z3T(30)

\* Neither the features change nor do faults go away.
LEMMA FeaturesKept ==
  ASSUME IInv, [Next]_vars
  PROVE  features' = features /\ (faults' = 0 => faults = 0)
<1>0. faults + 1 # 0
  <2>1. faults \in 0..MaxFaults
    BY ZenonT(30) DEF IInv, RestType
  <2> QED BY <2>1, FaultsCounted, ZenonT(30)
<1>1. CASE run_dispatcher
  <2>1. ASSUME NEW n, NEW a, NEW f, RemoteAdd(n, a, f) \/ RemoteReject(n, a, f)
        PROVE  features' = features /\ faults' = faults
    BY <2>1, ZenonT(30) DEF RemoteAdd, RemoteReject
  <2>2. CASE ReplyOk \/ ReplyFail \/ ReplyNoEntry
    BY <2>2, ZenonT(30) DEF ReplyOk, ReplyFail, ReplyNoEntry
  <2> QED BY <1>1, <2>1, <2>2, ZenonT(30) DEF run_dispatcher
<1>2. CASE run_local_server
  <2>1. ASSUME NEW id, NEW n, NEW a, NEW f, local_add(id, n, a, f) \/ local_add_reject(id, n, a, f)
        PROVE  features' = features /\ faults' = faults
    BY <2>1, ZenonT(30) DEF local_add, local_add_reject
  <2>2. ASSUME NEW k, NEW purge, local_remove(k, purge)
        PROVE  features' = features /\ faults' = faults
    BY <2>2, ZenonT(30) DEF local_remove
  <2> QED BY <1>2, <2>1, <2>2, ZenonT(30) DEF run_local_server
<1>3. CASE run_writer
  BY <1>0, <1>3, ZenonT(30) DEF run_writer, WriterCopy, OS_WriteKeys, WriterUpdate
<1>4. CASE wm_sync_agents
  BY <1>4, ZenonT(30) DEF wm_sync_agents, SyncReadKeys, SyncReadRows, SyncUpdate
<1>5. CASE Stop \/ Restart \/ Crash \/ UNCHANGED vars
  BY <1>0, <1>5, ZenonT(30) DEF Stop, Restart, Crash, vars
<1> QED BY <1>1, <1>2, <1>3, <1>4, <1>5, ZenonT(30) DEF Next

\* The ids R are left of the store when a request or a removal has taken its entries out,
\* and the ids N are what OS_AddNewAgent adds: the queues say so.
QueuesChange(R, N) ==
  /\ R \subseteq IdsOf(keyentries) /\ N \in {{}, {id_counter + 1}}
  /\ IdsOf(keyentries') = R \union N
  /\ IdsOf(queue_insert') = IdsOf(queue_insert) \union N
  /\ IdsOf(queue_remove') = IdsOf(queue_remove) \union (IdsOf(keyentries) \ R)
  /\ id_counter' = IF N = {} THEN id_counter ELSE id_counter + 1
  /\ UNCHANGED <<dispatcher, writer, client_keys, db, sync>>

\* A change of the store that the queues follow.
LEMMA QueuesFollow ==
  ASSUME IInv, TableStage, NEW R, NEW N, QueuesChange(R, N)
  PROVE  TableStage'
<1>0. /\ R \subseteq IdsOf(keyentries) /\ N \in {{}, {id_counter + 1}}
      /\ IdsOf(keyentries') = R \union N
      /\ IdsOf(queue_insert') = IdsOf(queue_insert) \union N
      /\ IdsOf(queue_remove') = IdsOf(queue_remove) \union (IdsOf(keyentries) \ R)
      /\ id_counter' = IF N = {} THEN id_counter ELSE id_counter + 1
      /\ UNCHANGED <<dispatcher, writer, client_keys, db, sync>>
  BY DEF QueuesChange
<1> DEFINE QR == IdsOf(queue_remove) \union (IdsOf(keyentries) \ R)
<1>1. id_counter \in Nat /\ IdsOf(keyentries) \subseteq Int /\ IdsOf(queue_remove) \subseteq Int
  <2>1. id_counter \in Nat /\ \A i \in Id : i \in Int
    <3>1. id_counter \in 0..MaxId
      BY ZenonT(30) DEF IInv, StoresSafe, StoreSafe
    <3> QED BY <3>1, EnrolmentAssumption, SMTT(30), Z3T(30) DEF Id
  <2>2. IdsOf(keyentries) \subseteq Id /\ IdsOf(queue_remove) \subseteq Id
    BY EntriesType DEF IInv, StoresSafe, StoreSafe, QueueType, IdsOf
  <2> QED BY <2>1, <2>2, ZenonT(30)
<1>2. \A i \in QR : i <= id_counter
  <2>1. \A i \in IdsOf(keyentries) : i <= id_counter
    BY ZenonT(30) DEF IInv, StoresSafe, StoreSafe, IdsOf
  <2>2. \A i \in IdsOf(queue_remove) : i <= id_counter
    BY DEF TableStage
  <2> QED BY <2>1, <2>2, ZenonT(30)
<1>3. N \cap QR = {} /\ \A i \in QR : i <= id_counter'
  BY <1>0, <1>1, <1>2, SMTT(30), Z3T(30)
<1>4. (Target \union IdsOf(queue_insert)) \ IdsOf(queue_remove) = IdsOf(keyentries)
  BY ZenonT(30) DEF TableStage
<1>5. (Target \union (IdsOf(queue_insert) \union N)) \ QR = R \union N
  BY <1>0, <1>3, <1>4, ZenonT(30)
<1>6. Target' = Target
  BY <1>0, ZenonT(30) DEF Target, writer
<1>7. (Target' \union IdsOf(queue_insert')) \ IdsOf(queue_remove') = IdsOf(keyentries')
  BY <1>0, <1>5, <1>6, ZenonT(30)
<1>8. /\ dpc' = "idle" /\ spc' = "off"
      /\ wpc' \in {"wait", "ended"} => copy_insert' = <<>> /\ copy_remove' = <<>>
      /\ (Ids(db') \union IdsOf(copy_insert')) \ IdsOf(copy_remove') = Target'
  BY <1>0, <1>6, ZenonT(30) DEF TableStage, dispatcher, sync, writer
<1>9. \A i \in IdsOf(queue_remove') : i <= id_counter'
  BY <1>0, <1>3
<1> QED BY <1>7, <1>8, <1>9, ZenonT(30) DEF TableStage

\* A request of the local server.
LEMMA LocalFollows ==
  ASSUME IInv, TableStage, features = {},
         NEW id \in Id \union {None}, NEW n \in Name, NEW a \in Ip \union {Any}, NEW f,
         local_add(id, n, a, f) \/ local_add_reject(id, n, a, f)
  PROVE  TableStage'
<1> DEFINE r == LocalRequest(id, n, a, f)
           e == NewEntry(id, n, a)
<1>1. id = None
  BY ZenonT(30) DEF local_add, local_add_reject
<1>2. Moved(r, Request) /\ Request.entries = keyentries /\ Request.removals = queue_remove
  <2>1. Request.removals = queue_remove
    BY ZenonT(30) DEF Request
  <2> QED BY <2>1, LocalMoves, RequestStarts, ZenonT(30)
<1>3. r.entries \in Seq(Entry)
  BY LocalSafe, ZenonT(30) DEF StoreSafe
<1> HIDE DEF r
<1>4. /\ IdsOf(r.entries) \subseteq IdsOf(keyentries)
      /\ IdsOf(r.removals) = IdsOf(queue_remove) \union (IdsOf(keyentries) \ IdsOf(r.entries))
  BY <1>2, ZenonT(30) DEF Moved
<1>5. CASE local_add(id, n, a, f)
  <2>1. /\ adds < MaxAdds /\ id_counter < MaxId
        /\ keyentries' = Append(r.entries, e) /\ queue_remove' = r.removals
        /\ id_counter' = id_counter + 1 /\ queue_insert' = Append(queue_insert, e)
        /\ UNCHANGED <<dispatcher, writer, client_keys, db, sync>>
    BY <1>1, <1>5 DEF local_add, NextCounter, r
  <2>2. e \in Entry /\ e.id = id_counter + 1
    <3>0. adds < MaxAdds /\ (id = None => id_counter < MaxId)
      BY <2>1, ZenonT(30)
    <3>1. e \in Entry /\ e.id = IF id = None THEN id_counter + 1 ELSE id
      BY <3>0, NewEntryType, SMTT(30), Z3T(30)
    <3> HIDE DEF e
    <3> QED BY <1>1, <3>1
  <2> HIDE DEF e
  <2>3. IdsOf(keyentries') = IdsOf(r.entries) \union {id_counter + 1}
    BY <1>3, <2>1, <2>2, IdsAppend, ZenonT(30)
  <2>4. IdsOf(queue_insert') = IdsOf(queue_insert) \union {id_counter + 1}
    BY <2>1, <2>2, IdsAppend DEF IInv, QueueType
  <2> DEFINE N == {id_counter + 1}
  <2>5. N # {} /\ N \in {{}, {id_counter + 1}}
    OBVIOUS
  <2>6. id_counter' = IF N = {} THEN id_counter ELSE id_counter + 1
    BY <2>1, <2>5, ZenonT(30)
  <2>7. /\ IdsOf(keyentries') = IdsOf(r.entries) \union N
        /\ IdsOf(queue_insert') = IdsOf(queue_insert) \union N
        /\ IdsOf(queue_remove') = IdsOf(queue_remove) \union (IdsOf(keyentries) \ IdsOf(r.entries))
    BY <1>4, <2>1, <2>3, <2>4, ZenonT(30)
  <2> HIDE DEF N
  <2>8. QueuesChange(IdsOf(r.entries), N)
    BY <1>4, <2>1, <2>5, <2>6, <2>7, ZenonT(30) DEF QueuesChange
  <2> QED BY <2>8, QueuesFollow, ZenonT(30)
<1>6. CASE local_add_reject(id, n, a, f)
  <2>1. /\ keyentries' = r.entries /\ queue_remove' = r.removals
        /\ UNCHANGED <<id_counter, queue_insert, dispatcher, writer, client_keys, db, sync>>
    BY <1>6 DEF local_add_reject, r
  <2>2. /\ IdsOf(keyentries') = IdsOf(r.entries) \union {}
        /\ IdsOf(queue_insert') = IdsOf(queue_insert) \union {}
    BY <2>1, ZenonT(30)
  <2>3. QueuesChange(IdsOf(r.entries), {})
    BY <1>4, <2>1, <2>2, ZenonT(30) DEF QueuesChange
  <2> QED BY <2>3, QueuesFollow, ZenonT(30)
<1> QED BY <1>5, <1>6, ZenonT(30)

\* A removal by the local server.
LEMMA RemoveFollows ==
  ASSUME IInv, TableStage, NEW k \in DOMAIN keyentries, NEW purge, local_remove(k, purge)
  PROVE  TableStage'
<1> DEFINE R == IdsOf(keyentries) \ {keyentries[k].id}
<1>1. keyentries \in Seq(Entry) /\ NoClash(keyentries) /\ queue_remove \in Seq(Entry)
  BY ZenonT(30) DEF IInv, StoresSafe, StoreSafe, QueueType
<1>2. keyentries[k] \in Entry /\ keyentries[k].id \in IdsOf(keyentries)
  BY <1>1, EntriesType, ZenonT(30) DEF IdsOf, Ids, Entries
<1>3. /\ keyentries' = DeleteAt(keyentries, k) /\ queue_remove' = Append(queue_remove, keyentries[k])
      /\ UNCHANGED <<id_counter, queue_insert, dispatcher, writer, client_keys, db, sync>>
  BY DEF local_remove
<1>4. IdsOf(keyentries') = R
  BY <1>1, <1>3, IdsDelete, ZenonT(30)
<1>5. IdsOf(queue_remove') = IdsOf(queue_remove) \union {keyentries[k].id}
  BY <1>1, <1>2, <1>3, IdsAppend, ZenonT(30)
<1>6. /\ R \subseteq IdsOf(keyentries) /\ IdsOf(keyentries') = R \union {}
      /\ IdsOf(queue_insert') = IdsOf(queue_insert) \union {}
      /\ IdsOf(queue_remove') = IdsOf(queue_remove) \union (IdsOf(keyentries) \ R)
  BY <1>2, <1>3, <1>4, <1>5, ZenonT(30)
<1> HIDE DEF R
<1>7. {} \in {{}, {id_counter + 1}} /\ id_counter' = IF {} = {} THEN id_counter ELSE id_counter + 1
  BY <1>3, ZenonT(30)
<1>8. QueuesChange(R, {})
  BY <1>3, <1>6, <1>7 DEF QueuesChange
<1> QED BY <1>8, QueuesFollow, ZenonT(30)

\* The writer: its batch is the queues, and the file it writes is the store it copied.
LEMMA WriterFollows ==
  ASSUME IInv, TableStage, run_writer, faults = 0, faults' = 0
  PROVE  TableStage'
<1>0. /\ copy_insert \in Seq(Entry) /\ copy_remove \in Seq(Entry)
      /\ dpc = "idle" /\ spc = "off"
      /\ wpc \in {"wait", "ended"} => copy_insert = <<>> /\ copy_remove = <<>>
      /\ (Ids(db) \union IdsOf(copy_insert)) \ IdsOf(copy_remove) = Target
      /\ (Target \union IdsOf(queue_insert)) \ IdsOf(queue_remove) = IdsOf(keyentries)
      /\ \A i \in IdsOf(queue_remove) : i <= id_counter
  BY ZenonT(30) DEF IInv, WriterType, TableStage
<1>1. CASE WriterCopy
  <2>1. /\ wpc = "wait" /\ copy'.entries = keyentries /\ wpc' = "keys"
        /\ copy_insert' = queue_insert /\ copy_remove' = queue_remove
        /\ queue_insert' = <<>> /\ queue_remove' = <<>>
        /\ UNCHANGED <<keyentries, id_counter, dpc, spc, db>>
    BY <1>1, ZenonT(30) DEF WriterCopy, store, dispatcher, sync
  <2>2. Target' = IdsOf(keyentries) /\ Ids(db) = Target
    <3>1. IdsOf(copy_insert) = {} /\ IdsOf(copy_remove) = {}
      BY <1>0, <2>1, IdsEmpty, ZenonT(30)
    <3>2. Ids(db) = Target
      BY <1>0, <3>1, ZenonT(30)
    <3> QED BY <2>1, <3>2, ZenonT(30) DEF Target
  <2>3. /\ (Ids(db') \union IdsOf(copy_insert')) \ IdsOf(copy_remove') = Target'
        /\ (Target' \union IdsOf(queue_insert')) \ IdsOf(queue_remove') = IdsOf(keyentries')
        /\ \A i \in IdsOf(queue_remove') : i <= id_counter'
    BY <1>0, <2>1, <2>2, IdsEmpty, ZenonT(30)
  <2> QED BY <1>0, <2>1, <2>3, ZenonT(30) DEF TableStage
<1>2. CASE OS_WriteKeys
  <2>1. /\ wpc = "keys" /\ wpc' = "insert" /\ client_keys' = copy
        /\ UNCHANGED <<keyentries, id_counter, queue_insert, queue_remove, copy_insert,
                       copy_remove, dpc, spc, db>>
    BY <1>2, SMTT(30), Z3T(30) DEF OS_WriteKeys, store, queues, dispatcher, sync
  <2>2. Target' = Target
    BY <2>1, ZenonT(30) DEF Target
  <2> QED BY <1>0, <2>1, <2>2, ZenonT(30) DEF TableStage
<1>3. CASE WriterUpdate
  <2>1. UNCHANGED <<keyentries, id_counter, queue_insert, queue_remove, copy, client_keys, dpc, spc>>
    BY <1>3, ZenonT(30) DEF WriterUpdate, store, queues, dispatcher, sync
  <2>2. wpc = "insert" /\ wpc' \in {"insert", "wait", "ended"}
    BY <1>3, ZenonT(30) DEF WriterUpdate
  <2>3. Target' = Target
    BY <2>1, <2>2, ZenonT(30) DEF Target
  <2>4. CASE copy_insert # <<>>
    <3>1. /\ db' = Inserted(Head(copy_insert)) /\ copy_insert' = Tail(copy_insert)
          /\ copy_remove' = copy_remove /\ wpc' = wpc
      BY <1>3, <2>4, ZenonT(30) DEF WriterUpdate
    <3>2. Ids(db') = Ids(db) \union {Head(copy_insert).id}
      BY <3>1, RowIds, ZenonT(30)
    <3>3. Ids(db') \union IdsOf(copy_insert') = Ids(db) \union IdsOf(copy_insert)
      BY <1>0, <2>4, <3>1, <3>2, IdsTail, ZenonT(30)
    <3> QED BY <1>0, <2>1, <2>2, <2>3, <3>1, <3>3, ZenonT(30) DEF TableStage
  <2>5. CASE copy_insert = <<>> /\ copy_remove # <<>>
    <3>1. /\ db' = {e \in db : e.id # Head(copy_remove).id} /\ copy_remove' = Tail(copy_remove)
          /\ copy_insert' = copy_insert /\ wpc' = wpc
      BY <1>3, <2>5, ZenonT(30) DEF WriterUpdate
    <3>2. Ids(db') = Ids(db) \ {Head(copy_remove).id}
      BY <3>1, RowIds, ZenonT(30)
    <3>3. IdsOf(copy_remove) = {Head(copy_remove).id} \union IdsOf(copy_remove')
      BY <1>0, <2>5, <3>1, IdsTail, ZenonT(30)
    <3>4. (Ids(db') \union IdsOf(copy_insert')) \ IdsOf(copy_remove') = Target
      BY <1>0, <2>5, <3>1, <3>2, <3>3, IdsEmpty, ZenonT(30)
    <3> QED BY <1>0, <2>1, <2>2, <2>3, <3>1, <3>4, ZenonT(30) DEF TableStage
  <2>6. CASE copy_insert = <<>> /\ copy_remove = <<>>
    <3>1. UNCHANGED <<db, copy_insert, copy_remove>>
      BY <1>3, <2>6 DEF WriterUpdate
    <3> QED BY <1>0, <2>1, <2>3, <2>6, <3>1, ZenonT(30) DEF TableStage
  <2> QED BY <2>4, <2>5, <2>6, ZenonT(30)
<1> QED BY <1>1, <1>2, <1>3, ZenonT(30) DEF run_writer

\* Every step keeps it.
LEMMA NextTable == IInv /\ TableInv /\ [Next]_vars => TableInv'
<1> SUFFICES ASSUME IInv, TableInv, [Next]_vars, features' = {}, faults' = 0
             PROVE  TableStage'
  BY DEF TableInv
<1>0. features = {} /\ faults = 0 /\ TableStage
  BY FeaturesKept, ZenonT(30) DEF TableInv
<1>1. CASE run_dispatcher
  BY <1>0, <1>1, ZenonT(30) DEF run_dispatcher, RemoteAdd, RemoteReject, ReplyOk, ReplyFail, ReplyNoEntry,
                    TableStage
<1>2. CASE run_local_server
  BY <1>0, <1>2, LocalFollows, RemoveFollows DEF run_local_server
<1>3. CASE run_writer
  BY <1>0, <1>3, WriterFollows
<1>4. CASE wm_sync_agents
  BY <1>0, <1>4, ZenonT(30) DEF wm_sync_agents, SyncReadKeys, SyncReadRows, SyncUpdate, TableStage
<1>5. CASE Stop \/ UNCHANGED vars
  <2>1. UNCHANGED <<keyentries, id_counter, queue_insert, queue_remove, dpc, wpc, copy,
                    copy_insert, copy_remove, client_keys, db, spc>>
    BY <1>5, StopKeeps, ZenonT(30) DEF store, queues, dispatcher, writer, sync
  <2> QED BY <1>0, <2>1, ZenonT(30) DEF TableStage, Target
<1>6. CASE Restart
  <2>1. /\ wpc = "ended" /\ keyentries' = client_keys.entries /\ dpc' = "idle" /\ spc' = "off"
        /\ wpc' = "wait" /\ copy_insert' = <<>> /\ copy_remove' = <<>>
        /\ queue_insert' = <<>> /\ queue_remove' = <<>> /\ UNCHANGED <<client_keys, db>>
    BY <1>0, <1>6, ZenonT(30) DEF Restart, StartAuthd, StartModulesd, Replied
  <2>2. Ids(db) = IdsOf(client_keys.entries) /\ Target' = IdsOf(client_keys.entries)
    BY <1>0, <2>1, IdsEmpty DEF TableStage, Target
  <2> QED BY <2>1, <2>2, IdsEmpty, ZenonT(30) DEF TableStage
<1>7. CASE Crash
  BY <1>0, <1>7, SMTT(30), Z3T(30) DEF Crash
<1> QED BY <1>1, <1>2, <1>3, <1>4, <1>5, <1>6, <1>7 DEF Next

\* The local server and the writer keep a row for exactly the agents of client.keys
\* whenever the writer waits, whatever is replaced, rejected or removed before it was
\* inserted, and whatever change a stop drops, while nothing fails.
THEOREM TableInStep == Spec => []LocalTableMatchesKeys
<1>1. Init => TableInv
  <2> SUFFICES ASSUME Init PROVE TableStage
    BY DEF TableInv
  <2>1. client_keys.entries = <<>> /\ NoKeys.entries = <<>>
    BY ZenonT(30) DEF Init, NoKeys
  <2>2. Target = {} /\ Ids(db) = {}
    BY <2>1, IdsEmpty DEF Init, Ids, Target
  <2> QED BY <2>2, IdsEmpty DEF Init, TableStage
<1>2. TableInv => LocalTableMatchesKeys
  <2>1. ASSUME TableStage, wpc \in {"wait", "ended"}
        PROVE  Ids(db) = IdsOf(client_keys.entries)
    <3>1. IdsOf(copy_insert) = {} /\ IdsOf(copy_remove) = {}
      BY <2>1, IdsEmpty DEF TableStage
    <3>2. Ids(db) = Target
      BY <2>1, <3>1 DEF TableStage
    <3> QED BY <2>1, <3>2 DEF Target
  <2> QED BY <2>1, ZenonT(30) DEF TableInv, LocalTableMatchesKeys, TableMatchesKeys, IdsOf
<1> QED BY <1>1, <1>2, InitIInv, NextIInv, NextTable, PTL DEF Spec
=============================================================================
