----------------------------- MODULE BoundedFifo -----------------------------
(***************************************************************************)
(* What a bounded event queue promises its users, whatever its memory      *)
(* layout: a call either stores the event at the tail, or is refused       *)
(* because Capacity events are stored; one consumer takes the events from  *)
(* the head, one at a time, and delivers each one before the next.         *)
(***************************************************************************)
EXTENDS Integers, Sequences

CONSTANTS Caller,    \* threads that append
          Value,     \* events
          Capacity,  \* events the queue can hold
          None       \* "no event", "no result yet"

VARIABLES queue,     \* the stored events, oldest first
          out,       \* the event the consumer has taken and not yet delivered
          rc         \* result of the last call of each caller

vars == <<queue, out, rc>>

Init ==
  /\ queue = <<>>
  /\ out = None
  /\ rc = [c \in Caller |-> 0]

Call(c) ==
  /\ rc[c] # None
  /\ rc' = [rc EXCEPT ![c] = None]
  /\ UNCHANGED <<queue, out>>

Store(c, v) ==
  /\ rc[c] = None
  /\ Len(queue) < Capacity
  /\ queue' = Append(queue, v)
  /\ rc' = [rc EXCEPT ![c] = 0]
  /\ UNCHANGED out

Refuse(c) ==
  /\ rc[c] = None
  /\ Len(queue) = Capacity
  /\ rc' = [rc EXCEPT ![c] = -1]
  /\ UNCHANGED <<queue, out>>

Take ==
  /\ out = None
  /\ queue # <<>>
  /\ out' = Head(queue)
  /\ queue' = Tail(queue)
  /\ UNCHANGED rc

Deliver ==
  /\ out # None
  /\ out' = None
  /\ UNCHANGED <<queue, rc>>

Next ==
  \/ \E c \in Caller : Call(c) \/ Refuse(c) \/ \E v \in Value : Store(c, v)
  \/ Take
  \/ Deliver

Spec == Init /\ [][Next]_vars
=============================================================================
