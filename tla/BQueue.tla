------------------------------- MODULE BQueue -------------------------------
(***************************************************************************)
(* The binary queue of shared/bqueue_op.c: a ring of bytes whose memory is  *)
(* reallocated when data does not fit and halved when it is less than half *)
(* used.  The operations are operators on a record with the fields of      *)
(* bqueue_t; the pointers head and tail are offsets into memory.  Every    *)
(* function of the file runs under the queue's mutex, so an operation is   *)
(* one step of whoever calls it.                                           *)
(*                                                                         *)
(* Junk stands for a byte nobody has written (malloc, realloc) or that was *)
(* dropped: an operation that reads one hands it to its caller.            *)
(*                                                                         *)
(* bqueue_pop, bqueue_clear and the flag BQUEUE_WAIT have no caller in the *)
(* program and are left out: a pop is a peek followed by a drop.           *)
(***************************************************************************)
EXTENDS Naturals, Sequences

CONSTANT Junk

bqueue_init == [memory |-> <<>>, head |-> 0, tail |-> 0, length |-> 0]

_bqueue_trim == bqueue_init

_bqueue_used(q) ==
  IF q.length > 0 THEN (q.tail + q.length - q.head) % q.length ELSE 0

_bqueue_empty(q) == q.head = q.tail

\* memcpy and memmove of n bytes inside one block.
memmove(mem, dst, src, n) ==
  [i \in DOMAIN mem |-> IF i \in dst .. (dst + n - 1) THEN mem[src + (i - dst)] ELSE mem[i]]

\* memcpy of n bytes of the sequence data, from its offset from.
store(mem, dst, data, from, n) ==
  [i \in DOMAIN mem |-> IF i \in dst .. (dst + n - 1) THEN data[from + (i - dst) + 1] ELSE mem[i]]

os_realloc(mem, n) == [i \in 0 .. (n - 1) |-> IF i \in DOMAIN mem THEN mem[i] ELSE Junk]

\* The bytes outside of the data have no defined value any more.
Forget(q) ==
  [q EXCEPT !.memory = [i \in DOMAIN @ |->
     IF (i + q.length - q.head) % q.length < _bqueue_used(q) THEN @[i] ELSE Junk]]

_bqueue_expand(q, new_length) ==
  LET mem    == os_realloc(q.memory, new_length)
      growth == new_length - q.length
  IN  CASE q.tail >= q.head ->
             [q EXCEPT !.memory = mem, !.length = new_length]
        [] q.tail < q.head /\ q.tail <= growth ->
             [q EXCEPT !.memory = memmove(mem, q.length, 0, q.tail),
                       !.tail   = (q.length + q.tail) % new_length,
                       !.length = new_length]
        [] q.tail < q.head /\ q.tail > growth ->
             [q EXCEPT !.memory = memmove(memmove(mem, q.length, 0, growth), 0, growth, q.tail - growth),
                       !.tail   = q.tail - growth,
                       !.length = new_length]

\* A move that forgets the chunk that crosses the new end.
Moved_nochunk(q, new_length) ==
  LET chunk_len == q.tail - new_length
      shift == q.length - new_length
  IN  CASE q.head < q.tail /\ new_length <= q.head ->
             [q EXCEPT !.memory = memmove(@, 0, q.head, q.tail - q.head),
                       !.head = 0, !.tail = q.tail - q.head]
        [] q.head < q.tail /\ q.head < new_length /\ new_length <= q.tail ->
             [q EXCEPT !.tail = chunk_len]
        [] q.head < q.tail /\ q.tail < new_length -> q
        [] q.head > q.tail ->
             [q EXCEPT !.memory = memmove(@, q.head - shift, q.head, q.length - q.head),
                       !.head = q.head - shift]

\* _bqueue_shrink first moves the data out of the part that it gives back.
Moved(q, new_length) ==
  LET chunk_len == q.tail - new_length
      shift == q.length - new_length
  IN  CASE q.head < q.tail /\ new_length <= q.head ->
             [q EXCEPT !.memory = memmove(@, 0, q.head, q.tail - q.head),
                       !.head = 0, !.tail = q.tail - q.head]
        [] q.head < q.tail /\ q.head < new_length /\ new_length <= q.tail ->
             [q EXCEPT !.memory = memmove(@, 0, q.tail - chunk_len, chunk_len),
                       !.tail = chunk_len]
        [] q.head < q.tail /\ q.tail < new_length -> q
        [] q.head > q.tail ->
             [q EXCEPT !.memory = memmove(@, q.head - shift, q.head, q.length - q.head),
                       !.head = q.head - shift]

\* Only called on a queue that is not empty.
_bqueue_shrink(q, new_length) ==
  [Moved(q, new_length) EXCEPT !.memory = os_realloc(@, new_length), !.length = new_length]

_bqueue_insert(q, data) ==
  LET data_len  == Len(data)
      chunk_len == IF q.tail + data_len <= q.length THEN data_len ELSE q.length - q.tail
  IN  [q EXCEPT !.memory = store(store(@, q.tail, data, 0, chunk_len), 0, data, chunk_len, data_len - chunk_len),
                !.tail   = (q.tail + data_len) % q.length]

\* The bytes _bqueue_extract copies into a buffer of buffer_len bytes.
_bqueue_extract(q, buffer_len) ==
  LET bytes(from, n) == [i \in 1 .. n |-> q.memory[from + i - 1]]
      smaller(a, b)  == IF a < b THEN a ELSE b
      head_len == q.length - q.head
  IN  IF q.head > q.tail
      THEN IF buffer_len < head_len
           THEN bytes(q.head, buffer_len)
           ELSE bytes(q.head, head_len) \o bytes(0, smaller(buffer_len - head_len, q.tail))
      ELSE bytes(q.head, smaller(buffer_len, q.tail - q.head))

\* An off-by-one in the test for room.
Fits_off(q, length, max_length) == length < max_length /\ length + _bqueue_used(q) <= max_length

Fits(q, length, max_length) == length < max_length /\ length + _bqueue_used(q) < max_length

\* bqueue_push of data that fits.
bqueue_push(q, data) ==
  LET needed == Len(data) + _bqueue_used(q)
      room   == IF needed >= q.length THEN _bqueue_expand(q, needed + 1) ELSE q
  IN  Forget(_bqueue_insert(room, data))

bqueue_peek(q, length) == IF _bqueue_empty(q) THEN <<>> ELSE _bqueue_extract(q, length)

\* bqueue_drop of 1 .. _bqueue_used(q) bytes from a queue made with BQUEUE_SHRINK.
bqueue_drop(q, length) ==
  LET dropped == [q EXCEPT !.head = (q.head + length) % q.length]
  IN  CASE _bqueue_empty(dropped) -> _bqueue_trim
        [] ~_bqueue_empty(dropped) /\ _bqueue_used(dropped) < q.length \div 2 ->
             Forget(_bqueue_shrink(dropped, q.length \div 2))
        [] ~_bqueue_empty(dropped) /\ _bqueue_used(dropped) >= q.length \div 2 -> Forget(dropped)
=============================================================================
