------------------------------ MODULE NetBuffer ------------------------------
(***************************************************************************)
(* The network buffers of one TCP connection of the manager                *)
(* (remoted/netbuffer.c): what nb_queue stores for the agent and the main  *)
(* thread sends when epoll reports the socket writable, and what the main  *)
(* thread receives and cuts into messages.                                 *)
(*                                                                         *)
(* A byte is a cell <<m, j>>, the j-th byte of the frame of message m: a    *)
(* header of header_size bytes that holds the size of the payload, and the *)
(* payload.  (The code's header is a uint32_t; header_size is 2 in the     *)
(* instances, so that a header can arrive in two parts.)                   *)
(*                                                                         *)
(* send_msg calls nb_queue with the mutex of the agent's key entry held,   *)
(* also while nb_queue sleeps, and OS_DeleteSocket needs that mutex before  *)
(* the socket can be closed: one call at a time, and no close during one.   *)
(***************************************************************************)
EXTENDS BQueue, FiniteSets

CONSTANTS Message,           \* messages queued for the agent
          Script,            \* the sequences of messages an agent may send
          Size,              \* the size of a message's payload
          header_size,       \* sizeof(uint32_t)
          send_buffer_size, send_chunk, receive_chunk, buffer_relax,
          OS_MAXSTR,
          None

\* A byte of a frame, and a bqueue_t of the size that nb_open asks for.
Cell  == (DOMAIN Size) \X Nat
Queue == [memory : UNION {[0 .. (n - 1) -> Cell \cup {Junk}] : n \in 0 .. send_buffer_size},
          head   : 0 .. send_buffer_size,
          tail   : 0 .. send_buffer_size,
          length : 0 .. send_buffer_size]

ASSUME NetBufferAssumption ==
  /\ {header_size, send_chunk, receive_chunk, OS_MAXSTR} \subseteq Nat \ {0}
  /\ send_buffer_size \in Nat \ {0, 1}
  /\ buffer_relax \in 0 .. 2
  /\ \A m \in DOMAIN Size : Size[m] \in Nat
  /\ Message \subseteq DOMAIN Size /\ \A m \in Message : Size[m] \in 1 .. OS_MAXSTR
  /\ Script \subseteq Seq(DOMAIN Size)
  /\ None \notin Queue

VARIABLES
  bqueue,     \* the send queue, None when the socket is closed
  interest,   \* the events epoll watches on the socket
  retry,      \* the message a sleeping nb_queue will push again, or None
  backlog,    \* history: the messages accepted and not yet sent completely
  offset,     \* history: the bytes already sent of the first one
  script,     \* history: the messages of the agent on this connection
  stream,     \* the bytes of the agent that are still to be received
  data,       \* the bytes received and not yet dispatched
  data_size,  \* the bytes allocated for data
  pushed      \* history: the payloads handed to rem_msgpush

sendVars == <<bqueue, interest, retry, backlog, offset>>
recvVars == <<script, stream, data, data_size, pushed>>
vars     == <<sendVars, recvVars>>

Frame(m)   == [j \in 1 .. (header_size + Size[m]) |-> <<m, j>>]
Payload(m) == [j \in 1 .. Size[m] |-> <<m, header_size + j>>]

Frames(ms) ==
  LET f[n \in 0 .. Len(ms)] == IF n = 0 THEN <<>> ELSE f[n - 1] \o Frame(ms[n])
  IN  f[Len(ms)]

Open == bqueue # None

Init ==
  /\ bqueue = None /\ interest = {} /\ retry = None
  /\ backlog = <<>> /\ offset = 0
  /\ script = <<>> /\ stream = <<>> /\ data = <<>> /\ data_size = 0 /\ pushed = <<>>

-----------------------------------------------------------------------------
\* handle_new_tcp_connection: nb_open of both buffers, then wnotify_add.  No
\* sender knows the socket before a message of this connection was handled.
handle_new_tcp_connection(ms) ==
  /\ ~Open
  /\ bqueue' = bqueue_init
  /\ interest' = {"READ"}
  /\ script' = ms
  /\ stream' = Frames(ms)
  /\ UNCHANGED <<retry, backlog, offset, data, data_size, pushed>>

\* _close_sock: close removes the socket from epoll; nb_close frees the buffers.
_close_sock ==
  /\ Open
  /\ retry = None
  /\ bqueue' = None /\ interest' = {}
  /\ backlog' = <<>> /\ offset' = 0
  /\ script' = <<>> /\ stream' = <<>> /\ data' = <<>> /\ data_size' = 0 /\ pushed' = <<>>
  /\ UNCHANGED retry
-----------------------------------------------------------------------------
\* The bookkeeping of a message that bqueue_push took.
Push_stale(m) ==
  /\ bqueue' = bqueue_push(bqueue, Frame(m))
  /\ interest' = IF _bqueue_used(bqueue') = Size[m] THEN {"READ", "WRITE"} ELSE interest
  /\ backlog' = Append(backlog, m)

Push(m) ==
  /\ bqueue' = bqueue_push(bqueue, Frame(m))
  /\ interest' = IF _bqueue_used(bqueue') = Len(Frame(m)) THEN {"READ", "WRITE"} ELSE interest
  /\ backlog' = Append(backlog, m)

nb_queue(m) ==
  /\ Open
  /\ retry = None
  /\ Fits(bqueue, Len(Frame(m)), send_buffer_size)
  /\ Push(m)
  /\ UNCHANGED <<retry, offset, recvVars>>

\* Not enough room: unlock and sleep(send_timeout_to_retry).
nb_queue_sleep(m) ==
  /\ Open
  /\ retry = None
  /\ ~Fits(bqueue, Len(Frame(m)), send_buffer_size)
  /\ retry' = m
  /\ UNCHANGED <<bqueue, interest, backlog, offset, recvVars>>

\* The second attempt; without room again the message is dropped.
nb_queue_retry ==
  /\ retry # None
  /\ retry' = None
  /\ IF Open /\ Fits(bqueue, Len(Frame(retry)), send_buffer_size)
     THEN Push(retry)
     ELSE UNCHANGED <<bqueue, interest, backlog>>
  /\ UNCHANGED <<offset, recvVars>>

\* The history after sent bytes left: the messages they complete are forgotten.
Advance(sent) ==
  LET total == offset + sent
      Done(n) == Len(Frames(SubSeq(backlog, 1, n))) <= total
      n == CHOOSE k \in 0 .. Len(backlog) : Done(k) /\ \A j \in (k + 1) .. Len(backlog) : ~Done(j)
  IN  /\ backlog' = SubSeq(backlog, n + 1, Len(backlog))
      /\ offset' = total - Len(Frames(SubSeq(backlog, 1, n)))

\* nb_send, called on a write event: send takes 1 .. n of the n bytes peeked.
\* (EAGAIN changes nothing; any other error is a _close_sock.)
nb_send(sent) ==
  /\ Open
  /\ "WRITE" \in interest
  /\ sent <= Len(bqueue_peek(bqueue, send_chunk))
  /\ bqueue' = bqueue_drop(bqueue, sent)
  /\ interest' = IF _bqueue_used(bqueue') = 0 THEN {"READ"} ELSE interest
  /\ Advance(sent)
  /\ UNCHANGED <<retry, recvVars>>
-----------------------------------------------------------------------------
\* The length a header at offset i announces.  A byte that does not start a
\* frame announces nothing sensible, here 0.
cur_len(buf, i) == IF buf[i + 1][2] = 1 THEN Size[buf[i + 1][1]] ELSE 0

\* cur_offset + cur_len: where the message of that header ends.
cur_end(buf, i) == i + header_size + cur_len(buf, i)

\* rem_msgpush of the message m, and what the rest of the loop does.
Prepend(r, m) == [r EXCEPT !.msgs = <<m>> \o @]

\* A loop that takes a message whose last byte is still missing.
Dispatch_short(buf) ==
  LET f[i \in 0 .. Len(buf)] ==
        IF i + header_size > Len(buf) THEN [i |-> i, msgs |-> <<>>, bad |-> FALSE]
        ELSE IF cur_len(buf, i) > OS_MAXSTR THEN [i |-> i, msgs |-> <<>>, bad |-> TRUE]
        ELSE IF cur_end(buf, i) > Len(buf) + 1 THEN [i |-> i, msgs |-> <<>>, bad |-> FALSE]
        ELSE [i |-> Len(buf), msgs |-> <<SubSeq(buf, i + header_size + 1, Len(buf))>>, bad |-> FALSE]
  IN  f[0]

\* The loop of nb_recv from offset 0: where it stops, what it hands to
\* rem_msgpush, and whether it stops at a length above OS_MAXSTR.
Dispatch(buf) ==
  LET f[i \in 0 .. Len(buf)] ==
        IF i + header_size > Len(buf) THEN [i |-> i, msgs |-> <<>>, bad |-> FALSE]
        ELSE IF cur_len(buf, i) > OS_MAXSTR THEN [i |-> i, msgs |-> <<>>, bad |-> TRUE]
        ELSE IF cur_end(buf, i) > Len(buf) THEN [i |-> i, msgs |-> <<>>, bad |-> FALSE]
        ELSE Prepend(f[cur_end(buf, i)], SubSeq(buf, i + header_size + 1, cur_end(buf, i)))
  IN  f[0]

Larger(a, b) == IF a > b THEN a ELSE b

\* The size of the block after the rest was moved to its start.
Relaxed(size, rest) ==
  CASE buffer_relax = 0 -> size
    [] buffer_relax = 1 -> Larger(rest, receive_chunk)
    [] buffer_relax = 2 -> rest

\* nb_recv when recv returns n bytes and every announced length is acceptable.
nb_recv(n) ==
  /\ Open
  /\ n <= Len(stream)
  /\ LET buf  == data \o SubSeq(stream, 1, n)
         d    == Dispatch(buf)
         size == Larger(data_size, Len(data) + receive_chunk)
     IN  /\ ~d.bad
         /\ pushed' = pushed \o d.msgs
         /\ data' = SubSeq(buf, d.i + 1, Len(buf))
         /\ data_size' = IF d.i > 0 THEN Relaxed(size, Len(data')) ELSE size
  /\ stream' = SubSeq(stream, n + 1, Len(stream))
  /\ UNCHANGED <<script, sendVars>>

\* nb_recv meets a length above OS_MAXSTR: it returns -2, after it handed over
\* the messages before it, and handle_incoming_data_from_tcp_socket closes.
nb_recv_toobig(n) ==
  /\ n <= Len(stream)
  /\ Dispatch(data \o SubSeq(stream, 1, n)).bad
  /\ _close_sock

Next ==
  \/ \E ms \in Script : handle_new_tcp_connection(ms)
  \/ _close_sock
  \/ \E m \in Message : nb_queue(m) \/ nb_queue_sleep(m)
  \/ nb_queue_retry
  \/ \E sent \in 1 .. send_chunk : nb_send(sent)
  \/ \E n \in 1 .. receive_chunk : nb_recv(n) \/ nb_recv_toobig(n)

Spec == Init /\ [][Next]_vars
-----------------------------------------------------------------------------
\* The bytes the manager still owes the agent.
Owed == SubSeq(Frames(backlog), offset + 1, Len(Frames(backlog)))

\* The fields have their types, the offsets stay inside of the memory, and the
\* memory of the send queue never grows past send_buffer_size (bqueue_push).  The
\* receive block holds the rest of one message and one chunk at most, and it is
\* never smaller than the data in it, whatever buffer_relax frees.
TypeOK ==
  /\ interest \in {{}, {"READ"}, {"READ", "WRITE"}}
  /\ retry \in Message \cup {None}
  /\ Open <=> interest # {}
  /\ Open => /\ bqueue.length \in 0 .. send_buffer_size
             /\ DOMAIN bqueue.memory = 0 .. (bqueue.length - 1)
             /\ {bqueue.head, bqueue.tail} \subseteq 0 .. (bqueue.length - 1) \cup {0}
  /\ data_size \in Len(data) .. (header_size + OS_MAXSTR - 1 + receive_chunk)

\* The ring keeps the byte stream: whatever it was wrapped, expanded or shrunk
\* into, a peek of nb_send yields the next bytes of the accepted frames, in
\* order, none lost, doubled or torn by a refused message.
StreamIntact ==
  Open => /\ _bqueue_used(bqueue) = Len(Owed)
          /\ \A n \in 1 .. send_buffer_size :
               bqueue_peek(bqueue, n) = SubSeq(Owed, 1, IF n < Len(Owed) THEN n ELSE Len(Owed))

\* epoll watches for writability exactly while there is something to send: with
\* data and no interest the data would stay for ever, with interest and no data
\* the main thread would spin (nb_queue and nb_send change it on the edges only).
WriteInterestKept ==
  Open => ("WRITE" \in interest <=> _bqueue_used(bqueue) > 0)

\* nb_recv hands over exactly the messages whose last byte has arrived, in the
\* order of the stream, however the bytes were cut into receives.
MessagesInOrder ==
  LET received == Len(Frames(script)) - Len(stream)
      Complete == {n \in 0 .. Len(script) : Len(Frames(SubSeq(script, 1, n))) <= received}
      n == CHOOSE k \in Complete : \A j \in Complete : j <= k
  IN  pushed = [k \in 1 .. n |-> Payload(script[k])]
=============================================================================
