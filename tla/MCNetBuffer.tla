----------------------------- MODULE MCNetBuffer -----------------------------
(* Instances of NetBuffer for TLC. *)
EXTENDS NetBuffer

CONSTANTS a, b, e, big

\* b is as large as a message may be, e has no payload, big is one byte too large.
MCSize == [m \in {a, b, e, big} |->
             CASE m = a -> 1 [] m = b -> 3 [] m = e -> 0 [] m = big -> OS_MAXSTR + 1]

MCScript == {<<>>} \cup {<<x, y, z>> : x \in {a, e}, y \in {a, b, big}, z \in {a, b, e}}

\* The two directions share no data: it is enough to explore the bytes of the
\* agent while nothing is queued for it.
OneDirection == script = <<>> \/ (backlog = <<>> /\ retry = None)
=============================================================================
