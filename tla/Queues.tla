------------------------------- MODULE Queues --------------------------------
(* What the queues of the buffer and of the serializer have in common. *)
EXTENDS Naturals, Sequences

(* The i-th entry leaves the queue: append(q[:i], q[i+1:]...). *)
Without(q, i) == SubSeq(q, 1, i - 1) \o SubSeq(q, i + 1, Len(q))
=============================================================================
