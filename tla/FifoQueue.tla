----------------------------- MODULE FifoQueue -----------------------------
(***************************************************************************)
(* What a bounded queue promises its users: what is put in comes out once, *)
(* in the order it was put in; the queue holds at most Capacity items; it  *)
(* may be emptied as a whole.  Up to Chunk items are put in, or got out,   *)
(* at a time.  Where Urgent is TRUE an item may also be put in front, and  *)
(* where Lossy is TRUE a full queue may lose its oldest items to new ones. *)
(* The detailed modules implement it.                                      *)
(***************************************************************************)
EXTENDS Naturals, Sequences

CONSTANTS Item, Capacity, Urgent, Lossy, Chunk

VARIABLE queue

Front(q, n)  == SubSeq(q, 1, n)
Behind(q, n) == SubSeq(q, n + 1, Len(q))

Put ==
    \E n \in 1 .. Chunk :
        /\ Len(queue') = Len(queue) + n /\ Len(queue') <= Capacity
        /\ Front(queue', Len(queue)) = queue

PutFirst ==
    /\ Urgent
    /\ Len(queue') = Len(queue) + 1 /\ Len(queue') <= Capacity
    /\ Tail(queue') = queue

Replace ==
    /\ Lossy /\ Len(queue) = Capacity /\ Len(queue') = Capacity
    /\ \E n \in 1 .. Chunk : n <= Capacity /\ Front(queue', Capacity - n) = Behind(queue, n)

Get == \E n \in 1 .. Chunk : n <= Len(queue) /\ queue' = Behind(queue, n)

Clear == queue' = <<>>

Spec ==
    /\ queue = <<>>
    /\ [][queue' \in Seq(Item) /\ (Put \/ PutFirst \/ Replace \/ Get \/ Clear)]_queue
=============================================================================
