----------------------------- MODULE RingBuffer -----------------------------
(***************************************************************************)
(* The ring buffer of src/components/drivers/src/ringbuffer.c, as          *)
(* operators on its structure.  Each index has a mirror bit, which flips   *)
(* when the index passes the end of the buffer: equal indices mean an      *)
(* empty buffer when the mirrors agree and a full one when they differ.    *)
(*                                                                         *)
(* A buffer is a record with the fields                                    *)
(*   buf   buffer_ptr, the bytes 0 .. Size - 1                             *)
(*   ri    read_index       rm   read_mirror                               *)
(*   wi    write_index      wm   write_mirror                              *)
(***************************************************************************)
EXTENDS Integers, Sequences

CONSTANTS
    Byte,        \* the values of a byte
    Size         \* buffer_size

RingBuffers ==
    [buf : [0 .. Size - 1 -> Byte], ri : 0 .. Size - 1, rm : {0, 1},
     wi : 0 .. Size - 1, wm : {0, 1}]

\* rt_ringbuffer_init. What the pool holds does not matter.
rt_ringbuffer_init(pool) == [buf |-> pool, ri |-> 0, rm |-> 0, wi |-> 0, wm |-> 0]

rt_ringbuffer_status(rb) ==
    IF rb.ri = rb.wi THEN IF rb.rm = rb.wm THEN "EMPTY" ELSE "FULL"
    ELSE "HALFFULL"

rt_ringbuffer_data_len(rb) ==
    IF rb.ri = rb.wi THEN IF rb.rm = rb.wm THEN 0 ELSE Size
    ELSE IF rb.wi > rb.ri THEN rb.wi - rb.ri
    ELSE Size - (rb.ri - rb.wi)

rt_ringbuffer_space_len(rb) == Size - rt_ringbuffer_data_len(rb)

\* The memory with the bytes d written from index i on, around the end.
Written(buf, i, d) ==
    [j \in 0 .. Size - 1 |->
       IF j >= i /\ j - i < Len(d) THEN d[j - i + 1]
       ELSE IF j < i /\ j - i + Size < Len(d) THEN d[j - i + Size + 1]
       ELSE buf[j]]

\* An index i of mirror m after n bytes.
Index(i, n)     == IF Size - i > n THEN i + n ELSE n - (Size - i)
Mirror(i, m, n) == IF Size - i > n THEN m ELSE 1 - m

\* The write index behind d.
Advanced(rb, d) ==
    [rb EXCEPT !.buf = Written(rb.buf, rb.wi, d),
               !.wi  = Index(rb.wi, Len(d)),
               !.wm  = Mirror(rb.wi, rb.wm, Len(d))]

\* The first n elements.
First(d, n) == IF n < Len(d) THEN SubSeq(d, 1, n) ELSE d

\* Bytes that find no space are dropped.
rt_ringbuffer_put(rb, d) ==
    IF rt_ringbuffer_space_len(rb) = 0 THEN rb
    ELSE Advanced(rb, First(d, rt_ringbuffer_space_len(rb)))

\* The read index follows the write index when the buffer was full.
rt_ringbuffer_put_force(rb, d) ==
    LET e == First(d, Size)
        r == Advanced(rb, e)
    IN  IF rt_ringbuffer_status(rb) # "FULL" THEN r
        ELSE [r EXCEPT !.ri = r.wi, !.rm = Mirror(rb.wi, rb.rm, Len(e))]

\* The number of bytes that rt_ringbuffer_get returns when n are asked for.
Count(rb, n) ==
    IF rt_ringbuffer_data_len(rb) < n THEN rt_ringbuffer_data_len(rb) ELSE n

\* The bytes it copies, and the buffer it leaves.
rt_ringbuffer_copied(rb, n) ==
    [i \in 1 .. Count(rb, n) |-> rb.buf[Index(rb.ri, i - 1)]]

rt_ringbuffer_get(rb, n) ==
    IF rt_ringbuffer_data_len(rb) = 0 THEN rb
    ELSE [rb EXCEPT !.ri = Index(rb.ri, Count(rb, n)),
                    !.rm = Mirror(rb.ri, rb.rm, Count(rb, n))]

\* The functions for one character.
PutChar(rb, c) ==
    IF rb.wi = Size - 1
    THEN [rb EXCEPT !.buf = [@ EXCEPT ![rb.wi] = c], !.wm = 1 - @, !.wi = 0]
    ELSE [rb EXCEPT !.buf = [@ EXCEPT ![rb.wi] = c], !.wi = @ + 1]

rt_ringbuffer_putchar(rb, c) ==
    IF rt_ringbuffer_space_len(rb) = 0 THEN rb ELSE PutChar(rb, c)

rt_ringbuffer_putchar_force(rb, c) ==
    LET r == PutChar(rb, c)
    IN  IF rt_ringbuffer_status(rb) # "FULL" THEN r
        ELSE [r EXCEPT !.ri = r.wi, !.rm = IF rb.wi = Size - 1 THEN 1 - @ ELSE @]

rt_ringbuffer_getchar(rb) ==
    IF rt_ringbuffer_data_len(rb) = 0 THEN rb
    ELSE IF rb.ri = Size - 1 THEN [rb EXCEPT !.rm = 1 - @, !.ri = 0]
    ELSE [rb EXCEPT !.ri = @ + 1]

-----------------------------------------------------------------------------

\* What the buffer holds, the oldest byte first.
Content(rb) == rt_ringbuffer_copied(rb, Size)
=============================================================================
