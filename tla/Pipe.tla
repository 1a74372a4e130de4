-------------------------------- MODULE Pipe --------------------------------
(***************************************************************************)
(* The pipe device of src/components/drivers/src/pipe.c: a ring buffer,    *)
(* readers that wait until it holds a byte and writers that wait until it  *)
(* has room for one.  rt_pipe_read and rt_pipe_write, from threads and,    *)
(* where the flags of the pipe say that they do not block, from an         *)
(* interrupt.  rt_pipe_init is Init; the receive indication is left to the *)
(* application, and nobody registers one here.                             *)
(***************************************************************************)
EXTENDS Ipc, RingBuffer

CONSTANTS
    Flags,       \* the values of pipe->flag, sets of the names of its bits
    Lengths,     \* the lengths of the buffers that are read and written
    Overruns     \* forced writes may pass the read index

\* The length of a call goes through an rt_uint16_t (ringbuffer.c:52, 101,
\* 152), and an index has 15 bits. A longer call would be cut to its remainder.
LengthMax == 65535
SizeMax   == 32767

PipeAssumption ==
    /\ {"read", "write"} \subseteq SuspendList
    /\ Flags \subseteq SUBSET {"BLOCK_RD", "BLOCK_WR", "FORCE_WR"}
    /\ Lengths \subseteq 1 .. LengthMax
    /\ Overruns \in BOOLEAN
    /\ Size \in 1 .. SizeMax

VARIABLES
    rb,          \* pipe->ringbuffer
    flag,        \* pipe->flag
    call         \* the call thread t waits in: its list, its data or length

vars == <<k, pc, rb, flag, call>>

NoCall == [q |-> "read", data |-> <<>>, n |-> 0]

\* The buffers that are written.
Data == UNION {[1 .. n -> Byte] : n \in Lengths}

\* Those a caller writes now. Unless Overruns it does not force more bytes
\* into a buffer that is not full than it has room for: there the write index
\* passes the read index, and the mirrors no longer fit.
Asked ==
    {d \in Data : \/ Overruns \/ "FORCE_WR" \notin flag
                  \/ rt_ringbuffer_status(rb) = "FULL"
                  \/ Len(d) <= rt_ringbuffer_space_len(rb)}

\* Thread t is inside a call that has suspended it.
Inside(t) == pc[t] \in {"wait", "woken"}

\* The threads inside a call that the other side has woken.
Woken(q) ==
    {t \in Thread : Inside(t) /\ call[t].q = q /\ t \notin Range(k.susp[q])}

TypeOK ==
    /\ k \in KernelState
    /\ pc \in [Thread -> IpcLabel]
    /\ rb \in RingBuffers
    /\ flag \in Flags
    /\ call \in [Thread -> [q : {"read", "write"}, data : Data \union {<<>>},
                            n : Lengths \union {0}]]

Init ==
    /\ IpcInit
    /\ \E v \in Byte : rb = rt_ringbuffer_init([i \in 0 .. Size - 1 |-> v])
    /\ flag \in Flags
    /\ call = [t \in Thread |-> NoCall]

-----------------------------------------------------------------------------

\* The other side is woken, one thread of it, and rt_schedule called before
\* interrupts are enabled.
Resumed(q) ==
    IF k.susp[q] = <<>> THEN k ELSE rt_schedule(rt_ipc_list_resume(k, q))

\* Mutant: a writer is only woken by a read that finds the buffer full.
ReadsWakesAtFull(n) ==
    /\ rt_ringbuffer_data_len(rb) > 0
    /\ rb' = rt_ringbuffer_get(rb, n)
    /\ k' = IF rt_ringbuffer_space_len(rb) = 0 THEN Resumed("write") ELSE k

\* A read of n bytes that finds at least one.
Reads(n) ==
    /\ rt_ringbuffer_data_len(rb) > 0
    /\ rb' = rt_ringbuffer_get(rb, n)
    /\ k' = Resumed("write")

\* A write of d that stores at least one byte.
Writes(d) ==
    /\ rt_ringbuffer_space_len(rb) > 0
    /\ rb' = rt_ringbuffer_put(rb, d)
    /\ k' = Resumed("read")

\* What a call without blocking does. A read of nothing leaves everything as
\* it is; a write wakes a reader even where it stores nothing.
ReadsNow(n) == "BLOCK_RD" \notin flag /\ Reads(n)

WritesNow(d) ==
    /\ \/ "FORCE_WR" \in flag /\ rb' = rt_ringbuffer_put_force(rb, d)
       \/ /\ flag \intersect {"FORCE_WR", "BLOCK_WR"} = {}
          /\ rb' = rt_ringbuffer_put(rb, d)
    /\ k' = Resumed("read")

\* The call waits on its list, for ever.
Waits(t, c) ==
    /\ k' = rt_ipc_list_suspend(k, c.q, t, "FIFO")
    /\ Goto(t, "wait")
    /\ call' = [call EXCEPT ![t] = c]
    /\ UNCHANGED rb

\* One turn of the loop of a call that blocks.
Try(t, c) ==
    \/ /\ \/ c.q = "read" /\ Reads(c.n)
          \/ c.q = "write" /\ Writes(c.data)
       /\ Goto(t, "run")
       /\ call' = [call EXCEPT ![t] = NoCall]
    \/ /\ IF c.q = "read" THEN rt_ringbuffer_data_len(rb) = 0
          ELSE rt_ringbuffer_space_len(rb) = 0
       /\ Waits(t, c)

rt_pipe_read(t) ==
    /\ CallsFrom(t, "read")
    /\ \E n \in Lengths :
          \/ ReadsNow(n) /\ UNCHANGED <<pc, call>>
          \/ "BLOCK_RD" \in flag /\ Try(t, [NoCall EXCEPT !.n = n])
    /\ UNCHANGED flag

rt_pipe_write(t) ==
    /\ CallsFrom(t, "write")
    /\ \E d \in Asked :
          \/ WritesNow(d) /\ UNCHANGED <<pc, call>>
          \/ /\ "FORCE_WR" \notin flag /\ "BLOCK_WR" \in flag
             /\ Try(t, [NoCall EXCEPT !.q = "write", !.data = d])
    /\ UNCHANGED flag

\* Behind rt_schedule the loop goes round.
CallGoesOn(t) == At(t, "woken") /\ Try(t, call[t]) /\ UNCHANGED flag

IsrCall ==
    /\ \/ IsrCalls("isr_read") /\ \E n \in Lengths : ReadsNow(n)
       \/ IsrCalls("isr_write") /\ \E d \in Asked : WritesNow(d)
    /\ UNCHANGED <<pc, flag, call>>

Next ==
    \/ \E t \in Thread : rt_pipe_read(t) \/ rt_pipe_write(t) \/ CallGoesOn(t)
    \/ IsrCall
    \/ Background /\ UNCHANGED <<rb, flag, call>>

Spec == Init /\ [][Next]_vars

-----------------------------------------------------------------------------
(* Properties.                                                             *)

\* Readers and writers do not wait for each other: each successful call wakes
\* one thread of the other side, and so a writer waits beside an empty buffer,
\* a reader beside a full one, or both at once, only while a thread that was
\* woken has yet to go on (pipe.c:31, 111). With Overruns a reader may wait
\* beside a buffer that seems full: a forced write that passes the read index
\* leaves fewer or more bytes than the readers were woken for.
NoStandoff ==
    /\ k.susp["write"] # <<>> /\ rt_ringbuffer_data_len(rb) = 0 => Woken("write") # {}
    /\ k.susp["read"] # <<>> /\ rt_ringbuffer_space_len(rb) = 0 => Woken("read") # {}
    /\ k.susp["read"] # <<>> /\ k.susp["write"] # <<>>
          => Woken("read") \union Woken("write") # {}

\* The pipe is a queue of Size bytes: bytes are read once, in the order they
\* were written, whatever the lengths; a forced write into a full pipe puts
\* its bytes in the place of the oldest (ringbuffer.c:97). It is not one where
\* a forced write passes the read index.
Queue == INSTANCE FifoQueue WITH
    Item <- Byte, Capacity <- Size, Urgent <- FALSE, Lossy <- TRUE,
    Chunk <- Size, queue <- Content(rb)

IsQueue == Queue!Spec
=============================================================================
