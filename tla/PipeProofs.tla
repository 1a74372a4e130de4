----------------------------- MODULE PipeProofs -----------------------------
(***************************************************************************)
(* The pipe implements a queue of bytes, for every buffer size, number of  *)
(* threads, and lengths of reads and writes, where a forced write fits or  *)
(* finds the buffer full.                                                  *)
(***************************************************************************)
EXTENDS Pipe, RingBufferProofs

USE SMTT(30), ZenonT(30)

\* The inductive invariant: the mirrors of the buffer fit its indices, and a
\* call that waits keeps bytes to write and a length to read.
PipeInv ==
    /\ Valid(rb)
    /\ call \in [Thread -> [q : {"read", "write"}, data : Seq(Byte), n : Nat]]

\* What a step may do to the ring buffer.
RingStep ==
    \/ rb' = rb
    \/ \E n \in Nat : rt_ringbuffer_data_len(rb) > 0 /\ rb' = rt_ringbuffer_get(rb, n)
    \/ \E d \in Seq(Byte) : rb' = rt_ringbuffer_put(rb, d)
    \/ \E d \in Seq(Byte) : /\ Len(d) > 0 /\ rb' = rt_ringbuffer_put_force(rb, d)
                           /\ \/ rt_ringbuffer_status(rb) = "FULL"
                              \/ Len(d) <= rt_ringbuffer_space_len(rb)

\* Lengths and the size of the buffer are positive numbers.
LEMMA Bounds ==
    ASSUME PipeAssumption
    PROVE  Lengths \subseteq Nat \ {0} /\ Size \in Nat \ {0}
<1>1. LengthMax \in Nat /\ SizeMax \in Nat
  BY DEF LengthMax, SizeMax
<1>2. Lengths \subseteq 1 .. LengthMax /\ Size \in 1 .. SizeMax
  BY Zenon DEF PipeAssumption
<1> QED BY <1>1, <1>2

\* The bytes that are written are a sequence, and not an empty one.
LEMMA DataIsSeq ==
    ASSUME PipeAssumption, NEW d \in Data
    PROVE  d \in Seq(Byte) /\ Len(d) > 0
BY Bounds DEF Data

\* A turn of the loop reads, writes, or leaves the buffer, and keeps the types.
LEMMA TrySteps ==
    ASSUME PipeInv, NEW t \in Thread,
           NEW c \in [q : {"read", "write"}, data : Seq(Byte), n : Nat], Try(t, c)
    PROVE  /\ RingStep
           /\ call' \in [Thread -> [q : {"read", "write"}, data : Seq(Byte), n : Nat]]
<1>1. NoCall \in [q : {"read", "write"}, data : Seq(Byte), n : Nat]
  BY DEF NoCall
<1>2. CASE Reads(c.n) /\ call' = [call EXCEPT ![t] = NoCall]
  BY <1>1, <1>2 DEF Reads, RingStep, PipeInv
<1>3. CASE Writes(c.data) /\ call' = [call EXCEPT ![t] = NoCall]
  BY <1>1, <1>3 DEF Writes, RingStep, PipeInv
<1>4. CASE Waits(t, c)
  BY <1>4 DEF Waits, RingStep, PipeInv
<1> QED BY <1>2, <1>3, <1>4 DEF Try

\* Every step of the pipe.
LEMMA StepsOfTheBuffer ==
    ASSUME PipeAssumption, ~Overruns, PipeInv, [Next]_vars
    PROVE  /\ RingStep
           /\ call' \in [Thread -> [q : {"read", "write"}, data : Seq(Byte), n : Nat]]
<1>1. Lengths \subseteq Nat
  BY Bounds
<1>2. ASSUME NEW n \in Lengths, ReadsNow(n) PROVE RingStep
  BY <1>1, <1>2 DEF ReadsNow, Reads, RingStep
<1>3. ASSUME NEW d \in Asked, WritesNow(d) PROVE RingStep
  <2>1. d \in Seq(Byte) /\ Len(d) > 0
    BY DataIsSeq DEF Asked
  <2>2. CASE "FORCE_WR" \in flag /\ rb' = rt_ringbuffer_put_force(rb, d)
    BY <2>1, <2>2 DEF RingStep, Asked
  <2>3. CASE rb' = rt_ringbuffer_put(rb, d)
    BY <2>1, <2>3 DEF RingStep
  <2> QED BY <1>3, <2>2, <2>3 DEF WritesNow
<1>4. ASSUME NEW t \in Thread, rt_pipe_read(t)
      PROVE  /\ RingStep
             /\ call' \in [Thread -> [q : {"read", "write"}, data : Seq(Byte), n : Nat]]
  <2>1. PICK n \in Lengths :
           \/ ReadsNow(n) /\ UNCHANGED <<pc, call>>
           \/ Try(t, [NoCall EXCEPT !.n = n])
    BY <1>4 DEF rt_pipe_read
  <2>2. CASE ReadsNow(n) /\ UNCHANGED call
    BY <2>2, <1>2 DEF PipeInv
  <2>3. CASE Try(t, [NoCall EXCEPT !.n = n])
    <3>1. [NoCall EXCEPT !.n = n] \in [q : {"read", "write"}, data : Seq(Byte), n : Nat]
      <4>1. n \in Nat
        BY <1>1
      <4>2. NoCall \in [q : {"read", "write"}, data : Seq(Byte), n : Nat]
        BY DEF NoCall
      <4> QED BY <4>1, <4>2
    <3> QED BY <3>1, <2>3, TrySteps
  <2> QED BY <2>1, <2>2, <2>3
<1>5. ASSUME NEW t \in Thread, rt_pipe_write(t)
      PROVE  /\ RingStep
             /\ call' \in [Thread -> [q : {"read", "write"}, data : Seq(Byte), n : Nat]]
  <2>1. PICK d \in Asked :
           \/ WritesNow(d) /\ UNCHANGED <<pc, call>>
           \/ Try(t, [NoCall EXCEPT !.q = "write", !.data = d])
    BY <1>5 DEF rt_pipe_write
  <2>2. CASE WritesNow(d) /\ UNCHANGED call
    BY <2>2, <1>3 DEF PipeInv
  <2>3. CASE Try(t, [NoCall EXCEPT !.q = "write", !.data = d])
    <3>1. d \in Seq(Byte)
      BY DataIsSeq DEF Asked
    <3>2. [NoCall EXCEPT !.q = "write", !.data = d]
            \in [q : {"read", "write"}, data : Seq(Byte), n : Nat]
      BY <3>1 DEF NoCall
    <3> QED BY <3>2, <2>3, TrySteps
  <2> QED BY <2>1, <2>2, <2>3
<1>6. ASSUME NEW t \in Thread, CallGoesOn(t)
      PROVE  /\ RingStep
             /\ call' \in [Thread -> [q : {"read", "write"}, data : Seq(Byte), n : Nat]]
  <2>1. call[t] \in [q : {"read", "write"}, data : Seq(Byte), n : Nat]
    BY DEF PipeInv
  <2> QED BY <2>1, <1>6, TrySteps DEF CallGoesOn
<1>7. CASE IsrCall
  <2>1. UNCHANGED call
    BY <1>7 DEF IsrCall
  <2>2. \/ \E n \in Lengths : ReadsNow(n)
        \/ \E d \in Asked : WritesNow(d)
    BY <1>7 DEF IsrCall
  <2> QED BY <2>1, <2>2, <1>2, <1>3 DEF PipeInv
<1>8. CASE UNCHANGED <<rb, call>>
  BY <1>8 DEF RingStep, PipeInv
<1> QED BY <1>4, <1>5, <1>6, <1>7, <1>8 DEF Next, vars

\* What each of these steps is to the queue.
LEMMA RingStepIsQueueStep ==
    ASSUME PipeAssumption, PipeInv, RingStep
    PROVE  /\ Valid(rb)'
           /\ \/ Content(rb)' = Content(rb)
              \/ /\ Content(rb)' \in Seq(Byte)
                 /\ Queue!Put \/ Queue!Replace \/ Queue!Get
<1>1. Size \in Nat \ {0} /\ Valid(rb)
  BY Bounds DEF PipeInv
<1>2. PICK c, s : c = Content(rb) /\ s = Content(rb')
  OBVIOUS
<1>3. /\ c \in Seq(Byte) /\ Len(c) = rt_ringbuffer_data_len(rb)
      /\ rt_ringbuffer_data_len(rb) \in 0 .. Size
  BY <1>1, <1>2, ContentIs, LenByMirror
<1>4. Valid(rb') => s \in Seq(Byte) /\ Len(s) \in 0 .. Size
  <2>1. Valid(rb') => /\ s \in Seq(Byte) /\ Len(s) = rt_ringbuffer_data_len(rb')
                      /\ rt_ringbuffer_data_len(rb') \in 0 .. Size
    BY <1>1, <1>2, ContentIs, LenByMirror
  <2> QED BY <2>1
<1>5. ASSUME NEW e \in Seq(Byte), Valid(rb'), s = c \o e
      PROVE  s = c \/ \E n \in 1 .. Size : /\ Len(s) = Len(c) + n /\ Len(s) <= Size
                                           /\ SubSeq(s, 1, Len(c)) = c
  <2>1. CASE Len(e) = 0
    BY <2>1, <1>3, <1>5
  <2>2. CASE Len(e) # 0
    <3>1. Len(e) \in 1 .. Size /\ Len(s) = Len(c) + Len(e) /\ Len(s) <= Size
      <4>1. Len(s) = Len(c) + Len(e) /\ Len(c) \in Nat /\ Len(e) \in Nat
        BY <1>3, <1>5, ConcatParts, Zenon
      <4>2. Len(s) \in 0 .. Size
        BY <1>4, <1>5
      <4> QED BY <4>1, <4>2, <2>2, <1>1
    <3>2. SubSeq(s, 1, Len(c)) = c
      BY <1>3, <1>5, ConcatParts, Zenon
    <3> QED BY <3>1, <3>2
  <2> QED BY <2>1, <2>2
<1>6. CASE \E n \in Nat : rt_ringbuffer_data_len(rb) > 0 /\ rb' = rt_ringbuffer_get(rb, n)
  <2>1. PICK n \in Nat : rb' = rt_ringbuffer_get(rb, n)
    BY <1>6
  <2>2. PICK m : m = Count(rb, n)
    OBVIOUS
  <2>3. m \in 0 .. Len(c)
    BY <2>2, <1>3 DEF Count
  <2>4. Valid(rb') /\ s = SubSeq(c, m + 1, Len(c))
    BY <2>1, <2>2, <1>1, <1>2, GetRemoves
  <2>5. CASE m = 0
    <3>1. s = c
      BY <2>4, <2>5, <1>3
    <3> QED BY <3>1, <2>4, <1>2
  <2>6. CASE m # 0
    <3>1. m \in 1 .. Size /\ m <= Len(c)
      BY <2>3, <2>6, <1>1, <1>3
    <3> QED BY <3>1, <2>4, <1>2, <1>4 DEF Queue!Get, Queue!Behind
  <2> QED BY <2>5, <2>6
<1>7. CASE \E d \in Seq(Byte) : rb' = rt_ringbuffer_put(rb, d)
  <2>1. PICK d \in Seq(Byte) : rb' = rt_ringbuffer_put(rb, d)
    BY <1>7
  <2>2. PICK e : e = First(d, rt_ringbuffer_space_len(rb))
    OBVIOUS
  <2>3. e \in Seq(Byte)
    BY <2>2, <1>1, <1>3 DEF First, rt_ringbuffer_space_len
  <2>4. Valid(rb') /\ s = c \o e
    BY <2>1, <2>2, <1>1, <1>2, PutAppends
  <2> QED BY <2>3, <2>4, <1>2, <1>4, <1>5 DEF Queue!Put, Queue!Front
<1>8. CASE \E d \in Seq(Byte) : /\ Len(d) > 0 /\ rb' = rt_ringbuffer_put_force(rb, d)
                              /\ \/ rt_ringbuffer_status(rb) = "FULL"
                                 \/ Len(d) <= rt_ringbuffer_space_len(rb)
  <2>1. PICK d \in Seq(Byte) : /\ Len(d) > 0 /\ rb' = rt_ringbuffer_put_force(rb, d)
                              /\ \/ rt_ringbuffer_status(rb) = "FULL"
                                 \/ Len(d) <= rt_ringbuffer_space_len(rb)
    BY <1>8
  <2>2. PICK e : e = First(d, Size)
    OBVIOUS
  <2>3. PICK n \in 1 .. Size : e \in Seq(Byte) /\ n = Len(e)
    BY <2>1, <2>2, <1>1 DEF First
  <2>4. CASE rt_ringbuffer_status(rb) = "FULL"
    <3>1. Valid(rb') /\ Len(c) = Size /\ s = SubSeq(c, n + 1, Size) \o e
      BY <2>1, <2>2, <2>3, <2>4, <1>1, <1>2, ForceReplaces
    <3>2. PICK o : o = SubSeq(c, n + 1, Len(c))
      OBVIOUS
    <3>3. o \in Seq(Byte) /\ Len(o) = Size - n /\ s = o \o e
      BY <3>1, <3>2, <2>3, <1>1, <1>3
    <3>4. Len(s) = Size /\ n <= Size /\ SubSeq(s, 1, Size - n) = o
      <4>1. SubSeq(s, 1, Len(o)) = o /\ Len(s) = Len(o) + Len(e)
        BY <3>3, <2>3, ConcatParts, Zenon
      <4> QED BY <4>1, <3>3, <2>3, <1>1
    <3> QED BY <3>1, <3>2, <3>4, <1>2, <1>4 DEF Queue!Replace, Queue!Front, Queue!Behind
  <2>5. CASE rt_ringbuffer_status(rb) # "FULL"
    <3>1. e = d /\ Len(e) <= rt_ringbuffer_space_len(rb)
      BY <2>1, <2>2, <2>5, <1>1, <1>3 DEF First, rt_ringbuffer_space_len
    <3>2. Valid(rb') /\ s = c \o e
      BY <3>1, <2>1, <2>2, <2>5, <1>1, <1>2, ForceReplaces
    <3> QED BY <3>2, <2>3, <1>2, <1>4, <1>5 DEF Queue!Put, Queue!Front
  <2> QED BY <2>4, <2>5
<1>9. CASE rb' = rb
  BY <1>9, <1>1
<1> QED BY <1>6, <1>7, <1>8, <1>9 DEF RingStep

\* The pipe is a queue of Size bytes: rt_pipe_read returns each byte once and
\* in the order rt_pipe_write stored them, where forced writes fit or find the
\* buffer full.
THEOREM PipeIsQueue ==
    ASSUME PipeAssumption, ~Overruns
    PROVE  Spec => IsQueue
<1>1. Init => PipeInv /\ Content(rb) = <<>>
  <2> SUFFICES ASSUME Init PROVE PipeInv /\ Content(rb) = <<>>
    OBVIOUS
  <2>1. Valid(rb) /\ rt_ringbuffer_data_len(rb) = 0
    BY Bounds DEF Init, Valid, RingBuffers, rt_ringbuffer_init,
       rt_ringbuffer_data_len
  <2>2. call \in [Thread -> [q : {"read", "write"}, data : Seq(Byte), n : Nat]]
    BY DEF Init, NoCall
  <2>3. Content(rb) = <<>>
    BY <2>1, Bounds, ContentIs
  <2> QED BY <2>1, <2>2, <2>3 DEF PipeInv
<1>2. PipeInv /\ [Next]_vars
        => /\ PipeInv'
           /\ [/\ Content(rb)' \in Seq(Byte)
               /\ \/ Queue!Put \/ Queue!PutFirst \/ Queue!Replace
                  \/ Queue!Get \/ Queue!Clear]_(Content(rb))
  BY StepsOfTheBuffer, RingStepIsQueueStep DEF PipeInv
<1> QED BY <1>1, <1>2, PTL DEF Spec, IsQueue, Queue!Spec
=============================================================================
