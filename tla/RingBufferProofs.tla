-------------------------- MODULE RingBufferProofs --------------------------
(***************************************************************************)
(* What the functions of RingBuffer do to the content of a buffer of any   *)
(* size.                                                                   *)
(***************************************************************************)
EXTENDS RingBuffer, SequenceTheorems, TLAPS

USE SMTT(30), ZenonT(30)

\* The mirrors differ when the write index has passed the end of the buffer
\* and the read index has not.
Valid(rb) ==
    /\ rb \in RingBuffers
    /\ rb.wi > rb.ri => rb.rm = rb.wm
    /\ rb.wi < rb.ri => rb.rm # rb.wm

\* The length of the data, from the mirrors.
LEMMA LenByMirror ==
    ASSUME Size \in Nat \ {0}, NEW rb, Valid(rb)
    PROVE  LET n == rt_ringbuffer_data_len(rb)
           IN  /\ n \in 0 .. Size
               /\ n = IF rb.rm = rb.wm THEN rb.wi - rb.ri ELSE rb.wi - rb.ri + Size
BY DEF Valid, RingBuffers, rt_ringbuffer_data_len

\* An index inside the buffer stays inside, and steps add up.
LEMMA IndexStep ==
    ASSUME Size \in Nat \ {0}, NEW i \in 0 .. Size - 1, NEW n \in 0 .. Size
    PROVE  /\ Index(i, n) \in 0 .. Size - 1
           /\ \A m \in Nat : n + m <= Size => Index(Index(i, n), m) = Index(i, n + m)
           /\ \A m \in {0, 1} : Mirror(i, m, n) \in {0, 1}
BY DEF Index, Mirror

\* n bytes lie between the read and the write index.
Between(ri, rm, wi, wm, n) ==
    /\ ri \in 0 .. Size - 1 /\ wi \in 0 .. Size - 1
    /\ rm \in {0, 1} /\ wm \in {0, 1}
    /\ wi > ri => rm = wm
    /\ wi < ri => rm # wm
    /\ n = IF rm = wm THEN wi - ri ELSE wi - ri + Size

\* Moving the write index by bytes that fit adds them to the length.
LEMMA WriteStep ==
    ASSUME Size \in Nat \ {0}, NEW ri, NEW rm, NEW wi, NEW wm, NEW n,
           NEW k \in Nat, Between(ri, rm, wi, wm, n), n + k <= Size
    PROVE  Between(ri, rm, Index(wi, k), Mirror(wi, wm, k), n + k)
<1>1. CASE Size - wi > k
  BY <1>1 DEF Index, Mirror, Between
<1>2. CASE ~ (Size - wi > k)
  BY <1>2 DEF Index, Mirror, Between
<1> QED BY <1>1, <1>2

\* Moving the read index by bytes that are there takes them from the length.
LEMMA ReadStep ==
    ASSUME Size \in Nat \ {0}, NEW ri, NEW rm, NEW wi, NEW wm, NEW n,
           NEW k \in Nat, Between(ri, rm, wi, wm, n), k <= n
    PROVE  Between(Index(ri, k), Mirror(ri, rm, k), wi, wm, n - k)
<1>1. CASE Size - ri > k
  BY <1>1 DEF Index, Mirror, Between
<1>2. CASE ~ (Size - ri > k)
  BY <1>2 DEF Index, Mirror, Between
<1> QED BY <1>1, <1>2

\* The content has the bytes behind the read index.
LEMMA ContentIs ==
    ASSUME Size \in Nat \ {0}, NEW rb, Valid(rb)
    PROVE  /\ Content(rb) \in Seq(Byte)
           /\ Len(Content(rb)) = rt_ringbuffer_data_len(rb)
           /\ \A i \in 1 .. rt_ringbuffer_data_len(rb) :
                 Content(rb)[i] = rb.buf[Index(rb.ri, i - 1)]
<1> DEFINE n == rt_ringbuffer_data_len(rb)
<1>1. n \in 0 .. Size
  BY LenByMirror
<1>2. Count(rb, Size) = n
  BY <1>1 DEF Count
<1>3. ASSUME NEW i \in 1 .. n PROVE rb.buf[Index(rb.ri, i - 1)] \in Byte
  <2>1. Index(rb.ri, i - 1) \in 0 .. Size - 1
    <3>1. rb.ri \in 0 .. Size - 1 /\ i - 1 \in 0 .. Size
      BY <1>1 DEF Valid, RingBuffers
    <3> QED BY <3>1, IndexStep, Zenon
  <2> QED BY <2>1 DEF Valid, RingBuffers
<1>4. Content(rb) = [i \in 1 .. n |-> rb.buf[Index(rb.ri, i - 1)]]
  BY <1>2 DEF Content, rt_ringbuffer_copied
<1>5. n \in Nat
  BY <1>1
<1>6. Content(rb) \in [1 .. n -> Byte]
  BY <1>3, <1>4
<1>7. Content(rb) \in Seq(Byte) /\ Len(Content(rb)) = n
  <2> HIDE DEF n
  <2> QED BY <1>5, <1>6
<1> QED BY <1>4, <1>7, Zenon

\* A sequence that continues with one and then another is their concatenation.
LEMMA IsConcat ==
    ASSUME NEW T, NEW a \in Seq(T), NEW b \in Seq(T), NEW c \in Seq(T),
           Len(c) = Len(a) + Len(b),
           \A i \in 1 .. Len(a) : c[i] = a[i],
           \A i \in 1 .. Len(b) : c[Len(a) + i] = b[i]
    PROVE  c = a \o b
<1>1. /\ a \o b \in Seq(T) /\ Len(a \o b) = Len(a) + Len(b)
      /\ \A i \in 1 .. Len(a) + Len(b) :
            (a \o b)[i] = IF i <= Len(a) THEN a[i] ELSE b[i - Len(a)]
  BY ConcatProperties, Zenon
<1>2. Len(a) \in Nat /\ Len(b) \in Nat
  OBVIOUS
<1>3. ASSUME NEW i \in 1 .. Len(c) PROVE c[i] = (a \o b)[i]
  <2>1. CASE i <= Len(a)
    <3>1. i \in 1 .. Len(a) /\ i \in 1 .. Len(a) + Len(b)
      BY <2>1, <1>2
    <3> QED BY <2>1, <3>1, <1>1, Zenon
  <2>2. CASE ~ (i <= Len(a))
    <3>1. i - Len(a) \in 1 .. Len(b) /\ i \in 1 .. Len(a) + Len(b) /\ Len(a) + (i - Len(a)) = i
      BY <2>2, <1>2
    <3>2. c[i] = b[i - Len(a)]
      BY <3>1, Zenon
    <3> QED BY <2>2, <3>1, <3>2, <1>1, Zenon
  <2> QED BY <2>1, <2>2
<1> QED BY <1>1, <1>3, SeqEqual, Zenon

\* The length and the front of a concatenation.
LEMMA ConcatParts ==
    ASSUME NEW T, NEW a \in Seq(T), NEW b \in Seq(T)
    PROVE  /\ Len(a) \in Nat /\ Len(b) \in Nat /\ Len(a \o b) = Len(a) + Len(b)
           /\ SubSeq(a \o b, 1, Len(a)) = a
<1>1. Len(a) \in Nat /\ Len(b) \in Nat /\ Len(a \o b) = Len(a) + Len(b)
  OBVIOUS
<1>2. SubSeq(a \o b, 1, Len(a)) = a
  OBVIOUS
<1> QED BY <1>1, <1>2

\* The n bytes from index ri on end at wi.
EndsAt(ri, n, wi) ==
    /\ ri \in 0 .. Size - 1 /\ wi \in 0 .. Size - 1 /\ n \in 0 .. Size
    /\ n = wi - ri \/ n = wi - ri + Size

\* From index ri on, w has the n bytes of buf and then those of d.
Continues(w, buf, ri, n, d) ==
    /\ \A i \in 1 .. n : w[Index(ri, i - 1)] = buf[Index(ri, i - 1)]
    /\ \A i \in 1 .. Len(d) : w[Index(ri, n + i - 1)] = d[i]

\* What is written behind n bytes leaves them as they are and is found behind
\* them.
LEMMA WrittenBehind ==
    ASSUME Size \in Nat \ {0}, NEW buf, NEW d \in Seq(Byte), NEW ri, NEW wi, NEW n,
           EndsAt(ri, n, wi), n + Len(d) <= Size
    PROVE  Continues(Written(buf, wi, d), buf, ri, n, d)
<1> DEFINE w == Written(buf, wi, d)
<1>0. /\ ri \in 0 .. Size - 1 /\ wi \in 0 .. Size - 1 /\ n \in 0 .. Size
      /\ n = wi - ri \/ n = wi - ri + Size
  BY DEF EndsAt
<1>1. ASSUME NEW i \in 1 .. n PROVE w[Index(ri, i - 1)] = buf[Index(ri, i - 1)]
  <2>1. PICK j : j = Index(ri, i - 1)
    OBVIOUS
  <2>2. /\ j \in 0 .. Size - 1
        /\ ~(j >= wi /\ j - wi < Len(d))
        /\ ~(j < wi /\ j - wi + Size < Len(d))
    BY <2>1, <1>0 DEF Index
  <2>3. w[j] = buf[j]
    BY <2>2 DEF Written
  <2> QED BY <2>1, <2>3
<1>2. ASSUME NEW i \in 1 .. Len(d) PROVE w[Index(ri, n + i - 1)] = d[i]
  <2>1. PICK j : j = Index(ri, n + i - 1)
    OBVIOUS
  <2>2. /\ j \in 0 .. Size - 1
        /\ \/ j >= wi /\ j - wi + 1 = i
           \/ j < wi /\ j - wi + Size + 1 = i
    BY <2>1, <1>0 DEF Index
  <2>3. w[j] = d[i]
    <3>1. CASE j >= wi /\ j - wi + 1 = i
      <4>1. j - wi < Len(d)
        BY <3>1, <2>2, <1>0
      <4> QED BY <3>1, <4>1, <2>2 DEF Written
    <3>2. CASE j < wi /\ j - wi + Size + 1 = i
      <4>1. j - wi + Size < Len(d) /\ ~ (j >= wi)
        BY <3>2, <2>2, <1>0
      <4> QED BY <3>2, <4>1, <2>2 DEF Written
    <3> QED BY <2>2, <3>1, <3>2
  <2> QED BY <2>1, <2>3
<1> QED BY <1>1, <1>2 DEF Continues

\* Buffers with equal fields are equal.
LEMMA SameFields ==
    ASSUME NEW a \in RingBuffers, NEW b \in RingBuffers,
           a.buf = b.buf, a.ri = b.ri, a.rm = b.rm, a.wi = b.wi, a.wm = b.wm
    PROVE  a = b
BY DEF RingBuffers

\* The fields of Advanced.
LEMMA AdvancedFields ==
    ASSUME Size \in Nat \ {0}, NEW rb \in RingBuffers,
           NEW d \in Seq(Byte), Len(d) <= Size
    PROVE  LET r == Advanced(rb, d)
           IN  /\ r \in RingBuffers
               /\ r.ri = rb.ri /\ r.rm = rb.rm
               /\ r.wi = Index(rb.wi, Len(d)) /\ r.wm = Mirror(rb.wi, rb.wm, Len(d))
               /\ r.buf = Written(rb.buf, rb.wi, d)
<1> DEFINE r == Advanced(rb, d)
<1>1. /\ r.ri = rb.ri /\ r.rm = rb.rm
      /\ r.wi = Index(rb.wi, Len(d)) /\ r.wm = Mirror(rb.wi, rb.wm, Len(d))
      /\ r.buf = Written(rb.buf, rb.wi, d)
  BY DEF Advanced, RingBuffers
<1>2. Written(rb.buf, rb.wi, d) \in [0 .. Size - 1 -> Byte]
  BY DEF Written, RingBuffers
<1>3. Index(rb.wi, Len(d)) \in 0 .. Size - 1 /\ Mirror(rb.wi, rb.wm, Len(d)) \in {0, 1}
  BY DEF Index, Mirror, RingBuffers
<1>4. r \in RingBuffers
  BY <1>2, <1>3, Zenon DEF Advanced, RingBuffers
<1> QED BY <1>1, <1>4

\* Bytes that fit are appended to the content: the memory they are written
\* to, around the end of the buffer or not, holds none of it.
LEMMA AdvancedAppends ==
    ASSUME Size \in Nat \ {0}, NEW rb, Valid(rb), NEW d \in Seq(Byte),
           Len(d) <= rt_ringbuffer_space_len(rb)
    PROVE  /\ Valid(Advanced(rb, d))
           /\ Content(Advanced(rb, d)) = Content(rb) \o d
<1> DEFINE r == Advanced(rb, d)
           n == rt_ringbuffer_data_len(rb)
<1>1. /\ rb.ri \in 0 .. Size - 1 /\ rb.wi \in 0 .. Size - 1
      /\ rb.rm \in {0, 1} /\ rb.wm \in {0, 1}
      /\ rb.buf \in [0 .. Size - 1 -> Byte]
      /\ rb.wi > rb.ri => rb.rm = rb.wm
      /\ rb.wi < rb.ri => rb.rm # rb.wm
  BY DEF Valid, RingBuffers
<1>2. /\ n \in 0 .. Size /\ Len(d) \in Nat /\ n + Len(d) <= Size
      /\ n = IF rb.rm = rb.wm THEN rb.wi - rb.ri ELSE rb.wi - rb.ri + Size
  BY LenByMirror DEF rt_ringbuffer_space_len
<1>3. /\ r.ri = rb.ri /\ r.rm = rb.rm
      /\ r.wi = Index(rb.wi, Len(d)) /\ r.wm = Mirror(rb.wi, rb.wm, Len(d))
      /\ r.buf = Written(rb.buf, rb.wi, d)
  BY DEF Advanced, Valid, RingBuffers
<1>4. Written(rb.buf, rb.wi, d) \in [0 .. Size - 1 -> Byte]
  BY <1>1, <1>2 DEF Written
<1>5. Between(r.ri, r.rm, r.wi, r.wm, n + Len(d))
  <2>1. Between(rb.ri, rb.rm, rb.wi, rb.wm, n)
    <3> HIDE DEF n
    <3> QED BY <1>1, <1>2, Zenon DEF Between
  <2> HIDE DEF n
  <2>2. Between(rb.ri, rb.rm, Index(rb.wi, Len(d)), Mirror(rb.wi, rb.wm, Len(d)), n + Len(d))
    BY <2>1, <1>2, WriteStep, Zenon
  <2> HIDE DEF r
  <2> QED BY <2>2, <1>3, Zenon
<1>6. Valid(r)
  <2>1. Len(d) <= Size
    BY <1>2
  <2>2. r \in RingBuffers
    BY <2>1, AdvancedFields, Zenon DEF Valid
  <2> HIDE DEF n, r
  <2> QED BY <2>2, <1>5, Zenon DEF Valid, Between
<1>7. rt_ringbuffer_data_len(r) = n + Len(d)
  <2>1. rt_ringbuffer_data_len(r)
          = IF r.rm = r.wm THEN r.wi - r.ri ELSE r.wi - r.ri + Size
    BY <1>6, LenByMirror
  <2> HIDE DEF n, r
  <2> QED BY <2>1, <1>5 DEF Between
<1>8. Continues(r.buf, rb.buf, r.ri, n, d)
  <2> HIDE DEF n
  <2>1. EndsAt(rb.ri, n, rb.wi)
    BY <1>1, <1>2, Zenon DEF EndsAt
  <2>2. Continues(Written(rb.buf, rb.wi, d), rb.buf, rb.ri, n, d)
    BY <2>1, <1>2, WrittenBehind, Zenon
  <2> HIDE DEF r
  <2> QED BY <2>2, <1>3, Zenon
<1>9. /\ Content(rb) \in Seq(Byte) /\ Len(Content(rb)) = n
      /\ \A i \in 1 .. n : Content(rb)[i] = rb.buf[Index(rb.ri, i - 1)]
  BY ContentIs
<1>10. /\ Content(r) \in Seq(Byte) /\ Len(Content(r)) = n + Len(d)
       /\ \A i \in 1 .. n + Len(d) : Content(r)[i] = r.buf[Index(r.ri, i - 1)]
  BY <1>6, <1>7, ContentIs
<1>11. /\ \A i \in 1 .. n : Content(r)[i] = Content(rb)[i]
       /\ \A i \in 1 .. Len(d) : Content(r)[n + i] = d[i]
  <2> HIDE DEF n, r
  <2>1. \A i \in 1 .. n : i \in 1 .. n + Len(d)
    BY <1>2
  <2>2. \A i \in 1 .. Len(d) : n + i \in 1 .. n + Len(d)
    BY <1>2
  <2>3. \A i \in 1 .. Len(d) : Content(r)[n + i] = r.buf[Index(r.ri, n + i - 1)]
    BY <2>2, <1>2, <1>10
  <2>4. r.ri = rb.ri
    BY <1>3
  <2>5. /\ \A i \in 1 .. n : r.buf[Index(r.ri, i - 1)] = rb.buf[Index(rb.ri, i - 1)]
        /\ \A i \in 1 .. Len(d) : r.buf[Index(r.ri, n + i - 1)] = d[i]
    BY <2>4, <1>8 DEF Continues
  <2> QED BY <2>1, <2>3, <2>5, <1>9, <1>10, Zenon
<1>12. Content(r) = Content(rb) \o d
  <2> HIDE DEF n, r
  <2> QED BY <1>9, <1>10, <1>11, IsConcat, Zenon
<1> QED BY <1>6, <1>12

\* rt_ringbuffer_put appends the bytes that find space and drops the rest
\* (ringbuffer.c:60-66).
THEOREM PutAppends ==
    ASSUME Size \in Nat \ {0}, NEW rb, Valid(rb), NEW d \in Seq(Byte)
    PROVE  LET r == rt_ringbuffer_put(rb, d)
           IN  /\ Valid(r)
               /\ Content(r) = Content(rb) \o First(d, rt_ringbuffer_space_len(rb))
<1> DEFINE s == rt_ringbuffer_space_len(rb)
<1>1. s \in 0 .. Size
  BY LenByMirror DEF rt_ringbuffer_space_len
<1>2. First(d, s) \in Seq(Byte) /\ Len(First(d, s)) <= s
  BY <1>1 DEF First
<1>3. CASE s = 0
  <2>1. First(d, s) = <<>>
    BY <1>2, <1>3
  <2>2. Content(rb) \in Seq(Byte)
    BY ContentIs
  <2> QED BY <1>3, <2>1, <2>2 DEF rt_ringbuffer_put
<1>4. CASE s # 0
  BY <1>2, <1>4, AdvancedAppends DEF rt_ringbuffer_put
<1> QED BY <1>3, <1>4

\* rt_ringbuffer_get removes the bytes that it copies, the oldest ones
\* (ringbuffer.c:158-190).
THEOREM GetRemoves ==
    ASSUME Size \in Nat \ {0}, NEW rb, Valid(rb), NEW n \in Nat
    PROVE  LET r == rt_ringbuffer_get(rb, n)
           IN  /\ Valid(r)
               /\ Content(rb) = rt_ringbuffer_copied(rb, n) \o Content(r)
               /\ Content(r) = SubSeq(Content(rb), Count(rb, n) + 1, Len(Content(rb)))
<1> DEFINE r == rt_ringbuffer_get(rb, n)
           m == rt_ringbuffer_data_len(rb)
           c == Count(rb, n)
<1>1. /\ rb.ri \in 0 .. Size - 1 /\ rb.wi \in 0 .. Size - 1
      /\ rb.rm \in {0, 1} /\ rb.wm \in {0, 1}
      /\ rb.buf \in [0 .. Size - 1 -> Byte]
      /\ rb.wi > rb.ri => rb.rm = rb.wm
      /\ rb.wi < rb.ri => rb.rm # rb.wm
  BY DEF Valid, RingBuffers
<1>2. /\ m \in 0 .. Size /\ c \in 0 .. m
      /\ m = IF rb.rm = rb.wm THEN rb.wi - rb.ri ELSE rb.wi - rb.ri + Size
  BY LenByMirror DEF Count
<1>3. /\ r.wi = rb.wi /\ r.wm = rb.wm /\ r.buf = rb.buf
      /\ r.ri = Index(rb.ri, c) /\ r.rm = Mirror(rb.ri, rb.rm, c)
  <2>1. CASE m = 0
    <3>1. c = 0
      BY <1>2, <2>1
    <3>2. Index(rb.ri, c) = rb.ri /\ Mirror(rb.ri, rb.rm, c) = rb.rm
      BY <1>1, <3>1 DEF Index, Mirror
    <3> QED BY <2>1, <3>2 DEF rt_ringbuffer_get
  <2>2. CASE m # 0
    BY <2>2 DEF rt_ringbuffer_get, Valid, RingBuffers
  <2> QED BY <2>1, <2>2
<1>4. Between(r.ri, r.rm, r.wi, r.wm, m - c)
  <2>1. c \in Nat /\ c <= m
    BY <1>2
  <2>2. Between(rb.ri, rb.rm, rb.wi, rb.wm, m)
    <3> HIDE DEF m, c
    <3> QED BY <1>1, <1>2, Zenon DEF Between
  <2> HIDE DEF m, c
  <2>3. Between(Index(rb.ri, c), Mirror(rb.ri, rb.rm, c), rb.wi, rb.wm, m - c)
    BY <2>1, <2>2, ReadStep, Zenon
  <2> HIDE DEF r
  <2> QED BY <2>3, <1>3, Zenon
<1>5. Valid(r)
  <2>1. r.ri \in 0 .. Size - 1 /\ r.rm \in {0, 1}
    <3> HIDE DEF m, c, r
    <3> QED BY <1>4, Zenon DEF Between
  <2>2. r \in RingBuffers
    BY <1>1, <1>3, <2>1, Zenon DEF rt_ringbuffer_get, Valid, RingBuffers
  <2> HIDE DEF m, c, r
  <2> QED BY <2>2, <1>4, Zenon DEF Valid, Between
<1>6. rt_ringbuffer_data_len(r) = m - c
  <2>1. rt_ringbuffer_data_len(r)
          = IF r.rm = r.wm THEN r.wi - r.ri ELSE r.wi - r.ri + Size
    BY <1>5, LenByMirror
  <2> HIDE DEF m, c, r
  <2> QED BY <2>1, <1>4 DEF Between
<1>7. /\ Content(rb) \in Seq(Byte) /\ Len(Content(rb)) = m
      /\ \A i \in 1 .. m : Content(rb)[i] = rb.buf[Index(rb.ri, i - 1)]
  BY ContentIs
<1>8. /\ Content(r) \in Seq(Byte) /\ Len(Content(r)) = m - c
      /\ \A i \in 1 .. m - c : Content(r)[i] = rb.buf[Index(r.ri, i - 1)]
  BY <1>3, <1>5, <1>6, ContentIs
<1>9. \A i \in 1 .. m - c : Content(r)[i] = Content(rb)[c + i]
  <2>1. \A i \in 0 .. Size : c + i <= Size => Index(r.ri, i) = Index(rb.ri, c + i)
    <3> HIDE DEF m, c, r
    <3>1. c \in 0 .. Size
      BY <1>2
    <3>2. \A i \in Nat : c + i <= Size => Index(Index(rb.ri, c), i) = Index(rb.ri, c + i)
      BY <3>1, <1>1, IndexStep, Zenon
    <3> QED BY <3>2, <1>3
  <2> HIDE DEF m, c, r
  <2>2. SUFFICES ASSUME NEW i \in 1 .. m - c PROVE Content(r)[i] = Content(rb)[c + i]
    OBVIOUS
  <2>3. i - 1 \in 0 .. Size /\ c + (i - 1) <= Size /\ c + i \in 1 .. m
    BY <1>2
  <2>4. Index(r.ri, i - 1) = Index(rb.ri, c + (i - 1)) /\ c + (i - 1) = (c + i) - 1
    BY <2>1, <2>3, <1>2
  <2> QED BY <2>3, <2>4, <1>7, <1>8
<1>10. /\ rt_ringbuffer_copied(rb, n) \in Seq(Byte)
       /\ Len(rt_ringbuffer_copied(rb, n)) = c
       /\ \A i \in 1 .. c : rt_ringbuffer_copied(rb, n)[i] = Content(rb)[i]
  <2>1. rt_ringbuffer_copied(rb, n) = [i \in 1 .. c |-> Content(rb)[i]]
    BY <1>2, <1>7 DEF rt_ringbuffer_copied
  <2> HIDE DEF m, c, r
  <2> QED BY <2>1, <1>2, <1>7
<1>11. Content(rb) = rt_ringbuffer_copied(rb, n) \o Content(r)
  <2> HIDE DEF m, c, r
  <2>1. Len(Content(rb)) = c + (m - c)
    BY <1>2, <1>7
  <2>2. \A i \in 1 .. Len(rt_ringbuffer_copied(rb, n)) :
           Content(rb)[i] = rt_ringbuffer_copied(rb, n)[i]
    BY <1>10
  <2>3. \A i \in 1 .. Len(Content(r)) :
           Content(rb)[Len(rt_ringbuffer_copied(rb, n)) + i] = Content(r)[i]
    BY <1>8, <1>9, <1>10
  <2>4. Len(Content(rb)) = Len(rt_ringbuffer_copied(rb, n)) + Len(Content(r))
    BY <2>1, <1>8, <1>10
  <2> QED BY <2>2, <2>3, <2>4, <1>7, <1>8, <1>10, IsConcat, Zenon
<1>12. Content(r) = SubSeq(Content(rb), c + 1, Len(Content(rb)))
  <2> HIDE DEF m, c, r
  <2> QED BY <1>2, <1>7, <1>8, <1>9
<1> QED BY <1>5, <1>11, <1>12, Zenon

\* More bytes than fit, written behind the content of a buffer that is not
\* full, pass the read index: the mirrors no longer fit the indices, and what
\* is read next are the bytes that found no space, without the others.
LEMMA AdvancedOverruns ==
    ASSUME Size \in Nat \ {0}, NEW rb, Valid(rb), rt_ringbuffer_status(rb) # "FULL",
           NEW d \in Seq(Byte), Len(d) <= Size, Len(d) > rt_ringbuffer_space_len(rb)
    PROVE  LET r == Advanced(rb, d)
           IN  /\ ~Valid(r)
               /\ Content(r) = SubSeq(d, rt_ringbuffer_space_len(rb) + 1, Len(d))
<1>1. PICK s \in 1 .. Size, n \in 1 .. Size :
         s = rt_ringbuffer_space_len(rb) /\ n = Len(d) /\ s < n
  BY LenByMirror DEF rt_ringbuffer_space_len, rt_ringbuffer_status, rt_ringbuffer_data_len,
     Valid, RingBuffers
<1>2. PICK r \in RingBuffers : r = Advanced(rb, d)
  BY AdvancedFields DEF Valid
<1>3. PICK ri \in 0 .. Size - 1, wi \in 0 .. Size - 1, rm \in {0, 1}, wm \in {0, 1} :
         ri = rb.ri /\ wi = rb.wi /\ rm = rb.rm /\ wm = rb.wm
  BY Zenon DEF Valid, RingBuffers
<1>4. /\ r.ri = ri /\ r.rm = rm
      /\ r.wi = Index(wi, n) /\ r.wm = Mirror(wi, wm, n)
      /\ r.buf = Written(rb.buf, wi, d)
  BY <1>1, <1>2, <1>3, AdvancedFields DEF Valid
<1>5. /\ wi = ri => rm = wm
      /\ Size - s = IF rm = wm THEN wi - ri ELSE wi - ri + Size
  <2>1. wi = ri => rm = wm
    BY <1>3 DEF rt_ringbuffer_status
  <2>2. /\ rt_ringbuffer_data_len(rb) \in 0 .. Size
        /\ rt_ringbuffer_data_len(rb) = IF rm = wm THEN wi - ri ELSE wi - ri + Size
    BY <1>3, LenByMirror
  <2> QED BY <2>1, <2>2, <1>1 DEF rt_ringbuffer_space_len
<1>6. ~Valid(r) /\ rt_ringbuffer_data_len(r) = n - s
  <2>1. PICK w \in 0 .. Size - 1, m \in {0, 1} : w = Index(wi, n) /\ m = Mirror(wi, wm, n)
    BY <1>4 DEF RingBuffers
  <2>2. \/ w > ri /\ rm # m /\ w - ri = n - s
        \/ w < ri /\ rm = m /\ Size - (ri - w) = n - s
    <3>1. CASE Size - wi > n
      BY <3>1, <2>1, <1>1, <1>5 DEF Index, Mirror
    <3>2. CASE ~(Size - wi > n)
      BY <3>2, <2>1, <1>1, <1>5 DEF Index, Mirror
    <3> QED BY <3>1, <3>2
  <2> QED BY <2>1, <2>2, <1>4 DEF Valid, rt_ringbuffer_data_len
<1>7. ASSUME NEW i \in 1 .. n - s PROVE r.buf[Index(r.ri, i - 1)] = d[s + i]
  <2>1. PICK j : j = Index(ri, i - 1)
    OBVIOUS
  <2>2. Size - s = wi - ri \/ Size - s = wi - ri + Size
    BY <1>5
  <2>3. /\ j \in 0 .. Size - 1
        /\ \/ j >= wi /\ j - wi + 1 = s + i
           \/ j < wi /\ j - wi + Size + 1 = s + i
    BY <2>1, <2>2, <1>1 DEF Index
  <2>4. CASE j >= wi /\ j - wi + 1 = s + i
    <3>1. j - wi < Len(d)
      BY <2>3, <2>4, <1>1
    <3> QED BY <3>1, <2>1, <2>3, <2>4, <1>4 DEF Written
  <2>5. CASE j < wi /\ j - wi + Size + 1 = s + i
    <3>1. j - wi + Size < Len(d) /\ ~(j >= wi)
      BY <2>3, <2>5, <1>1
    <3> QED BY <3>1, <2>1, <2>3, <2>5, <1>4 DEF Written
  <2> QED BY <2>3, <2>4, <2>5
<1>8. Count(r, Size) = n - s
  BY <1>1, <1>6 DEF Count
<1>9. Content(r) = [i \in 1 .. n - s |-> d[s + i]]
  BY <1>7, <1>8 DEF Content, rt_ringbuffer_copied
<1>10. SubSeq(d, s + 1, n) = [i \in 1 .. n - s |-> d[s + i]]
  BY <1>1
<1> QED BY <1>1, <1>2, <1>6, <1>9, <1>10

\* A forced write of e, of which put_force takes at most Size bytes, into a full
\* buffer takes the place of the oldest bytes. Into another one it appends e
\* if all of it finds space. If not, it passes the read index: the content and
\* the part of e that found space are lost, and the mirrors no longer fit
\* (ringbuffer.c:97-144).
THEOREM ForceReplaces ==
    ASSUME Size \in Nat \ {0}, NEW rb, Valid(rb), NEW d \in Seq(Byte)
    PROVE  LET r == rt_ringbuffer_put_force(rb, d)
               e == First(d, Size)
           IN  /\ rt_ringbuffer_status(rb) = "FULL"
                     => /\ Valid(r) /\ Len(Content(rb)) = Size
                        /\ Content(r) = SubSeq(Content(rb), Len(e) + 1, Size) \o e
               /\ rt_ringbuffer_status(rb) # "FULL"
                     => IF Len(e) <= rt_ringbuffer_space_len(rb)
                        THEN Valid(r) /\ Content(r) = Content(rb) \o e
                        ELSE /\ ~Valid(r)
                             /\ Content(r) = SubSeq(e, rt_ringbuffer_space_len(rb) + 1, Len(e))
<1>1. PICK e : e = First(d, Size)
  OBVIOUS
<1>2. e \in Seq(Byte) /\ Len(e) \in 0 .. Size
  BY <1>1 DEF First
<1>3. /\ rb \in RingBuffers
      /\ rb.ri \in 0 .. Size - 1 /\ rb.wi \in 0 .. Size - 1
      /\ rb.rm \in {0, 1} /\ rb.wm \in {0, 1}
      /\ rb.buf \in [0 .. Size - 1 -> Byte]
  BY DEF Valid, RingBuffers
<1>4. CASE rt_ringbuffer_status(rb) # "FULL"
  <2>1. rt_ringbuffer_put_force(rb, d) = Advanced(rb, e)
    BY <1>1, <1>4 DEF rt_ringbuffer_put_force
  <2>2. CASE Len(e) <= rt_ringbuffer_space_len(rb)
    BY <2>1, <2>2, <1>1, <1>2, <1>4, AdvancedAppends
  <2>3. CASE ~(Len(e) <= rt_ringbuffer_space_len(rb))
    <3>1. Len(e) > rt_ringbuffer_space_len(rb) /\ Len(e) <= Size
      BY <2>3, <1>2, LenByMirror DEF rt_ringbuffer_space_len
    <3> QED BY <2>1, <2>3, <3>1, <1>1, <1>2, <1>4, AdvancedOverruns
  <2> QED BY <2>2, <2>3
<1>5. CASE rt_ringbuffer_status(rb) = "FULL"
  <2>0. PICK w : w = Written(rb.buf, rb.wi, e)
    OBVIOUS
  <2>1. PICK n \in 0 .. Size, i0 \in 0 .. Size - 1 :
           n = Len(e) /\ i0 = Index(rb.wi, n)
    BY <1>2, <1>3, IndexStep, Zenon
  <2>2. rb.ri = rb.wi /\ rb.rm # rb.wm /\ rt_ringbuffer_data_len(rb) = Size
    BY <1>5 DEF rt_ringbuffer_status, rt_ringbuffer_data_len
  <2>3. PICK r : r = rt_ringbuffer_put_force(rb, d)
    OBVIOUS
  <2>4. /\ r \in RingBuffers /\ r.buf = w
        /\ r.wi = i0 /\ r.ri = i0
        /\ r.wm = Mirror(rb.wi, rb.wm, n) /\ r.rm = Mirror(rb.wi, rb.rm, n)
    <3>1. PICK a \in RingBuffers : a = Advanced(rb, e)
      BY <1>2, <1>3, AdvancedFields
    <3>2. /\ a.wi = i0 /\ a.wm = Mirror(rb.wi, rb.wm, n) /\ a.buf = w
      BY <3>1, <2>0, <2>1, <1>2, <1>3, AdvancedFields
    <3>3. PICK m \in {0, 1} : m = Mirror(rb.wi, rb.rm, n)
      BY <1>3 DEF Mirror
    <3>4. r = [a EXCEPT !.ri = a.wi, !.rm = m]
      BY <3>1, <3>3, <2>0, <2>1, <2>3, <1>1, <1>5 DEF rt_ringbuffer_put_force
    <3>5. /\ r \in RingBuffers /\ r.buf = a.buf /\ r.wi = a.wi /\ r.ri = a.wi
          /\ r.wm = a.wm /\ r.rm = m
      <4>1. a.wi \in 0 .. Size - 1
        BY <3>2
      <4> QED BY <3>4, <4>1, Zenon DEF RingBuffers
    <3> QED BY <3>2, <3>3, <3>5
  <2>5. Valid(r) /\ rt_ringbuffer_data_len(r) = Size
    BY <2>2, <2>4, <1>3 DEF Valid, rt_ringbuffer_data_len, Mirror
  <2>6. /\ \A i \in 1 .. Size - n : w[Index(i0, i - 1)] = rb.buf[Index(i0, i - 1)]
        /\ \A i \in 1 .. n : w[Index(i0, (Size - n) + i - 1)] = e[i]
    <3>1. PICK m \in 0 .. Size : m = Size - n
      OBVIOUS
    <3>2. m + Len(e) <= Size /\ (m = rb.wi - i0 \/ m = rb.wi - i0 + Size)
      <4>1. m + Len(e) <= Size
        BY <3>1, <2>1
      <4>2. rb.wi \in Nat /\ n \in Nat /\ i0 \in Nat
        BY <1>3
      <4>3. i0 = rb.wi + n \/ i0 = rb.wi + n - Size
        BY <4>2, <2>1 DEF Index
      <4> QED BY <4>1, <4>2, <4>3, <3>1
    <3>3. EndsAt(i0, m, rb.wi)
      BY <3>2, <1>3, Zenon DEF EndsAt
    <3>4. Continues(w, rb.buf, i0, m, e)
      BY <3>2, <3>3, <2>0, <1>2, WrittenBehind, Zenon
    <3> QED BY <3>1, <3>4, <2>1, Zenon DEF Continues
  <2>7. /\ Content(rb) \in Seq(Byte) /\ Len(Content(rb)) = Size
        /\ \A i \in 1 .. Size : Content(rb)[i] = rb.buf[Index(rb.ri, i - 1)]
    BY <2>2, ContentIs
  <2>8. /\ Content(r) \in Seq(Byte) /\ Len(Content(r)) = Size
        /\ \A i \in 1 .. Size : Content(r)[i] = w[Index(i0, i - 1)]
    BY <2>4, <2>5, ContentIs, Zenon
  <2>9. PICK o : o = SubSeq(Content(rb), n + 1, Size)
    BY Zenon
  <2>10. /\ o \in Seq(Byte) /\ Len(o) = Size - n
         /\ \A i \in 1 .. Size - n : o[i] = Content(rb)[n + i]
    BY <2>7, <2>9
  <2>11. \A i \in 1 .. Len(o) : Content(r)[i] = o[i]
    <3>1. SUFFICES ASSUME NEW i \in 1 .. Size - n PROVE Content(r)[i] = o[i]
      BY <2>10
    <3>2. i \in 1 .. Size /\ n + i \in 1 .. Size /\ i - 1 \in Nat /\ n + (i - 1) = n + i - 1
      OBVIOUS
    <3>3. Index(i0, i - 1) = Index(rb.wi, n + i - 1)
      <4>1. \A m \in Nat : n + m <= Size => Index(Index(rb.wi, n), m) = Index(rb.wi, n + m)
        BY <1>3, IndexStep, Zenon
      <4>2. n + (i - 1) <= Size
        OBVIOUS
      <4> QED BY <4>1, <4>2, <3>2, <2>1
    <3>4. Content(r)[i] = rb.buf[Index(i0, i - 1)]
      BY <3>2, <2>6, <2>8, Zenon
    <3>5. Content(rb)[n + i] = rb.buf[Index(rb.wi, n + i - 1)]
      BY <3>2, <2>2, <2>7
    <3> QED BY <3>3, <3>4, <3>5, <2>10
  <2>12. \A i \in 1 .. Len(e) : Content(r)[Len(o) + i] = e[i]
    <3>1. SUFFICES ASSUME NEW i \in 1 .. n PROVE Content(r)[(Size - n) + i] = e[i]
      BY <2>0, <2>1, <2>10
    <3>2. (Size - n) + i \in 1 .. Size
      OBVIOUS
    <3>3. Content(r)[(Size - n) + i] = w[Index(i0, (Size - n) + i - 1)]
      BY <3>2, <2>8
    <3> QED BY <3>3, <2>6, Zenon
  <2>13. Content(r) = o \o e
    <3>1. Len(Content(r)) = Len(o) + Len(e)
      BY <2>0, <2>1, <2>8, <2>10
    <3> QED BY <3>1, <2>8, <2>10, <2>11, <2>12, <1>2, IsConcat, Zenon
  <2> QED BY <1>1, <1>5, <2>0, <2>1, <2>3, <2>5, <2>7, <2>9, <2>13
<1> QED BY <1>4, <1>5

\* The functions for one character do what the others do with one byte
\* (ringbuffer.c:197-284).
THEOREM OneCharacter ==
    ASSUME Size \in Nat \ {0}, NEW rb, Valid(rb), NEW c \in Byte
    PROVE  /\ rt_ringbuffer_putchar(rb, c) = rt_ringbuffer_put(rb, <<c>>)
           /\ rt_ringbuffer_putchar_force(rb, c) = rt_ringbuffer_put_force(rb, <<c>>)
           /\ rt_ringbuffer_getchar(rb) = rt_ringbuffer_get(rb, 1)
<1>1. /\ rb.ri \in 0 .. Size - 1 /\ rb.wi \in 0 .. Size - 1
      /\ rb.rm \in {0, 1} /\ rb.wm \in {0, 1}
      /\ rb.buf \in [0 .. Size - 1 -> Byte]
      /\ rb = [buf |-> rb.buf, ri |-> rb.ri, rm |-> rb.rm, wi |-> rb.wi, wm |-> rb.wm]
  BY DEF Valid, RingBuffers
<1>2. /\ <<c>> \in Seq(Byte) /\ Len(<<c>>) = 1 /\ <<c>>[1] = c
      /\ \A n \in Nat \ {0} : First(<<c>>, n) = <<c>>
  BY DEF First
<1>3. Written(rb.buf, rb.wi, <<c>>) = [rb.buf EXCEPT ![rb.wi] = c]
  <2>1. ASSUME NEW j \in 0 .. Size - 1
        PROVE  Written(rb.buf, rb.wi, <<c>>)[j] = IF j = rb.wi THEN c ELSE rb.buf[j]
    <3>1. CASE j = rb.wi
      BY <3>1, <1>1, <1>2 DEF Written
    <3>2. CASE j # rb.wi
      <4>1. ~(j >= rb.wi /\ j - rb.wi < 1) /\ ~(j < rb.wi /\ j - rb.wi + Size < 1)
        BY <3>2, <1>1
      <4> QED BY <3>2, <4>1, <1>2 DEF Written
    <3> QED BY <3>1, <3>2
  <2>2. Written(rb.buf, rb.wi, <<c>>)
          = [j \in 0 .. Size - 1 |-> Written(rb.buf, rb.wi, <<c>>)[j]]
    BY DEF Written
  <2> QED BY <1>1, <2>1, <2>2
<1>4. PutChar(rb, c) = Advanced(rb, <<c>>)
  <2> DEFINE a == Advanced(rb, <<c>>)
             b == PutChar(rb, c)
  <2>1. /\ Index(rb.wi, 1) = IF rb.wi = Size - 1 THEN 0 ELSE rb.wi + 1
        /\ Mirror(rb.wi, rb.wm, 1) = IF rb.wi = Size - 1 THEN 1 - rb.wm ELSE rb.wm
    BY <1>1 DEF Index, Mirror
  <2>2. /\ a \in RingBuffers
        /\ a.ri = rb.ri /\ a.rm = rb.rm
        /\ a.wi = Index(rb.wi, 1) /\ a.wm = Mirror(rb.wi, rb.wm, 1)
        /\ a.buf = [rb.buf EXCEPT ![rb.wi] = c]
    <3>1. PICK d \in Seq(Byte) : d = <<c>>
      BY <1>2, Zenon
    <3>2. Len(d) = 1 /\ Len(d) <= Size
      BY <3>1, <1>2
    <3>3. rb \in RingBuffers
      BY DEF Valid
    <3> QED BY <3>1, <3>2, <3>3, <1>3, AdvancedFields, Zenon
  <2>3. /\ b \in RingBuffers
        /\ b.ri = rb.ri /\ b.rm = rb.rm
        /\ b.wi = IF rb.wi = Size - 1 THEN 0 ELSE rb.wi + 1
        /\ b.wm = IF rb.wi = Size - 1 THEN 1 - rb.wm ELSE rb.wm
        /\ b.buf = [rb.buf EXCEPT ![rb.wi] = c]
    <3> DEFINE w == [rb.buf EXCEPT ![rb.wi] = c]
    <3>1. w \in [0 .. Size - 1 -> Byte]
      BY <1>1
    <3>2. CASE rb.wi = Size - 1
      <4>1. PICK m \in {0, 1}, i \in 0 .. Size - 1 : m = 1 - rb.wm /\ i = 0
        BY <1>1
      <4>2. b = [rb EXCEPT !.buf = w, !.wm = m, !.wi = i]
        BY <3>2, <4>1 DEF PutChar
      <4> HIDE DEF w, b
      <4>3. /\ b \in RingBuffers /\ b.ri = rb.ri /\ b.rm = rb.rm
            /\ b.buf = w /\ b.wi = i /\ b.wm = m
        BY <4>2, <3>1, Zenon DEF Valid, RingBuffers
      <4> QED BY <4>1, <4>3, <3>2 DEF w
    <3>3. CASE rb.wi # Size - 1
      <4>1. b = [rb EXCEPT !.buf = w, !.wi = rb.wi + 1]
        BY <3>3 DEF PutChar
      <4>2. rb.wi + 1 \in 0 .. Size - 1 /\ rb.wm \in {0, 1}
        BY <1>1, <3>3
      <4> HIDE DEF w, b
      <4>3. /\ b \in RingBuffers /\ b.ri = rb.ri /\ b.rm = rb.rm
            /\ b.buf = w /\ b.wi = rb.wi + 1 /\ b.wm = rb.wm
        BY <4>1, <4>2, <3>1, Zenon DEF Valid, RingBuffers
      <4> QED BY <4>3, <3>3 DEF w
    <3> QED BY <3>2, <3>3
  <2> HIDE DEF a, b
  <2>4. a = b
    BY <2>1, <2>2, <2>3, SameFields
  <2> QED BY <2>4 DEF a, b
<1>5. rt_ringbuffer_putchar(rb, c) = rt_ringbuffer_put(rb, <<c>>)
  <2>1. rt_ringbuffer_space_len(rb) \in Nat
    BY LenByMirror DEF rt_ringbuffer_space_len
  <2> QED BY <2>1, <1>2, <1>4 DEF rt_ringbuffer_putchar, rt_ringbuffer_put
<1>6. rt_ringbuffer_putchar_force(rb, c) = rt_ringbuffer_put_force(rb, <<c>>)
  <2>1. First(<<c>>, Size) = <<c>>
    BY <1>2
  <2>2. Mirror(rb.wi, rb.rm, 1) = IF rb.wi = Size - 1 THEN 1 - rb.rm ELSE rb.rm
    BY <1>1 DEF Mirror
  <2>3. Advanced(rb, <<c>>).rm = rb.rm
    BY <1>1 DEF Advanced
  <2> QED BY <1>1, <1>2, <1>4, <2>1, <2>2, <2>3, Zenon
          DEF rt_ringbuffer_putchar_force, rt_ringbuffer_put_force, Advanced
<1>7. rt_ringbuffer_getchar(rb) = rt_ringbuffer_get(rb, 1)
  <2>1. rt_ringbuffer_data_len(rb) \in 0 .. Size
    BY LenByMirror
  <2>2. rt_ringbuffer_data_len(rb) # 0 => Count(rb, 1) = 1
    BY <2>1 DEF Count
  <2>3. /\ Index(rb.ri, 1) = IF rb.ri = Size - 1 THEN 0 ELSE rb.ri + 1
        /\ Mirror(rb.ri, rb.rm, 1) = IF rb.ri = Size - 1 THEN 1 - rb.rm ELSE rb.rm
    BY <1>1 DEF Index, Mirror
  <2> QED BY <1>1, <2>2, <2>3, Zenon DEF rt_ringbuffer_getchar, rt_ringbuffer_get
<1> QED BY <1>5, <1>6, <1>7
=============================================================================
