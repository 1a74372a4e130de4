----------------------------- MODULE HeapProofs -----------------------------
(***************************************************************************)
(* The blocks of the heap tile it, for every size of the heap and all      *)
(* sizes that are asked for.                                               *)
(***************************************************************************)
EXTENDS Heap, ListLemmas

USE SMTT(30), ZenonT(30)
USE DEF SIZEOF_STRUCT_MEM, MIN_SIZE, heap_end

Block == [used : BOOLEAN, next : Nat, prev : Nat]

UsedBlocks(m) == {p \in DOMAIN m : m[p].used}

\* The headers m are those of blocks, up to heap_end.
Blocks(m) ==
    /\ DOMAIN m \subseteq Address
    /\ m \in [DOMAIN m -> Block]

\* The blocks lie behind each other and are linked both ways.
Linked(m) ==
    /\ Blocks(m)
    /\ 0 \in DOMAIN m /\ m[0].prev = 0
    /\ \A p \in DOMAIN m :
          /\ p + SIZEOF_STRUCT_MEM <= m[p].next /\ m[p].next <= heap_end
          /\ \A r \in DOMAIN m : r <= p \/ m[p].next <= r
          /\ m[p].next # heap_end => m[p].next \in DOMAIN m /\ m[m[p].next].prev = p
          /\ p # 0 => m[p].prev \in DOMAIN m /\ m[m[p].prev].next = p

\* Of two neighbours one is used, unless one of the two is in X.
Separated(m, X) ==
    \A p \in DOMAIN m :
        m[p].next # heap_end
          => \/ p \in UsedBlocks(m) \/ m[p].next \in UsedBlocks(m)
             \/ p \in X \/ m[p].next \in X

LfreeOK(g) == g.lfree = heap_end \/ g.lfree \in DOMAIN g.mem \ UsedBlocks(g.mem)

\* What Behind does: one prev is set.
LEMMA BehindIs ==
    ASSUME HeapAssumption, NEW m, Blocks(m), NEW p \in Nat, NEW q,
           q = heap_end \/ q \in DOMAIN m
    PROVE  LET b == Behind(m, p, q)
           IN  /\ DOMAIN b = DOMAIN m /\ Blocks(b)
               /\ UsedBlocks(b) = UsedBlocks(m)
               /\ \A r \in DOMAIN m : /\ b[r].next = m[r].next
                                      /\ b[r].prev = IF r = q THEN p ELSE m[r].prev
<1>1. CASE q = heap_end
  BY <1>1 DEF Behind, Blocks, Address, HeapAssumption
<1>2. CASE q # heap_end
  <2>1. q \in DOMAIN m /\ m[q] \in Block
    BY <1>2 DEF Blocks
  <2>2. Behind(m, p, q) = [m EXCEPT ![q].prev = p]
    BY <1>2 DEF Behind
  <2>3. PICK b : b = [m EXCEPT ![q] = [m[q] EXCEPT !.prev = p]]
    BY Zenon
  <2>4. PICK v : v = [m[q] EXCEPT !.prev = p]
    BY Zenon
  <2>5. v \in Block /\ v.next = m[q].next /\ v.prev = p /\ v.used = m[q].used
    BY <2>1, <2>4 DEF Block
  <2>6. b \in [DOMAIN m -> Block] /\ DOMAIN b = DOMAIN m
    BY <2>1, <2>3, <2>4, <2>5 DEF Blocks
  <2>7. \A r \in DOMAIN m : b[r] = IF r = q THEN v ELSE m[r]
    BY <2>1, <2>3, <2>4 DEF Blocks
  <2>8. \A r \in DOMAIN m : b[r].used = m[r].used
    BY <2>5, <2>7
  <2>9. UsedBlocks(b) = UsedBlocks(m)
    BY <2>6, <2>8, Zenon DEF UsedBlocks
  <2>10. Behind(m, p, q) = b
    BY <2>2, <2>3
  <2> QED BY <2>5, <2>6, <2>7, <2>9, <2>10 DEF Blocks
<1> QED BY <1>1, <1>2

\* What Split does: block q between p and the one behind it, and free.
LEMMA SplitIs ==
    ASSUME HeapAssumption, NEW m, Linked(m), NEW p \in DOMAIN m, NEW n \in Nat,
           p + n + 2 * SIZEOF_STRUCT_MEM <= m[p].next
    PROVE  LET q == p + SIZEOF_STRUCT_MEM + n
               s == Split(m, p, n)
           IN  /\ q \in Address /\ q \notin DOMAIN m
               /\ DOMAIN s = DOMAIN m \union {q} /\ Blocks(s)
               /\ UsedBlocks(s) = UsedBlocks(m)
               /\ s[q].next = m[p].next /\ s[q].prev = p
               /\ \A r \in DOMAIN m :
                     /\ s[r].next = IF r = p THEN q ELSE m[r].next
                     /\ s[r].prev = IF r = m[p].next THEN q ELSE m[r].prev
<1>1. PICK q : q = p + SIZEOF_STRUCT_MEM + n
  OBVIOUS
<1>2. /\ p \in Nat /\ m[p] \in Block /\ m[p].next \in Nat
      /\ m \in [DOMAIN m -> Block] /\ DOMAIN m \subseteq Address
  BY DEF Linked, Blocks, Block, Address
<1>3. /\ q \in Address /\ q \notin DOMAIN m /\ q # p /\ q # m[p].next
      /\ q \in Nat
  <2>1. q \in Address /\ p < q /\ q < m[p].next
    BY <1>1, <1>2 DEF Linked, Address, HeapAssumption
  <2>2. \A r \in DOMAIN m : r <= p \/ m[p].next <= r
    BY DEF Linked
  <2> QED BY <2>1, <2>2, <1>2 DEF Address
<1>4. PICK v : v = [used |-> FALSE, next |-> m[p].next, prev |-> p]
  BY Zenon
<1>5. v \in Block /\ v.next = m[p].next /\ v.prev = p /\ v.used = FALSE
  BY <1>2, <1>4 DEF Block
<1>6. PICK w : w = [m[p] EXCEPT !.next = q]
  BY Zenon
<1>7. w \in Block /\ w.next = q /\ w.prev = m[p].prev /\ w.used = m[p].used
  BY <1>2, <1>3, <1>6 DEF Block
<1>8. PICK a : a = [r \in DOMAIN m \union {q} |->
                      IF r = q THEN v ELSE IF r = p THEN w ELSE m[r]]
  BY Zenon
<1>9. /\ DOMAIN a = DOMAIN m \union {q} /\ a[q] = v /\ a[p] = w
      /\ \A r \in DOMAIN m : a[r] = IF r = p THEN w ELSE m[r]
  BY <1>3, <1>8
<1>10. Blocks(a)
  <2>1. a \in [DOMAIN m \union {q} -> Block]
    BY <1>2, <1>5, <1>7, <1>8
  <2> QED BY <2>1, <1>2, <1>3, <1>9 DEF Blocks
<1>11. UsedBlocks(a) = UsedBlocks(m)
  <2>1. \A r \in DOMAIN m : a[r].used = m[r].used
    BY <1>7, <1>9
  <2>2. ~a[q].used
    BY <1>5, <1>9
  <2> QED BY <2>1, <2>2, <1>3, <1>9, Zenon DEF UsedBlocks
<1>12. m[p].next = heap_end \/ m[p].next \in DOMAIN a
  BY <1>9 DEF Linked
<1>13. Split(m, p, n) = Behind(a, q, m[p].next)
  BY <1>1, <1>4, <1>6, <1>8 DEF Split
<1>14. LET s == Split(m, p, n)
       IN  /\ DOMAIN s = DOMAIN a /\ Blocks(s)
           /\ UsedBlocks(s) = UsedBlocks(a)
           /\ \A r \in DOMAIN a : /\ s[r].next = a[r].next
                                  /\ s[r].prev = IF r = m[p].next THEN q ELSE a[r].prev
  <2>1. LET b == Behind(a, q, m[p].next)
        IN  /\ DOMAIN b = DOMAIN a /\ Blocks(b)
            /\ UsedBlocks(b) = UsedBlocks(a)
            /\ \A r \in DOMAIN a : /\ b[r].next = a[r].next
                                   /\ b[r].prev = IF r = m[p].next THEN q ELSE a[r].prev
    BY <1>3, <1>10, <1>12, BehindIs, Zenon
  <2> QED BY <2>1, <1>13
<1> QED BY <1>1, <1>3, <1>5, <1>7, <1>9, <1>11, <1>14

\* A split keeps the links.
LEMMA SplitLinked ==
    ASSUME HeapAssumption, NEW m, Linked(m), NEW p \in DOMAIN m, NEW n \in Nat,
           p + n + 2 * SIZEOF_STRUCT_MEM <= m[p].next
    PROVE  Linked(Split(m, p, n))
<1>1. PICK q, s : q = p + SIZEOF_STRUCT_MEM + n /\ s = Split(m, p, n)
  OBVIOUS
<1>2. /\ q \in Address /\ q \notin DOMAIN m
      /\ DOMAIN s = DOMAIN m \union {q} /\ Blocks(s)
      /\ s[q].next = m[p].next /\ s[q].prev = p
      /\ \A r \in DOMAIN m : /\ s[r].next = IF r = p THEN q ELSE m[r].next
                             /\ s[r].prev = IF r = m[p].next THEN q ELSE m[r].prev
  BY <1>1, SplitIs
<1>3. /\ DOMAIN m \subseteq Nat /\ \A r \in DOMAIN m : m[r].next \in Nat /\ m[r].prev \in Nat
      /\ MemSize \in Nat /\ q \in Nat
  BY <1>2 DEF Linked, Blocks, Block, Address, HeapAssumption
<1>4. /\ 0 \in DOMAIN m /\ m[0].prev = 0
      /\ \A r \in DOMAIN m :
            /\ r + SIZEOF_STRUCT_MEM <= m[r].next /\ m[r].next <= heap_end
            /\ \A x \in DOMAIN m : x <= r \/ m[r].next <= x
            /\ m[r].next # heap_end => m[r].next \in DOMAIN m /\ m[m[r].next].prev = r
            /\ r # 0 => m[r].prev \in DOMAIN m /\ m[m[r].prev].next = r
  BY DEF Linked
<1>5. p < q /\ q < m[p].next /\ q + SIZEOF_STRUCT_MEM <= m[p].next
  BY <1>1, <1>3
<1>6. 0 \in DOMAIN s /\ s[0].prev = 0
  BY <1>2, <1>3, <1>4, <1>5
<1>7. ASSUME NEW r \in DOMAIN s
      PROVE  /\ r + SIZEOF_STRUCT_MEM <= s[r].next /\ s[r].next <= heap_end
             /\ \A x \in DOMAIN s : x <= r \/ s[r].next <= x
  <2>1. CASE r = q
    BY <2>1, <1>2, <1>3, <1>4, <1>5
  <2>2. CASE r = p
    BY <2>2, <1>1, <1>2, <1>3, <1>4, <1>5
  <2>3. CASE r \in DOMAIN m /\ r # p
    <3>1. s[r].next = m[r].next
      BY <2>3, <1>2
    <3>2. q <= r \/ m[r].next <= q
      BY <2>3, <1>3, <1>4, <1>5
    <3> QED BY <3>1, <3>2, <2>3, <1>2, <1>3, <1>4
  <2> QED BY <2>1, <2>2, <2>3, <1>2
<1>8. ASSUME NEW r \in DOMAIN s, s[r].next # heap_end
      PROVE  s[r].next \in DOMAIN s /\ s[s[r].next].prev = r
  <2>1. CASE r = q
    BY <2>1, <1>2, <1>4, <1>8
  <2>2. CASE r = p
    BY <2>2, <1>2, <1>5
  <2>3. CASE r \in DOMAIN m /\ r # p
    <3>1. s[r].next = m[r].next /\ m[r].next \in DOMAIN m /\ m[m[r].next].prev = r
      BY <2>3, <1>2, <1>4, <1>8
    <3>2. m[r].next # m[p].next
      <4>1. CASE m[p].next = heap_end
        BY <4>1, <3>1, <1>8
      <4>2. CASE m[p].next # heap_end
        BY <4>2, <2>3, <3>1, <1>4
      <4> QED BY <4>1, <4>2
    <3> QED BY <3>1, <3>2, <1>2
  <2> QED BY <2>1, <2>2, <2>3, <1>2
<1>9. ASSUME NEW r \in DOMAIN s, r # 0
      PROVE  s[r].prev \in DOMAIN s /\ s[s[r].prev].next = r
  <2>1. CASE r = q
    BY <2>1, <1>2
  <2>2. CASE r = m[p].next
    BY <2>2, <1>2, <1>5, <1>9
  <2>3. CASE r \in DOMAIN m /\ r # m[p].next
    <3>1. s[r].prev = m[r].prev /\ m[r].prev \in DOMAIN m /\ m[m[r].prev].next = r
      BY <2>3, <1>2, <1>4, <1>9
    <3>2. m[r].prev # p
      BY <3>1, <2>3
    <3> QED BY <3>1, <3>2, <1>2
  <2> QED BY <2>1, <2>2, <2>3, <1>2
<1>10. Linked(s)
  BY <1>2, <1>6, <1>7, <1>8, <1>9 DEF Linked
<1> QED BY <1>1, <1>10

\* What Combined does to the headers: q is dropped, and p takes its next.
LEMMA CombinedIs ==
    ASSUME HeapAssumption, NEW g, Linked(g.mem), NEW p \in DOMAIN g.mem,
           NEW q \in DOMAIN g.mem, g.mem[p].next = q,
           g = [mem |-> g.mem, lfree |-> g.lfree, used_mem |-> g.used_mem]
    PROVE  LET m == g.mem
               s == Combined(g, p, q).mem
           IN  /\ DOMAIN s = DOMAIN m \ {q} /\ Blocks(s)
               /\ UsedBlocks(s) = UsedBlocks(m) \ {q}
               /\ \A r \in DOMAIN m \ {q} :
                     /\ s[r].next = IF r = p THEN m[q].next ELSE m[r].next
                     /\ s[r].prev = IF r = m[q].next THEN p ELSE m[r].prev
<1>1. PICK m : m = g.mem
  OBVIOUS
<1>2. /\ p \in Nat /\ q \in Nat /\ p < q /\ m[p] \in Block /\ m[q] \in Block
      /\ m[q].next \in Nat /\ q < m[q].next
      /\ m \in [DOMAIN m -> Block] /\ DOMAIN m \subseteq Address
  BY <1>1 DEF Linked, Blocks, Block, Address
<1>3. PICK w : w = [m[p] EXCEPT !.next = m[q].next]
  BY Zenon
<1>4. w \in Block /\ w.next = m[q].next /\ w.prev = m[p].prev /\ w.used = m[p].used
  BY <1>2, <1>3 DEF Block
<1>5. PICK a : a = Dropped([m EXCEPT ![p].next = m[q].next], q)
  OBVIOUS
<1>6. /\ DOMAIN a = DOMAIN m \ {q}
      /\ \A r \in DOMAIN m \ {q} : a[r] = IF r = p THEN w ELSE m[r]
      /\ a \in [DOMAIN m \ {q} -> Block]
  <2>1. PICK e : e = [m EXCEPT ![p] = w]
    BY Zenon
  <2>2. a = Dropped(e, q)
    BY <2>1, <1>3, <1>5
  <2>3. DOMAIN e = DOMAIN m /\ \A r \in DOMAIN m : e[r] = IF r = p THEN w ELSE m[r]
    BY <2>1, <1>1, <1>2
  <2>4. a = [r \in DOMAIN m \ {q} |-> e[r]]
    BY <2>2, <2>3 DEF Dropped
  <2> QED BY <2>3, <2>4, <1>2, <1>4
<1>7. Blocks(a)
  BY <1>2, <1>6 DEF Blocks
<1>8. UsedBlocks(a) = UsedBlocks(m) \ {q}
  <2>1. \A r \in DOMAIN a : a[r].used = m[r].used
    BY <1>4, <1>6
  <2> QED BY <2>1, <1>6, Zenon DEF UsedBlocks
<1>9. m[q].next = heap_end \/ m[q].next \in DOMAIN a
  BY <1>1, <1>2, <1>6 DEF Linked
<1>10. Combined(g, p, q).mem = Behind(a, p, m[q].next)
  BY <1>1, <1>5 DEF Combined
<1>11. LET s == Combined(g, p, q).mem
       IN  /\ DOMAIN s = DOMAIN a /\ Blocks(s)
           /\ UsedBlocks(s) = UsedBlocks(a)
           /\ \A r \in DOMAIN a : /\ s[r].next = a[r].next
                                  /\ s[r].prev = IF r = m[q].next THEN p ELSE a[r].prev
  <2>1. PICK x : x = m[q].next
    BY Zenon
  <2>2. Combined(g, p, q).mem = Behind(a, p, x) /\ (x = heap_end \/ x \in DOMAIN a) /\ p \in Nat
    BY <2>1, <1>2, <1>9, <1>10
  <2>3. LET s == Behind(a, p, x)
        IN  /\ DOMAIN s = DOMAIN a /\ Blocks(s)
            /\ UsedBlocks(s) = UsedBlocks(a)
            /\ \A r \in DOMAIN a : /\ s[r].next = a[r].next
                                   /\ s[r].prev = IF r = x THEN p ELSE a[r].prev
    BY <2>2, <1>7, BehindIs, Zenon
  <2> QED BY <2>1, <2>2, <2>3, Zenon
<1> QED BY <1>1, <1>4, <1>6, <1>8, <1>11

\* Combining two neighbours keeps the links.
LEMMA CombinedLinked ==
    ASSUME HeapAssumption, NEW g, Linked(g.mem), NEW p \in DOMAIN g.mem,
           NEW q \in DOMAIN g.mem, g.mem[p].next = q,
           g = [mem |-> g.mem, lfree |-> g.lfree, used_mem |-> g.used_mem]
    PROVE  Linked(Combined(g, p, q).mem)
<1>1. PICK m, s : m = g.mem /\ s = Combined(g, p, q).mem
  OBVIOUS
<1>2. /\ DOMAIN s = DOMAIN m \ {q} /\ Blocks(s)
      /\ \A r \in DOMAIN m \ {q} :
            /\ s[r].next = IF r = p THEN m[q].next ELSE m[r].next
            /\ s[r].prev = IF r = m[q].next THEN p ELSE m[r].prev
  BY <1>1, CombinedIs
<1>3. /\ DOMAIN m \subseteq Nat /\ \A r \in DOMAIN m : m[r].next \in Nat /\ m[r].prev \in Nat
      /\ MemSize \in Nat /\ p \in DOMAIN m /\ q \in DOMAIN m /\ m[p].next = q
  BY <1>1 DEF Linked, Blocks, Block, Address, HeapAssumption
<1>4. /\ 0 \in DOMAIN m /\ m[0].prev = 0
      /\ \A r \in DOMAIN m :
            /\ r + SIZEOF_STRUCT_MEM <= m[r].next /\ m[r].next <= heap_end
            /\ \A x \in DOMAIN m : x <= r \/ m[r].next <= x
            /\ m[r].next # heap_end => m[r].next \in DOMAIN m /\ m[m[r].next].prev = r
            /\ r # 0 => m[r].prev \in DOMAIN m /\ m[m[r].prev].next = r
  BY <1>1 DEF Linked
<1>5. p < q /\ q < m[q].next /\ p # q
  BY <1>3, <1>4
<1>6. 0 \in DOMAIN s /\ s[0].prev = 0
  BY <1>2, <1>3, <1>4, <1>5
<1>7. ASSUME NEW r \in DOMAIN s
      PROVE  /\ r + SIZEOF_STRUCT_MEM <= s[r].next /\ s[r].next <= heap_end
             /\ \A x \in DOMAIN s : x <= r \/ s[r].next <= x
  <2>1. CASE r = p
    <3>1. \A x \in DOMAIN s : x <= p \/ m[q].next <= x
      <4>1. SUFFICES ASSUME NEW x \in DOMAIN s PROVE x <= p \/ m[q].next <= x
        OBVIOUS
      <4>2. x \in DOMAIN m /\ x # q
        BY <1>2
      <4>3. (x <= p \/ q <= x) /\ (x <= q \/ m[q].next <= x)
        BY <4>2, <1>3, <1>4
      <4> QED BY <4>2, <4>3, <1>3
    <3>2. s[r].next = m[q].next
      BY <2>1, <1>2, <1>3, <1>5
    <3> QED BY <3>1, <3>2, <2>1, <1>3, <1>4, <1>5
  <2>2. CASE r # p
    BY <2>2, <1>2, <1>3, <1>4
  <2> QED BY <2>1, <2>2
<1>8. ASSUME NEW r \in DOMAIN s, s[r].next # heap_end
      PROVE  s[r].next \in DOMAIN s /\ s[s[r].next].prev = r
  <2>1. CASE r = p
    BY <2>1, <1>2, <1>3, <1>4, <1>5, <1>8
  <2>2. CASE r # p
    <3>1. /\ r \in DOMAIN m /\ s[r].next = m[r].next /\ m[r].next \in DOMAIN m
          /\ m[m[r].next].prev = r
      BY <2>2, <1>2, <1>4, <1>8
    <3>2. m[q].prev = p
      BY <1>3, <1>4
    <3>3. m[r].next # q
      BY <3>1, <3>2, <2>2
    <3>4. m[r].next # m[q].next
      <4>1. SUFFICES ASSUME m[r].next = m[q].next PROVE FALSE
        OBVIOUS
      <4>2. m[m[q].next].prev = q
        BY <4>1, <3>1, <1>3, <1>4, <1>8
      <4> QED BY <4>1, <4>2, <3>1, <1>2
    <3> QED BY <3>1, <3>3, <3>4, <1>2
  <2> QED BY <2>1, <2>2
<1>9. ASSUME NEW r \in DOMAIN s, r # 0
      PROVE  s[r].prev \in DOMAIN s /\ s[s[r].prev].next = r
  <2>1. CASE r = m[q].next
    BY <2>1, <1>2, <1>3, <1>5
  <2>2. CASE r # m[q].next
    <3>1. /\ r \in DOMAIN m /\ s[r].prev = m[r].prev /\ m[r].prev \in DOMAIN m
          /\ m[m[r].prev].next = r
      BY <2>2, <1>2, <1>4, <1>9
    <3>2. m[r].prev # q
      BY <3>1, <2>2
    <3>3. m[r].prev # p
      BY <3>1, <1>2, <1>3
    <3> QED BY <3>1, <3>2, <3>3, <1>2
  <2> QED BY <2>1, <2>2
<1>10. Linked(s)
  BY <1>2, <1>6, <1>7, <1>8, <1>9 DEF Linked
<1> QED BY <1>1, <1>10

\* Setting or clearing used keeps the links.
LEMMA MarkLinked ==
    ASSUME HeapAssumption, NEW m, Linked(m), NEW p \in DOMAIN m, NEW u \in BOOLEAN
    PROVE  LET s == [m EXCEPT ![p].used = u]
           IN  /\ Linked(s) /\ DOMAIN s = DOMAIN m
               /\ UsedBlocks(s) = IF u THEN UsedBlocks(m) \union {p}
                                  ELSE UsedBlocks(m) \ {p}
               /\ \A r \in DOMAIN m : s[r].next = m[r].next /\ s[r].prev = m[r].prev
<1>1. PICK v : v = [m[p] EXCEPT !.used = u]
  BY Zenon
<1>2. m \in [DOMAIN m -> Block] /\ m[p] \in Block
  BY DEF Linked, Blocks
<1>3. v \in Block /\ v.next = m[p].next /\ v.prev = m[p].prev /\ v.used = u
  BY <1>1, <1>2 DEF Block
<1>4. PICK s : s = [m EXCEPT ![p] = v]
  BY Zenon
<1>5. /\ DOMAIN s = DOMAIN m /\ s \in [DOMAIN m -> Block]
      /\ \A r \in DOMAIN m : s[r] = IF r = p THEN v ELSE m[r]
  BY <1>2, <1>3, <1>4
<1>6. \A r \in DOMAIN m : s[r].next = m[r].next /\ s[r].prev = m[r].prev
  BY <1>3, <1>5
<1>7. UsedBlocks(s) = IF u THEN UsedBlocks(m) \union {p} ELSE UsedBlocks(m) \ {p}
  <2>1. s[p].used = u /\ \A r \in DOMAIN m : r # p => s[r].used = m[r].used
    BY <1>3, <1>5
  <2>2. CASE u
    BY <2>1, <2>2, <1>5, Zenon DEF UsedBlocks
  <2>3. CASE ~u
    BY <2>1, <2>3, <1>5, Zenon DEF UsedBlocks
  <2> QED BY <2>2, <2>3
<1>8. Linked(s)
  <2>1. Blocks(s)
    BY <1>5 DEF Linked, Blocks
  <2> QED BY <2>1, <1>5, <1>6 DEF Linked
<1>9. s = [m EXCEPT ![p].used = u]
  BY <1>1, <1>4
<1> QED BY <1>5, <1>6, <1>7, <1>8, <1>9

IsHeap(g) == g = [mem |-> g.mem, lfree |-> g.lfree, used_mem |-> g.used_mem]

\* Two free neighbours are combined: the used blocks stay as they are, and
\* lfree does not point into the middle of a block.
LEMMA CombinedStep ==
    ASSUME HeapAssumption, NEW g, IsHeap(g), Linked(g.mem), LfreeOK(g),
           NEW p \in DOMAIN g.mem, NEW q \in DOMAIN g.mem, g.mem[p].next = q,
           p \notin UsedBlocks(g.mem), q \notin UsedBlocks(g.mem)
    PROVE  LET f == Combined(g, p, q)
           IN  /\ IsHeap(f) /\ Linked(f.mem) /\ LfreeOK(f)
               /\ DOMAIN f.mem = DOMAIN g.mem \ {q} /\ p # q
               /\ UsedBlocks(f.mem) = UsedBlocks(g.mem)
               /\ \A r \in DOMAIN f.mem :
                     f.mem[r].next = IF r = p THEN g.mem[q].next ELSE g.mem[r].next
<1>1. PICK f : f = Combined(g, p, q)
  OBVIOUS
<1>2. /\ DOMAIN f.mem = DOMAIN g.mem \ {q}
      /\ UsedBlocks(f.mem) = UsedBlocks(g.mem) \ {q}
      /\ \A r \in DOMAIN g.mem \ {q} :
            f.mem[r].next = IF r = p THEN g.mem[q].next ELSE g.mem[r].next
  BY <1>1, CombinedIs DEF IsHeap
<1>3. Linked(f.mem)
  BY <1>1, CombinedLinked DEF IsHeap
<1>4. p # q
  BY DEF Linked, Blocks, Address
<1>5. f.lfree = IF g.lfree = q THEN p ELSE g.lfree
  BY <1>1 DEF Combined, IsHeap
<1>6. IsHeap(f)
  BY <1>1, Zenon DEF Combined, IsHeap
<1>7. q # heap_end
  BY DEF Linked, Blocks, Address, HeapAssumption
<1>8. LfreeOK(f)
  BY <1>2, <1>4, <1>5, <1>7 DEF LfreeOK
<1> QED BY <1>1, <1>2, <1>3, <1>4, <1>6, <1>8

\* The free block p is the only one that can have a free neighbour; plug_holes
\* leaves none that has, and leaves the used blocks as they are.
LEMMA PlugHoles ==
    ASSUME HeapAssumption, NEW g, IsHeap(g), Linked(g.mem), LfreeOK(g),
           NEW p \in DOMAIN g.mem, p \notin UsedBlocks(g.mem), Separated(g.mem, {p})
    PROVE  LET f == plug_holes(g, p)
           IN  /\ IsHeap(f) /\ Linked(f.mem) /\ LfreeOK(f) /\ Separated(f.mem, {})
               /\ UsedBlocks(f.mem) = UsedBlocks(g.mem)
               /\ \A r \in UsedBlocks(g.mem) : f.mem[r].next = g.mem[r].next
<1>1. PICK n : n = g.mem[p].next
  OBVIOUS
<1>2. PICK f : f = IF n # heap_end /\ ~g.mem[n].used THEN Combined(g, p, n) ELSE g
  OBVIOUS
<1>3. PICK e : e = f.mem[p].prev
  OBVIOUS
<1>4. plug_holes(g, p) = IF e # p /\ ~f.mem[e].used THEN Combined(f, e, p) ELSE f
  BY <1>1, <1>2, <1>3 DEF plug_holes
<1>5. n = heap_end \/ n \in DOMAIN g.mem
  BY <1>1 DEF Linked
<1>6. /\ IsHeap(f) /\ Linked(f.mem) /\ LfreeOK(f)
      /\ p \in DOMAIN f.mem /\ Separated(f.mem, {p})
      /\ f.mem[p].next = heap_end \/ f.mem[p].next \in UsedBlocks(f.mem)
      /\ UsedBlocks(f.mem) = UsedBlocks(g.mem)
      /\ \A r \in UsedBlocks(g.mem) : f.mem[r].next = g.mem[r].next
  <2>1. CASE n = heap_end \/ n \in UsedBlocks(g.mem)
    <3>1. n = heap_end \/ g.mem[n].used
      BY <2>1, Zenon DEF UsedBlocks
    <3>2. f = g
      BY <3>1, <1>2
    <3> QED BY <3>2, <2>1, <1>1
  <2>2. CASE n # heap_end /\ n \notin UsedBlocks(g.mem)
    <3>1. n \in DOMAIN g.mem /\ ~g.mem[n].used
      BY <2>2, <1>5, Zenon DEF UsedBlocks
    <3>2. f = Combined(g, p, n)
      BY <3>1, <2>2, <1>2
    <3>3. /\ IsHeap(f) /\ Linked(f.mem) /\ LfreeOK(f)
          /\ DOMAIN f.mem = DOMAIN g.mem \ {n} /\ p # n
          /\ UsedBlocks(f.mem) = UsedBlocks(g.mem)
          /\ \A r \in DOMAIN f.mem :
                f.mem[r].next = IF r = p THEN g.mem[n].next ELSE g.mem[r].next
      BY <3>1, <3>2, <2>2, <1>1, CombinedStep
    <3>4. g.mem[n].next # p
      BY <3>1, <1>1 DEF Linked, Blocks, Block, Address
    <3>5. f.mem[p].next = heap_end \/ f.mem[p].next \in UsedBlocks(f.mem)
      BY <3>1, <3>3, <3>4, <2>2 DEF Separated
    <3>6. Separated(f.mem, {p})
      BY <3>3, <3>5 DEF Separated
    <3>7. \A r \in UsedBlocks(g.mem) : f.mem[r].next = g.mem[r].next
      BY <3>3, <2>2 DEF UsedBlocks
    <3> QED BY <3>3, <3>5, <3>6, <3>7
  <2> QED BY <2>1, <2>2
<1>7. /\ p = 0 => e = p
      /\ p # 0 => e \in DOMAIN f.mem /\ f.mem[e].next = p /\ e # p
  BY <1>3, <1>6 DEF Linked, Blocks, Block, Address
<1>8. \A r \in DOMAIN f.mem : f.mem[r].next = p => r = e /\ e # p
  BY <1>3, <1>6, <1>7 DEF Linked, Blocks, Address, HeapAssumption
<1>9. CASE e = p \/ e \in UsedBlocks(f.mem)
  <2>1. plug_holes(g, p) = f
    <3>1. e = p \/ f.mem[e].used
      BY <1>9, Zenon DEF UsedBlocks
    <3> QED BY <3>1, <1>4
  <2>2. Separated(f.mem, {})
    BY <1>6, <1>8, <1>9 DEF Separated
  <2> QED BY <2>1, <2>2, <1>6
<1>10. CASE e # p /\ e \notin UsedBlocks(f.mem)
  <2>1. e \in DOMAIN f.mem /\ f.mem[e].next = p /\ p \notin UsedBlocks(f.mem)
    BY <1>6, <1>7, <1>10
  <2>2. ~f.mem[e].used
    BY <2>1, <1>10, Zenon DEF UsedBlocks
  <2>3. PICK d : d = Combined(f, e, p)
    OBVIOUS
  <2>4. plug_holes(g, p) = d
    BY <2>2, <2>3, <1>4, <1>10
  <2>5. /\ IsHeap(d) /\ Linked(d.mem) /\ LfreeOK(d)
        /\ DOMAIN d.mem = DOMAIN f.mem \ {p}
        /\ UsedBlocks(d.mem) = UsedBlocks(f.mem)
        /\ \A r \in DOMAIN d.mem :
              d.mem[r].next = IF r = e THEN f.mem[p].next ELSE f.mem[r].next
    BY <2>1, <2>3, <1>6, <1>10, CombinedStep
  <2>6. Separated(d.mem, {})
    BY <2>1, <2>5, <1>6, <1>8 DEF Separated
  <2>7. \A r \in UsedBlocks(g.mem) : d.mem[r].next = g.mem[r].next
    BY <2>1, <2>5, <1>6, <1>10 DEF UsedBlocks
  <2> QED BY <2>4, <2>5, <2>6, <2>7, <1>6
<1> QED BY <1>9, <1>10

Sound(g) ==
    IsHeap(g) /\ Linked(g.mem) /\ Separated(g.mem, {}) /\ LfreeOK(g)

\* rt_malloc takes a free block, and gives it at least what was asked for.
LEMMA MallocStep ==
    ASSUME HeapAssumption, Sound(h), NEW n \in Nat, NEW p \in Found(n)
    PROVE  LET g == Malloc(p, n)
           IN  /\ Sound(g) /\ p \in Address /\ p \notin UsedBlocks(h.mem)
               /\ UsedBlocks(g.mem) = UsedBlocks(h.mem) \union {p}
               /\ n <= Data(g.mem, p)
               /\ \A r \in UsedBlocks(h.mem) : g.mem[r].next = h.mem[r].next
<1>1. PICK a : a = [h.mem EXCEPT ![p].used = TRUE]
  BY Zenon
<1>2. /\ p \in DOMAIN h.mem /\ p \in Address /\ p \in Nat
      /\ h.mem[p].next \in Nat /\ n <= h.mem[p].next - (p + SIZEOF_STRUCT_MEM)
  BY DEF Found, Sound, Linked, Blocks, Block, Address, Data
<1>3. p \notin UsedBlocks(h.mem)
  BY Zenon DEF Found, UsedBlocks
<1>4. /\ Linked(a) /\ DOMAIN a = DOMAIN h.mem
      /\ UsedBlocks(a) = UsedBlocks(h.mem) \union {p}
      /\ \A r \in DOMAIN h.mem : a[r].next = h.mem[r].next
  BY <1>1, <1>2, MarkLinked, Zenon DEF Sound
<1>5. h.mem[p].next = heap_end \/ h.mem[p].next \in UsedBlocks(h.mem)
  BY <1>2, <1>3 DEF Sound, Separated
<1>6. PICK m : m = Taken(p, n)
  OBVIOUS
<1>7. /\ Linked(m) /\ Separated(m, {}) /\ DOMAIN h.mem \subseteq DOMAIN m
      /\ UsedBlocks(m) = UsedBlocks(h.mem) \union {p}
      /\ n <= Data(m, p)
      /\ \A r \in UsedBlocks(h.mem) : m[r].next = h.mem[r].next
  <2>1. CASE Data(a, p) >= n + SIZEOF_STRUCT_MEM + MIN_SIZE
    <3>1. m = Split(a, p, n)
      BY <2>1, <1>1, <1>6 DEF Taken
    <3>2. p + n + 2 * SIZEOF_STRUCT_MEM <= a[p].next /\ a[p].next = h.mem[p].next
      BY <2>1, <1>2, <1>4 DEF Data
    <3>3. PICK q : q = p + SIZEOF_STRUCT_MEM + n
      OBVIOUS
    <3>4. /\ q \notin DOMAIN a /\ DOMAIN m = DOMAIN a \union {q}
          /\ UsedBlocks(m) = UsedBlocks(a) /\ m[q].next = a[p].next
          /\ \A r \in DOMAIN a : m[r].next = IF r = p THEN q ELSE a[r].next
      <4>1. p \in DOMAIN a
        BY <1>2, <1>4
      <4>2. LET s == Split(a, p, n)
                x == p + SIZEOF_STRUCT_MEM + n
            IN  /\ x \notin DOMAIN a /\ DOMAIN s = DOMAIN a \union {x}
                /\ UsedBlocks(s) = UsedBlocks(a) /\ s[x].next = a[p].next
                /\ \A r \in DOMAIN a : s[r].next = IF r = p THEN x ELSE a[r].next
        BY <4>1, <3>2, <1>4, SplitIs
      <4> QED BY <4>2, <3>1, <3>3
    <3>5. Linked(m)
      BY <3>1, <3>2, <1>2, <1>4, SplitLinked
    <3>6. Separated(m, {})
      BY <3>2, <3>4, <1>4, <1>5 DEF Separated, Sound
    <3>7. n <= Data(m, p)
      BY <3>3, <3>4, <1>2, <1>4 DEF Data
    <3>8. \A r \in UsedBlocks(h.mem) : m[r].next = h.mem[r].next
      BY <3>4, <1>3, <1>4 DEF UsedBlocks
    <3> QED BY <3>4, <3>5, <3>6, <3>7, <3>8, <1>4
  <2>2. CASE ~(Data(a, p) >= n + SIZEOF_STRUCT_MEM + MIN_SIZE)
    <3>1. m = a
      BY <2>2, <1>1, <1>6 DEF Taken
    <3>2. Separated(m, {})
      BY <3>1, <1>4 DEF Separated, Sound
    <3>3. n <= Data(m, p)
      BY <3>1, <1>2, <1>4 DEF Data
    <3>4. \A r \in UsedBlocks(h.mem) : m[r].next = h.mem[r].next
      BY <3>1, <1>4 DEF UsedBlocks
    <3> QED BY <3>1, <3>2, <3>3, <3>4, <1>4
  <2> QED BY <2>1, <2>2
<1>8. PICK g : g = Malloc(p, n)
  OBVIOUS
<1>9. /\ IsHeap(g) /\ g.mem = m
      /\ g.lfree = IF p = h.lfree THEN FreeFrom(m, p) ELSE h.lfree
  BY <1>6, <1>8 DEF Malloc, IsHeap
<1>10. FreeFrom(m, p) = heap_end \/ FreeFrom(m, p) \in DOMAIN m \ UsedBlocks(m)
  <2>1. PICK F : F = {q \in DOMAIN m : p <= q /\ ~m[q].used}
    BY Zenon
  <2>2. F \subseteq DOMAIN m \ UsedBlocks(m)
    BY <2>1, Zenon DEF UsedBlocks
  <2>3. F \subseteq Nat
    BY <2>1, <1>7 DEF Linked, Blocks, Address
  <2>4. FreeFrom(m, p) = IF F = {} THEN heap_end ELSE Min(F)
    BY <2>1 DEF FreeFrom
  <2>5. F # {} => Min(F) \in F
    BY <2>3, MinOfNats
  <2> QED BY <2>2, <2>4, <2>5
<1>11. LfreeOK(g)
  BY <1>7, <1>9, <1>10 DEF LfreeOK, Sound
<1> QED BY <1>2, <1>3, <1>7, <1>8, <1>9, <1>11 DEF Sound

\* rt_free makes a used block free and combines it with its free neighbours.
LEMMA FreeStep ==
    ASSUME HeapAssumption, Sound(h), NEW p \in UsedBlocks(h.mem)
    PROVE  LET g == FreeBlock(p)
           IN  /\ Sound(g)
               /\ UsedBlocks(g.mem) = UsedBlocks(h.mem) \ {p}
               /\ \A r \in UsedBlocks(h.mem) \ {p} : g.mem[r].next = h.mem[r].next
<1>1. PICK a : a = [h.mem EXCEPT ![p].used = FALSE]
  BY Zenon
<1>2. p \in DOMAIN h.mem
  BY DEF UsedBlocks
<1>3. /\ Linked(a) /\ DOMAIN a = DOMAIN h.mem
      /\ UsedBlocks(a) = UsedBlocks(h.mem) \ {p}
      /\ \A r \in DOMAIN h.mem : a[r].next = h.mem[r].next
  BY <1>1, <1>2, MarkLinked, Zenon DEF Sound
<1>4. PICK e : e = [mem |-> a, lfree |-> Min({p, h.lfree}),
                    used_mem |-> h.used_mem - Words(h.mem, p)]
  BY Zenon
<1>5. IsHeap(e) /\ e.mem = a /\ e.lfree = Min({p, h.lfree})
  BY <1>4 DEF IsHeap
<1>6. Min({p, h.lfree}) \in {p, h.lfree}
  <2>1. {p, h.lfree} \subseteq Nat
    BY <1>2 DEF Sound, LfreeOK, Linked, Blocks, Address, HeapAssumption
  <2> QED BY <2>1, MinOfNats
<1>7. LfreeOK(e)
  BY <1>2, <1>3, <1>5, <1>6 DEF LfreeOK, Sound
<1>8. Separated(e.mem, {p})
  BY <1>3, <1>5 DEF Separated, Sound
<1>9. FreeBlock(p) = plug_holes(e, p)
  BY <1>1, <1>4 DEF FreeBlock
<1>10. LET f == plug_holes(e, p)
       IN  /\ IsHeap(f) /\ Linked(f.mem) /\ LfreeOK(f) /\ Separated(f.mem, {})
           /\ UsedBlocks(f.mem) = UsedBlocks(e.mem)
           /\ \A r \in UsedBlocks(e.mem) : f.mem[r].next = e.mem[r].next
  BY <1>2, <1>3, <1>5, <1>7, <1>8, PlugHoles, Zenon
<1> QED BY <1>3, <1>5, <1>9, <1>10 DEF Sound, UsedBlocks

\* rt_realloc splits a used block that is to become smaller.
LEMMA ShrinkStep ==
    ASSUME HeapAssumption, Sound(h), NEW p \in UsedBlocks(h.mem), NEW n \in Nat,
           n + SIZEOF_STRUCT_MEM + MIN_SIZE < Data(h.mem, p)
    PROVE  LET g == Shrunk(p, n)
           IN  /\ Sound(g)
               /\ UsedBlocks(g.mem) = UsedBlocks(h.mem)
               /\ Data(g.mem, p) = n
               /\ \A r \in UsedBlocks(h.mem) \ {p} : g.mem[r].next = h.mem[r].next
<1>1. PICK a : a = Split(h.mem, p, n)
  OBVIOUS
<1>2. PICK q : q = p + SIZEOF_STRUCT_MEM + n
  OBVIOUS
<1>3. /\ p \in DOMAIN h.mem /\ p \in Nat /\ Linked(h.mem)
      /\ p + n + 2 * SIZEOF_STRUCT_MEM <= h.mem[p].next
  BY DEF UsedBlocks, Data, Sound, Linked, Blocks, Block, Address
<1>4. /\ q \notin DOMAIN h.mem /\ DOMAIN a = DOMAIN h.mem \union {q}
      /\ UsedBlocks(a) = UsedBlocks(h.mem)
      /\ \A r \in DOMAIN h.mem : a[r].next = IF r = p THEN q ELSE h.mem[r].next
  BY <1>1, <1>2, <1>3, SplitIs
<1>5. Linked(a)
  BY <1>1, <1>3, SplitLinked
<1>6. PICK e : e = [h EXCEPT !.mem = a, !.used_mem = h.used_mem - (Data(h.mem, p) - n)]
  OBVIOUS
<1>7. IsHeap(e) /\ e.mem = a /\ e.lfree = h.lfree
  BY <1>6, Zenon DEF Sound, IsHeap
<1>8. q \in DOMAIN a /\ q \notin UsedBlocks(a)
  BY <1>4 DEF UsedBlocks
<1>9. LfreeOK(e)
  BY <1>4, <1>7 DEF LfreeOK, Sound
<1>10. Separated(e.mem, {q})
  BY <1>4, <1>7 DEF Separated, Sound
<1>11. Shrunk(p, n) = plug_holes(e, q)
  BY <1>1, <1>2, <1>6 DEF Shrunk
<1>12. LET f == plug_holes(e, q)
       IN  /\ IsHeap(f) /\ Linked(f.mem) /\ LfreeOK(f) /\ Separated(f.mem, {})
           /\ UsedBlocks(f.mem) = UsedBlocks(e.mem)
           /\ \A r \in UsedBlocks(e.mem) : f.mem[r].next = e.mem[r].next
  BY <1>5, <1>7, <1>8, <1>9, <1>10, PlugHoles, Zenon
<1>13. PICK g : g = Shrunk(p, n)
  OBVIOUS
<1>14. /\ Sound(g) /\ UsedBlocks(g.mem) = UsedBlocks(h.mem)
       /\ \A r \in UsedBlocks(h.mem) : g.mem[r].next = a[r].next
  BY <1>4, <1>7, <1>11, <1>12, <1>13 DEF Sound
<1>15. g.mem[p].next = q
  BY <1>3, <1>4, <1>14
<1>16. Data(g.mem, p) = n
  BY <1>2, <1>3, <1>15 DEF Data
<1>17. \A r \in UsedBlocks(h.mem) \ {p} : g.mem[r].next = h.mem[r].next
  BY <1>4, <1>14 DEF UsedBlocks
<1> QED BY <1>13, <1>14, <1>16, <1>17

CallRecord == [from : Nat, n : Nat, to : Nat]

\* The inductive invariant: the heap is sound, the application has the used
\* blocks, and the calls of rt_realloc work on different ones of them.
HeapInv ==
    /\ Sound(h)
    /\ DOMAIN owned = UsedBlocks(h.mem)
    /\ \A p \in DOMAIN owned : owned[p] \in Nat /\ owned[p] <= Data(h.mem, p)
    /\ calls \subseteq CallRecord
    /\ \A c \in calls :
          /\ c.from \in DOMAIN owned /\ c.from # c.to
          /\ c.to = heap_end \/ c.to \in DOMAIN owned
    /\ \A c, d \in calls :
          c # d => /\ c.from # d.from /\ c.from # d.to
                   /\ c.to = d.to => c.to = heap_end

\* What rt_malloc returns, on its own or inside rt_realloc.
LEMMA Allocates ==
    ASSUME HeapAssumption, HeapInv, NEW n \in Nat \ {0}, Found(Rounded(n)) # {}
    PROVE  LET p == Min(Found(Rounded(n)))
               g == Malloc(p, Rounded(n))
           IN  /\ Sound(g) /\ p \in Address /\ p \notin DOMAIN owned
               /\ UsedBlocks(g.mem) = DOMAIN owned \union {p}
               /\ n <= Data(g.mem, p)
               /\ \A r \in DOMAIN owned : g.mem[r].next = h.mem[r].next
<1>1. PICK m : m = Rounded(n)
  OBVIOUS
<1>2. m \in Nat /\ n <= m
  <2>1. \E x \in {n, MIN_SIZE} : \A y \in {n, MIN_SIZE} : x >= y
    OBVIOUS
  <2>2. m \in {n, MIN_SIZE} /\ \A y \in {n, MIN_SIZE} : m >= y
    BY <2>1, <1>1, Zenon DEF Rounded, Max
  <2> QED BY <2>2
<1>3. PICK p : p = Min(Found(m))
  OBVIOUS
<1>4. p \in Found(m)
  <2>1. Found(m) \subseteq Nat
    BY DEF Found, HeapInv, Sound, Linked, Blocks, Address
  <2> QED BY <2>1, <1>1, <1>3, MinOfNats
<1>5. LET g == Malloc(p, m)
      IN  /\ Sound(g) /\ p \in Address /\ p \notin UsedBlocks(h.mem)
          /\ UsedBlocks(g.mem) = UsedBlocks(h.mem) \union {p}
          /\ m <= Data(g.mem, p)
          /\ \A r \in UsedBlocks(h.mem) : g.mem[r].next = h.mem[r].next
  BY <1>2, <1>4, MallocStep DEF HeapInv
<1>6. PICK g : g = Malloc(p, m)
  OBVIOUS
<1>7. Data(g.mem, p) \in Int
  <2>1. p \in UsedBlocks(g.mem) /\ Linked(g.mem)
    BY <1>5, <1>6 DEF Sound
  <2> QED BY <2>1 DEF UsedBlocks, Linked, Blocks, Block, Address, Data
<1>8. n <= Data(g.mem, p)
  BY <1>2, <1>5, <1>6, <1>7
<1> QED BY <1>1, <1>3, <1>5, <1>6, <1>8 DEF HeapInv

\* The application gets a block beside those that it has.
LEMMA OwnsOneMore ==
    ASSUME HeapAssumption, HeapInv, NEW n \in Nat, NEW p, p \notin DOMAIN owned,
           Sound(h'), UsedBlocks(h'.mem) = DOMAIN owned \union {p},
           n <= Data(h'.mem, p),
           \A r \in DOMAIN owned : h'.mem[r].next = h.mem[r].next,
           owned' = [q \in DOMAIN owned \union {p} |-> IF q = p THEN n ELSE owned[q]]
    PROVE  /\ DOMAIN owned' = UsedBlocks(h'.mem)
           /\ \A r \in DOMAIN owned' : owned'[r] \in Nat /\ owned'[r] <= Data(h'.mem, r)
BY DEF HeapInv, Data

\* The application has one block less.
LEMMA OwnsOneLess ==
    ASSUME HeapAssumption, HeapInv, NEW p \in DOMAIN owned, h' = FreeBlock(p),
           owned' = [q \in DOMAIN owned \ {p} |-> owned[q]]
    PROVE  /\ Sound(h')
           /\ DOMAIN owned' = UsedBlocks(h'.mem)
           /\ \A r \in DOMAIN owned' : owned'[r] \in Nat /\ owned'[r] <= Data(h'.mem, r)
<1>1. /\ Sound(h') /\ UsedBlocks(h'.mem) = UsedBlocks(h.mem) \ {p}
      /\ \A r \in UsedBlocks(h.mem) \ {p} : h'.mem[r].next = h.mem[r].next
  BY FreeStep DEF HeapInv
<1> QED BY <1>1 DEF HeapInv, Data

\* Blocks that a call works on are addresses, and so not heap_end.
LEMMA OwnedAddresses ==
    ASSUME HeapAssumption, HeapInv
    PROVE  DOMAIN owned \subseteq Address /\ heap_end \notin Address
           /\ Address \subseteq Nat /\ heap_end \in Nat
BY DEF HeapInv, Sound, Linked, Blocks, UsedBlocks, Address, HeapAssumption

\* Every step keeps the invariant.
LEMMA HeapInvStep ==
    ASSUME HeapAssumption, HeapInv, [Next]_vars
    PROVE  HeapInv'
<1>1. Sizes \subseteq Nat
  <2>1. SizeMax \in Nat
    BY DEF SizeMax
  <2> QED BY <2>1 DEF HeapAssumption
<1>2. CASE rt_malloc
  <2>1. PICK n \in Sizes \ {0} :
           /\ Found(Rounded(n)) # {} /\ UNCHANGED calls
           /\ h' = Malloc(Min(Found(Rounded(n))), Rounded(n))
           /\ owned' = [q \in DOMAIN owned \union {Min(Found(Rounded(n)))} |->
                          IF q = Min(Found(Rounded(n))) THEN n ELSE owned[q]]
    BY <1>2 DEF rt_malloc
  <2>2. n \in Nat \ {0}
    BY <1>1
  <2>3. PICK p : p = Min(Found(Rounded(n)))
    OBVIOUS
  <2>4. /\ Sound(h') /\ p \notin DOMAIN owned
        /\ UsedBlocks(h'.mem) = DOMAIN owned \union {p} /\ n <= Data(h'.mem, p)
        /\ \A r \in DOMAIN owned : h'.mem[r].next = h.mem[r].next
    BY <2>1, <2>2, <2>3, Allocates
  <2>5. owned' = [q \in DOMAIN owned \union {p} |-> IF q = p THEN n ELSE owned[q]]
    BY <2>1, <2>3
  <2>6. /\ DOMAIN owned' = UsedBlocks(h'.mem)
        /\ \A r \in DOMAIN owned' : owned'[r] \in Nat /\ owned'[r] <= Data(h'.mem, r)
    BY <2>2, <2>4, <2>5, OwnsOneMore, Zenon
  <2>7. calls' = calls /\ DOMAIN owned \subseteq DOMAIN owned'
    BY <2>1, <2>5
  <2> QED BY <2>4, <2>6, <2>7 DEF HeapInv
<1>3. CASE rt_free
  <2>1. PICK p \in Unmoved : /\ h' = FreeBlock(p) /\ UNCHANGED calls
                          /\ owned' = [q \in DOMAIN owned \ {p} |-> owned[q]]
    BY <1>3 DEF rt_free
  <2>2. p \in DOMAIN owned /\ \A c \in calls : c.from # p /\ c.to # p
    BY DEF Unmoved
  <2>3. /\ Sound(h') /\ DOMAIN owned' = UsedBlocks(h'.mem)
        /\ \A r \in DOMAIN owned' : owned'[r] \in Nat /\ owned'[r] <= Data(h'.mem, r)
    BY <2>1, <2>2, OwnsOneLess
  <2>4. calls' = calls /\ DOMAIN owned' = DOMAIN owned \ {p}
    BY <2>1
  <2> QED BY <2>2, <2>3, <2>4 DEF HeapInv
<1>4. CASE rt_realloc
  <2>1. PICK p \in Unmoved, n \in Sizes :
           \/ /\ Data(h.mem, p) = n
              /\ owned' = [owned EXCEPT ![p] = n]
              /\ UNCHANGED <<h, calls>>
           \/ /\ n + SIZEOF_STRUCT_MEM + MIN_SIZE < Data(h.mem, p)
              /\ h' = Shrunk(p, n)
              /\ owned' = [owned EXCEPT ![p] = n]
              /\ UNCHANGED calls
           \/ /\ calls' = calls \union {[from |-> p, n |-> n, to |-> heap_end]}
              /\ UNCHANGED <<h, owned>>
    BY <1>4 DEF rt_realloc
  <2>2. /\ p \in DOMAIN owned /\ n \in Nat /\ \A c \in calls : c.from # p /\ c.to # p
    BY <1>1 DEF Unmoved
  <2>3. CASE Data(h.mem, p) = n /\ owned' = [owned EXCEPT ![p] = n] /\ UNCHANGED <<h, calls>>
    <3>1. DOMAIN owned' = DOMAIN owned
      BY <2>3
    <3>2. \A r \in DOMAIN owned : owned'[r] = IF r = p THEN n ELSE owned[r]
      BY <2>2, <2>3
    <3>3. \A r \in DOMAIN owned' : owned'[r] \in Nat /\ owned'[r] <= Data(h'.mem, r)
      BY <3>1, <3>2, <2>2, <2>3 DEF HeapInv
    <3> QED BY <3>1, <3>3, <2>3 DEF HeapInv
  <2>4. CASE /\ n + SIZEOF_STRUCT_MEM + MIN_SIZE < Data(h.mem, p)
             /\ h' = Shrunk(p, n) /\ owned' = [owned EXCEPT ![p] = n] /\ UNCHANGED calls
    <3>1. /\ Sound(h') /\ UsedBlocks(h'.mem) = UsedBlocks(h.mem) /\ Data(h'.mem, p) = n
          /\ \A r \in UsedBlocks(h.mem) \ {p} : h'.mem[r].next = h.mem[r].next
      BY <2>2, <2>4, ShrinkStep DEF HeapInv
    <3>2. DOMAIN owned' = DOMAIN owned
      BY <2>4
    <3>3. \A r \in DOMAIN owned : owned'[r] = IF r = p THEN n ELSE owned[r]
      BY <2>2, <2>4
    <3>4. ASSUME NEW r \in DOMAIN owned'
          PROVE  owned'[r] \in Nat /\ owned'[r] <= Data(h'.mem, r)
      <4>1. CASE r = p
        BY <4>1, <3>1, <3>2, <3>3, <2>2
      <4>2. CASE r # p
        BY <4>2, <3>1, <3>2, <3>3 DEF HeapInv, Data
      <4> QED BY <4>1, <4>2
    <3> QED BY <3>1, <3>2, <3>4, <2>4 DEF HeapInv
  <2>5. CASE /\ calls' = calls \union {[from |-> p, n |-> n, to |-> heap_end]}
             /\ UNCHANGED <<h, owned>>
    <3>1. PICK d : d = [from |-> p, n |-> n, to |-> heap_end]
      BY Zenon
    <3>2. d \in CallRecord /\ d.from = p /\ d.to = heap_end /\ p # heap_end
      BY <3>1, <2>2, OwnedAddresses DEF CallRecord
    <3>3. \A c \in calls : c.from # heap_end
      BY OwnedAddresses DEF HeapInv
    <3>4. calls' = calls \union {d} /\ h' = h /\ owned' = owned
      BY <3>1, <2>5
    <3> QED BY <3>2, <3>3, <3>4, <2>2 DEF HeapInv
  <2> QED BY <2>1, <2>3, <2>4, <2>5
<1>5. CASE ReallocMoves
  <2>1. PICK c \in calls :
           /\ c.to = heap_end
           /\ IF c.n = 0 \/ Found(Rounded(c.n)) = {}
              THEN calls' = calls \ {c} /\ UNCHANGED <<h, owned>>
              ELSE LET p == Min(Found(Rounded(c.n)))
                   IN  /\ h' = Malloc(p, Rounded(c.n))
                       /\ owned' = [q \in DOMAIN owned \union {p} |->
                                      IF q = p THEN c.n ELSE owned[q]]
                       /\ calls' = (calls \ {c}) \union {[c EXCEPT !.to = p]}
    BY <1>5, Zenon DEF ReallocMoves
  <2>2. CASE c.n = 0 \/ Found(Rounded(c.n)) = {}
    <3>1. calls' = calls \ {c} /\ h' = h /\ owned' = owned
      BY <2>1, <2>2
    <3> QED BY <3>1 DEF HeapInv
  <2>3. CASE ~(c.n = 0 \/ Found(Rounded(c.n)) = {})
    <3>1. PICK p : p = Min(Found(Rounded(c.n)))
      OBVIOUS
    <3>2. /\ h' = Malloc(p, Rounded(c.n))
          /\ owned' = [q \in DOMAIN owned \union {p} |-> IF q = p THEN c.n ELSE owned[q]]
          /\ calls' = (calls \ {c}) \union {[c EXCEPT !.to = p]}
      BY <3>1, <2>1, <2>3
    <3>3. c \in CallRecord /\ c.n \in Nat \ {0} /\ Found(Rounded(c.n)) # {}
      BY <2>3 DEF HeapInv, CallRecord
    <3>4. /\ Sound(h') /\ p \in Address /\ p \notin DOMAIN owned
          /\ UsedBlocks(h'.mem) = DOMAIN owned \union {p} /\ c.n <= Data(h'.mem, p)
          /\ \A r \in DOMAIN owned : h'.mem[r].next = h.mem[r].next
      BY <3>1, <3>2, <3>3, Allocates
    <3>5. /\ DOMAIN owned' = UsedBlocks(h'.mem)
          /\ \A r \in DOMAIN owned' : owned'[r] \in Nat /\ owned'[r] <= Data(h'.mem, r)
      BY <3>2, <3>3, <3>4, OwnsOneMore
    <3>6. PICK d : d = [c EXCEPT !.to = p]
      BY Zenon
    <3>7. d \in CallRecord /\ d.from = c.from /\ d.to = p /\ p # heap_end
      BY <3>3, <3>4, <3>6, OwnedAddresses DEF CallRecord
    <3>8. calls' = (calls \ {c}) \union {d} /\ DOMAIN owned' = DOMAIN owned \union {p}
      BY <3>2, <3>6
    <3>9. \A b \in calls : b.from # p /\ b.to # p
      BY <3>4, <3>7 DEF HeapInv
    <3>10. calls' \subseteq CallRecord
      BY <3>7, <3>8 DEF HeapInv
    <3>11. \A b \in calls' : /\ b.from \in DOMAIN owned' /\ b.from # b.to
                             /\ b.to = heap_end \/ b.to \in DOMAIN owned'
      BY <3>7, <3>8, <3>9 DEF HeapInv
    <3>12. \A a, b \in calls' : a # b => /\ a.from # b.from /\ a.from # b.to
                                         /\ a.to = b.to => a.to = heap_end
      BY <3>7, <3>8, <3>9 DEF HeapInv
    <3> QED BY <3>4, <3>5, <3>10, <3>11, <3>12 DEF HeapInv
  <2> QED BY <2>2, <2>3
<1>6. CASE ReallocFrees
  <2>1. PICK c \in calls : /\ c.to # heap_end /\ h' = FreeBlock(c.from)
                           /\ owned' = [q \in DOMAIN owned \ {c.from} |-> owned[q]]
                           /\ calls' = calls \ {c}
    BY <1>6 DEF ReallocFrees
  <2>2. c.from \in DOMAIN owned
    BY DEF HeapInv
  <2>3. /\ Sound(h') /\ DOMAIN owned' = UsedBlocks(h'.mem)
        /\ \A r \in DOMAIN owned' : owned'[r] \in Nat /\ owned'[r] <= Data(h'.mem, r)
    BY <2>1, <2>2, OwnsOneLess
  <2>4. DOMAIN owned' = DOMAIN owned \ {c.from}
    BY <2>1
  <2> QED BY <2>1, <2>3, <2>4, Zenon DEF HeapInv
<1>7. CASE UNCHANGED vars
  <2>1. h' = h /\ owned' = owned /\ calls' = calls
    BY <1>7 DEF vars
  <2> QED BY <2>1 DEF HeapInv
<1> QED BY <1>2, <1>3, <1>4, <1>5, <1>6, <1>7 DEF Next

\* rt_system_heap_init makes one free block.
LEMMA HeapInvInit ==
    ASSUME HeapAssumption, Init
    PROVE  HeapInv
<1>1. PICK v : v = [used |-> FALSE, next |-> heap_end, prev |-> 0]
  BY Zenon
<1>2. v \in Block /\ v.next = heap_end /\ v.prev = 0 /\ v.used = FALSE
  BY <1>1 DEF Block, HeapAssumption
<1>3. PICK m : m = [p \in {0} |-> v]
  BY Zenon
<1>4. DOMAIN m = {0} /\ m[0] = v /\ m \in [{0} -> Block]
  BY <1>2, <1>3
<1>5. h = [mem |-> m, lfree |-> 0, used_mem |-> 0]
  BY <1>1, <1>3 DEF Init, rt_system_heap_init
<1>6. IsHeap(h) /\ h.mem = m /\ h.lfree = 0
  BY <1>5 DEF IsHeap
<1>7. UsedBlocks(m) = {}
  BY <1>2, <1>4, Zenon DEF UsedBlocks
<1>8. Linked(m)
  BY <1>2, <1>4 DEF Linked, Blocks, Address, HeapAssumption
<1>9. Separated(m, {})
  BY <1>2, <1>4 DEF Separated
<1>10. Sound(h)
  BY <1>4, <1>6, <1>7, <1>8, <1>9 DEF Sound, LfreeOK
<1>11. DOMAIN owned = {} /\ calls = {}
  BY DEF Init
<1> QED BY <1>6, <1>7, <1>10, <1>11 DEF HeapInv

\* The blocks tile the heap, linked both ways, without free neighbours, and
\* lfree is a free one or heap_end, whatever the application allocates, frees
\* and reallocates.
THEOREM HeapTiled ==
    ASSUME HeapAssumption
    PROVE  Spec => []Tiled
<1>1. Init => HeapInv
  BY HeapInvInit
<1>2. HeapInv /\ [Next]_vars => HeapInv'
  BY HeapInvStep
<1>3. HeapInv => Tiled
  <2> SUFFICES ASSUME HeapInv PROVE Tiled
    OBVIOUS
  <2>1. 0 \in DOMAIN h.mem
    BY DEF HeapInv, Sound, Linked
  <2>2. h.lfree = heap_end \/ (h.lfree \in DOMAIN h.mem /\ ~h.mem[h.lfree].used)
    BY Zenon DEF HeapInv, Sound, LfreeOK, UsedBlocks
  <2>3. ASSUME NEW p \in DOMAIN h.mem
        PROVE  LET n == h.mem[p].next
               IN  /\ n >= p + SIZEOF_STRUCT_MEM
                   /\ DOMAIN h.mem \intersect (p + 1 .. n - 1) = {}
                   /\ n # heap_end => n \in DOMAIN h.mem /\ h.mem[n].prev = p
    BY DEF HeapInv, Sound, Linked, Blocks, Block, Address
  <2>4. ASSUME NEW p \in DOMAIN h.mem, h.mem[p].next # heap_end
        PROVE  h.mem[p].used \/ h.mem[h.mem[p].next].used
    <3>1. p \in UsedBlocks(h.mem) \/ h.mem[p].next \in UsedBlocks(h.mem)
      BY <2>4 DEF HeapInv, Sound, Separated
    <3> QED BY <3>1, Zenon DEF UsedBlocks
  <2> QED BY <2>1, <2>2, <2>3, <2>4 DEF Tiled
<1> QED BY <1>1, <1>2, <1>3, PTL DEF Spec

\* A block that the application has is in use and has the words it asked for,
\* and every other block is free, until the application frees it: OwnedFits
\* without the statistics.
THEOREM HeapOwned ==
    ASSUME HeapAssumption
    PROVE  Spec => []OwnsUsed
<1>1. Init => HeapInv
  BY HeapInvInit
<1>2. HeapInv /\ [Next]_vars => HeapInv'
  BY HeapInvStep
<1>3. HeapInv => OwnsUsed
  BY DEF HeapInv, UsedBlocks, OwnsUsed
<1> QED BY <1>1, <1>2, <1>3, PTL DEF Spec
=============================================================================
