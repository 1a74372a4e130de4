----------------------------- MODULE ListLemmas -----------------------------
(***************************************************************************)
(* What the list operations of Kernel do to the elements of a list. The    *)
(* proofs about the kernel only use these lemmas: which threads are on a   *)
(* list, that none is on it twice, and whether it is empty.                *)
(***************************************************************************)
EXTENDS Lists, WellFoundedInduction, TLAPS

\* Time limits of the leaves, in seconds, for the two provers in this order.
USE SMTT(30), ZenonT(30)

\* A non-empty set of naturals has a least element, and Min (what __rt_ffs
\* computes on the bitmap of ready priorities) is that element.
LEMMA MinOfNats ==
    ASSUME NEW I \in SUBSET Nat, I # {}
    PROVE  Min(I) \in I /\ \A i \in I : Min(I) <= i
<1>1. PICK x \in I : \A y \in I : ~(<<y, x>> \in OpToRel(<, Nat))
  BY NatLessThanWellFounded, WFMin, ZenonT(30)
<1>2. \A y \in I : ~(y < x)
  BY <1>1, ZenonT(30) DEF OpToRel
<1>3. \A y \in I : x <= y
  BY <1>2
<1> QED BY <1>3, ZenonT(30) DEF Min

-----------------------------------------------------------------------------

\* The elements of a list are what is at its positions.
LEMMA RangeIn ==
    ASSUME NEW T, NEW s \in Seq(T), NEW i \in 1 .. Len(s)
    PROVE  s[i] \in Range(s)
<1>1. DOMAIN s = 1 .. Len(s)
  OBVIOUS
<1>2. i \in DOMAIN s
  BY <1>1
<1> QED BY <1>2, Zenon DEF Range

LEMMA RangePick ==
    ASSUME NEW T, NEW s \in Seq(T), NEW x \in Range(s)
    PROVE  \E i \in 1 .. Len(s) : s[i] = x
<1>1. DOMAIN s = 1 .. Len(s)
  OBVIOUS
<1>2. \E i \in DOMAIN s : s[i] = x
  BY Zenon DEF Range
<1> QED BY <1>1, <1>2, Zenon

LEMMA InjectiveSeq ==
    ASSUME NEW T, NEW s \in Seq(T)
    PROVE  IsInjective(s) <=> \A i, j \in 1 .. Len(s) : s[i] = s[j] => i = j
<1>1. DOMAIN s = 1 .. Len(s)
  OBVIOUS
<1> QED BY <1>1, Zenon DEF IsInjective

\* A list is empty iff no thread is on it.
LEMMA EmptyElements ==
    ASSUME NEW T, NEW s \in Seq(T)
    PROVE  s = <<>> <=> Range(s) = {}
<1>1. ASSUME s = <<>>, NEW x \in Range(s) PROVE FALSE
  <2>1. PICK i \in 1 .. Len(s) : s[i] = x
    BY RangePick
  <2> QED BY <1>1, <2>1
<1>2. ASSUME s # <<>> PROVE Range(s) # {}
  <2>1. 1 \in 1 .. Len(s)
    BY <1>2
  <2>2. s[1] \in Range(s)
    BY <2>1, RangeIn
  <2> QED BY <2>2, Zenon
<1> QED BY <1>1, <1>2, Zenon

\* Two lists one behind the other.
LEMMA ConcatSeq ==
    ASSUME NEW T, NEW a \in Seq(T), NEW b \in Seq(T)
    PROVE  /\ a \o b \in Seq(T)
           /\ Len(a \o b) = Len(a) + Len(b)
           /\ \A j \in 1 .. Len(a) + Len(b) :
                 (a \o b)[j] = IF j <= Len(a) THEN a[j] ELSE b[j - Len(a)]
OBVIOUS

\* Removing the element at position i moves the ones behind it up.
LEMMA DropPositions ==
    ASSUME NEW T, NEW s \in Seq(T), NEW i \in 1 .. Len(s)
    PROVE  /\ Drop(s, i) \in Seq(T)
           /\ Len(Drop(s, i)) = Len(s) - 1
           /\ \A j \in 1 .. Len(s) - 1 :
                 Drop(s, i)[j] = IF j < i THEN s[j] ELSE s[j + 1]
<1> DEFINE f == SubSeq(s, 1, i - 1)
           g == SubSeq(s, i + 1, Len(s))
<1>1. f \in Seq(T) /\ Len(f) = i - 1 /\ \A j \in 1 .. i - 1 : f[j] = s[j]
  OBVIOUS
<1>2. g \in Seq(T) /\ Len(g) = Len(s) - i /\ \A j \in 1 .. Len(s) - i : g[j] = s[i + j]
  OBVIOUS
<1> HIDE DEF f, g
<1>3. f \o g \in Seq(T) /\ Len(f \o g) = Len(s) - 1
  <2>1. f \o g \in Seq(T) /\ Len(f \o g) = Len(f) + Len(g)
    BY <1>1, <1>2, ConcatSeq, ZenonT(30)
  <2> QED BY <1>1, <1>2, <2>1
<1>4. \A j \in 1 .. Len(s) - 1 : (f \o g)[j] = IF j < i THEN s[j] ELSE s[j + 1]
  BY <1>1, <1>2
<1>5. Drop(s, i) = f \o g
  BY DEF Drop, f, g
<1> QED BY <1>3, <1>4, <1>5

\* rt_list_remove on a list without duplicates takes the node, and only the
\* node, off the list.
LEMMA WithoutElements ==
    ASSUME NEW T, NEW s \in Seq(T), IsInjective(s), NEW t
    PROVE  /\ Without(s, t) \in Seq(T)
           /\ IsInjective(Without(s, t))
           /\ Range(Without(s, t)) = Range(s) \ {t}
<1>1. CASE ~ \E i \in 1 .. Len(s) : s[i] = t
  <2>1. Without(s, t) = s
    BY <1>1 DEF Without
  <2>2. t \notin Range(s)
    BY <1>1, RangePick
  <2> QED BY <2>1, <2>2, Zenon
<1>2. CASE \E i \in 1 .. Len(s) : s[i] = t
  <2> DEFINE m == CHOOSE i \in 1 .. Len(s) : s[i] = t
             r == Drop(s, m)
  <2>1. m \in 1 .. Len(s) /\ s[m] = t
    BY <1>2
  <2>2. Without(s, t) = r
    BY <1>2 DEF Without
  <2> HIDE DEF m, r
  <2>3. r \in Seq(T) /\ Len(r) = Len(s) - 1
        /\ \A j \in 1 .. Len(s) - 1 : r[j] = IF j < m THEN s[j] ELSE s[j + 1]
    BY <2>1, DropPositions DEF r
  <2>4. \A i, j \in 1 .. Len(s) : s[i] = s[j] => i = j
    BY InjectiveSeq
  <2>5. IsInjective(r)
    <3> SUFFICES ASSUME NEW i \in 1 .. Len(s) - 1, NEW j \in 1 .. Len(s) - 1,
                        r[i] = r[j]
                 PROVE  i = j
      BY <2>3, InjectiveSeq
    <3> QED BY <2>1, <2>3, <2>4
  <2>6. ASSUME NEW x \in Range(r) PROVE x \in Range(s) /\ x # t
    <3>1. PICK i \in 1 .. Len(s) - 1 : r[i] = x
      BY <2>3, RangePick
    <3>2. PICK j \in 1 .. Len(s) : j # m /\ s[j] = x
      <4>1. CASE i < m
        BY <2>3, <3>1, <4>1
      <4>2. CASE i >= m
        BY <2>1, <2>3, <3>1, <4>2
      <4> QED BY <2>1, <4>1, <4>2
    <3> QED BY <2>1, <2>4, <3>2, RangeIn
  <2>7. ASSUME NEW x \in Range(s), x # t PROVE x \in Range(r)
    <3>1. PICK i \in 1 .. Len(s) : s[i] = x
      BY RangePick
    <3>2. i # m
      BY <2>1, <2>7, <3>1
    <3>3. i < m => i \in 1 .. Len(s) - 1 /\ r[i] = x
      BY <2>1, <2>3, <3>1
    <3>4. i > m => i - 1 \in 1 .. Len(s) - 1 /\ r[i - 1] = x
      BY <2>1, <2>3, <3>1
    <3>5. PICK j \in 1 .. Len(r) : r[j] = x
      BY <2>1, <2>3, <3>2, <3>3, <3>4
    <3> QED BY <2>3, <3>5, RangeIn
  <2>8. Range(r) = Range(s) \ {t}
    BY <2>6, <2>7, Zenon
  <2> QED BY <2>2, <2>3, <2>5, <2>8, Zenon
<1> QED BY <1>1, <1>2

\* rt_list_insert_before on a list head appends the node.
LEMMA AppendElements ==
    ASSUME NEW T, NEW s \in Seq(T), IsInjective(s), NEW t \in T, t \notin Range(s)
    PROVE  /\ Append(s, t) \in Seq(T) /\ Append(s, t) # <<>>
           /\ IsInjective(Append(s, t))
           /\ Range(Append(s, t)) = Range(s) \union {t}
<1> DEFINE r == Append(s, t)
<1>1. /\ r \in Seq(T) /\ Len(r) = Len(s) + 1 /\ r[Len(s) + 1] = t /\ r # <<>>
      /\ \A j \in 1 .. Len(s) : r[j] = s[j]
  OBVIOUS
<1>2. \A a, b \in 1 .. Len(s) : s[a] = s[b] => a = b
  BY InjectiveSeq
<1>3. \A a \in 1 .. Len(s) : s[a] # t
  BY RangeIn
<1> HIDE DEF r
<1>4. IsInjective(r)
  <2> SUFFICES ASSUME NEW i \in 1 .. Len(s) + 1, NEW j \in 1 .. Len(s) + 1,
                      r[i] = r[j]
               PROVE  i = j
    BY <1>1, InjectiveSeq
  <2> QED BY <1>1, <1>2, <1>3
<1>5. ASSUME NEW x \in Range(r) PROVE x \in Range(s) \union {t}
  <2>1. PICK i \in 1 .. Len(s) + 1 : r[i] = x
    BY <1>1, RangePick
  <2> QED BY <1>1, <2>1, RangeIn
<1>6. ASSUME NEW x \in Range(s) PROVE x \in Range(r)
  <2>1. PICK j \in 1 .. Len(s) : s[j] = x
    BY RangePick
  <2>2. j \in 1 .. Len(r) /\ r[j] = x
    BY <1>1, <2>1
  <2> QED BY <1>1, <2>2, RangeIn
<1>7. t \in Range(r)
  <2>1. Len(s) + 1 \in 1 .. Len(r)
    BY <1>1
  <2> QED BY <1>1, <2>1, RangeIn
<1>8. Range(r) = Range(s) \union {t}
  BY <1>5, <1>6, <1>7, Zenon
<1> QED BY <1>1, <1>4, <1>8 DEF r

\* rt_list_insert_after on a list head puts the node in front.
LEMMA ConsElements ==
    ASSUME NEW T, NEW s \in Seq(T), IsInjective(s), NEW t \in T, t \notin Range(s)
    PROVE  /\ <<t>> \o s \in Seq(T)
           /\ IsInjective(<<t>> \o s)
           /\ Range(<<t>> \o s) = Range(s) \union {t}
<1> DEFINE r == <<t>> \o s
<1>1. /\ r \in Seq(T) /\ Len(r) = Len(s) + 1 /\ r[1] = t
      /\ \A j \in 2 .. Len(s) + 1 : r[j] = s[j - 1]
  OBVIOUS
<1> HIDE DEF r
<1>2. \A a, b \in 1 .. Len(s) : s[a] = s[b] => a = b
  BY InjectiveSeq
<1>3. \A a \in 1 .. Len(s) : s[a] # t
  BY RangeIn
<1>4. IsInjective(r)
  <2> SUFFICES ASSUME NEW i \in 1 .. Len(s) + 1, NEW j \in 1 .. Len(s) + 1,
                      r[i] = r[j]
               PROVE  i = j
    BY <1>1, InjectiveSeq
  <2>1. \A l \in 2 .. Len(s) + 1 : l - 1 \in 1 .. Len(s) /\ r[l] = s[l - 1]
    BY <1>1
  <2> QED BY <1>1, <1>2, <1>3, <2>1
<1>5. ASSUME NEW x \in Range(r) PROVE x \in Range(s) \union {t}
  <2>1. PICK i \in 1 .. Len(s) + 1 : r[i] = x
    BY <1>1, RangePick
  <2>2. i = 1 \/ (i - 1 \in 1 .. Len(s) /\ s[i - 1] = x)
    BY <1>1, <2>1
  <2> QED BY <1>1, <2>1, <2>2, RangeIn
<1>6. ASSUME NEW x \in Range(s) PROVE x \in Range(r)
  <2>1. PICK j \in 1 .. Len(s) : s[j] = x
    BY RangePick
  <2>2. j + 1 \in 1 .. Len(r) /\ r[j + 1] = x
    BY <1>1, <2>1
  <2> QED BY <1>1, <2>2, RangeIn
<1>7. t \in Range(r)
  <2>1. 1 \in 1 .. Len(r)
    BY <1>1
  <2> QED BY <1>1, <2>1, RangeIn
<1>8. Range(r) = Range(s) \union {t}
  BY <1>5, <1>6, <1>7, Zenon
<1> QED BY <1>1, <1>4, <1>8 DEF r

\* Inserting in front of any position, or at the end, adds the node.
LEMMA InsertAtElements ==
    ASSUME NEW T, NEW s \in Seq(T), IsInjective(s), NEW t \in T, t \notin Range(s),
           NEW i \in 1 .. Len(s) + 1
    PROVE  /\ InsertAt(s, i, t) \in Seq(T)
           /\ IsInjective(InsertAt(s, i, t))
           /\ Range(InsertAt(s, i, t)) = Range(s) \union {t}
<1> DEFINE f == SubSeq(s, 1, i - 1)
           g == SubSeq(s, i, Len(s))
           h == f \o <<t>>
           r == h \o g
<1>1. f \in Seq(T) /\ Len(f) = i - 1 /\ \A j \in 1 .. i - 1 : f[j] = s[j]
  OBVIOUS
<1>2. /\ g \in Seq(T) /\ Len(g) = Len(s) - i + 1
      /\ \A j \in 1 .. Len(s) - i + 1 : g[j] = s[i + j - 1]
  OBVIOUS
<1> HIDE DEF f, g
<1>3. /\ r \in Seq(T) /\ Len(r) = Len(s) + 1
      /\ \A j \in 1 .. Len(s) + 1 :
            r[j] = IF j < i THEN s[j] ELSE IF j = i THEN t ELSE s[j - 1]
  <2>1. <<t>> \in Seq(T) /\ Len(<<t>>) = 1 /\ <<t>>[1] = t
    OBVIOUS
  <2>2. h \in Seq(T) /\ Len(h) = i /\ \A j \in 1 .. i : h[j] = IF j < i THEN s[j] ELSE t
    BY <1>1, <2>1
  <2> HIDE DEF h
  <2>3. r \in Seq(T) /\ Len(r) = Len(h) + Len(g)
        /\ \A j \in 1 .. Len(h) + Len(g) :
              r[j] = IF j <= Len(h) THEN h[j] ELSE g[j - Len(h)]
    BY <1>2, <2>2, ConcatSeq, ZenonT(30)
  <2>4. Len(r) = Len(s) + 1
    BY <1>2, <2>2, <2>3
  <2>5. ASSUME NEW j \in 1 .. Len(s) + 1
        PROVE  r[j] = IF j < i THEN s[j] ELSE IF j = i THEN t ELSE s[j - 1]
    <3>1. CASE j <= i
      BY <1>2, <2>2, <2>3, <2>4, <3>1
    <3>2. CASE j > i
      BY <1>2, <2>2, <2>3, <2>4, <3>2
    <3>3. j <= i \/ j > i
      OBVIOUS
    <3> QED BY <3>1, <3>2, <3>3, ZenonT(30)
  <2> QED BY <2>3, <2>4, <2>5
<1>4. InsertAt(s, i, t) = r
  BY DEF InsertAt, f, g
<1> HIDE DEF h, r
<1>5. \A a, b \in 1 .. Len(s) : s[a] = s[b] => a = b
  BY InjectiveSeq
<1>6. \A a \in 1 .. Len(s) : s[a] # t
  BY RangeIn
<1>7. IsInjective(r)
  <2> SUFFICES ASSUME NEW a \in 1 .. Len(s) + 1, NEW b \in 1 .. Len(s) + 1,
                      r[a] = r[b]
               PROVE  a = b
    BY <1>3, InjectiveSeq
  <2>1. \A l \in 1 .. Len(s) + 1 : \/ l < i /\ l \in 1 .. Len(s) /\ r[l] = s[l]
                                   \/ l = i /\ r[l] = t
                                   \/ l > i /\ l - 1 \in 1 .. Len(s) /\ r[l] = s[l - 1]
    BY <1>3
  <2> QED BY <1>5, <1>6, <2>1
<1>8. ASSUME NEW x \in Range(r) PROVE x \in Range(s) \union {t}
  <2>1. PICK l \in 1 .. Len(s) + 1 : r[l] = x
    BY <1>3, RangePick
  <2>2. \/ x = t
        \/ l \in 1 .. Len(s) /\ x = s[l]
        \/ l - 1 \in 1 .. Len(s) /\ x = s[l - 1]
    BY <1>3, <2>1
  <2> QED BY <2>2, RangeIn
<1>9. t \in Range(r)
  <2>1. i \in 1 .. Len(r) /\ r[i] = t
    BY <1>3
  <2> QED BY <1>3, <2>1, RangeIn
<1>10. ASSUME NEW x \in Range(s) PROVE x \in Range(r)
  <2>1. PICK j \in 1 .. Len(s) : s[j] = x
    BY RangePick
  <2>2. j < i => j \in 1 .. Len(r) /\ r[j] = x
    BY <1>3, <2>1
  <2>3. j >= i => j + 1 \in 1 .. Len(r) /\ r[j + 1] = x
    BY <1>3, <2>1
  <2>4. j < i \/ j >= i
    OBVIOUS
  <2> QED BY <1>3, <2>2, <2>3, <2>4, RangeIn, ZenonT(30)
<1>11. Range(r) = Range(s) \union {t}
  BY <1>8, <1>9, <1>10, Zenon
<1> QED BY <1>3, <1>4, <1>7, <1>11

\* The first element of a non-empty list is on it, and the rest of a list
\* without duplicates is the list without its first element.
LEMMA HeadTailElements ==
    ASSUME NEW T, NEW s \in Seq(T), s # <<>>
    PROVE  /\ Head(s) \in T /\ Head(s) \in Range(s)
           /\ Tail(s) \in Seq(T)
           /\ IsInjective(s) => /\ IsInjective(Tail(s))
                                /\ Range(Tail(s)) = Range(s) \ {Head(s)}
<1> DEFINE r == Tail(s)
<1>1. Len(s) \in Nat \ {0} /\ 1 \in 1 .. Len(s) /\ Head(s) = s[1] /\ s[1] \in T
  OBVIOUS
<1>2. r \in Seq(T) /\ Len(r) = Len(s) - 1 /\ \A i \in 1 .. Len(s) - 1 : r[i] = s[i + 1]
  OBVIOUS
<1>3. Head(s) \in Range(s)
  BY <1>1, RangeIn
<1> HIDE DEF r
<1>4. ASSUME IsInjective(s) PROVE IsInjective(r) /\ Range(r) = Range(s) \ {Head(s)}
  <2>1. \A a, b \in 1 .. Len(s) : s[a] = s[b] => a = b
    BY <1>4, InjectiveSeq
  <2>2. IsInjective(r)
    <3> SUFFICES ASSUME NEW a \in 1 .. Len(s) - 1, NEW b \in 1 .. Len(s) - 1,
                        r[a] = r[b]
                 PROVE  a = b
      BY <1>2, InjectiveSeq
    <3> QED BY <1>1, <1>2, <2>1
  <2>3. ASSUME NEW x \in Range(r) PROVE x \in Range(s) /\ x # Head(s)
    <3>1. PICK i \in 1 .. Len(s) - 1 : r[i] = x
      BY <1>1, <1>2, RangePick
    <3>2. i + 1 \in 1 .. Len(s) /\ s[i + 1] = x /\ i + 1 # 1
      BY <1>1, <1>2, <3>1
    <3> QED BY <1>1, <2>1, <3>2, RangeIn
  <2>4. ASSUME NEW x \in Range(s), x # Head(s) PROVE x \in Range(r)
    <3>1. PICK i \in 1 .. Len(s) : s[i] = x
      BY RangePick
    <3>2. i - 1 \in 1 .. Len(r) /\ r[i - 1] = x
      BY <1>1, <1>2, <2>4, <3>1
    <3> QED BY <1>2, <3>2, RangeIn
  <2>5. Range(r) = Range(s) \ {Head(s)}
    BY <2>3, <2>4, Zenon
  <2> QED BY <2>2, <2>5
<1> QED BY <1>1, <1>2, <1>3, <1>4 DEF r
=============================================================================
