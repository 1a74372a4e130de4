-------------------------------- MODULE Heap --------------------------------
(***************************************************************************)
(* The heap of src/src/mem.c: blocks behind each other, each with a header *)
(* that links it to its neighbours.  rt_malloc (rt_calloc), rt_free,       *)
(* rt_realloc, plug_holes, rt_system_heap_init.  Addresses and sizes are   *)
(* in words of RT_ALIGN_SIZE bytes, offsets from heap_ptr.                 *)
(*                                                                         *)
(* Every function holds heap_sem around its work, so that each such        *)
(* section is one step; rt_realloc gives it back between its sections.     *)
(*                                                                         *)
(* h is the heap: h.mem the headers of its blocks, without the one of      *)
(* heap_end whose prev nobody reads, h.lfree, and h.used_mem.  The magic   *)
(* number, the hooks and max_mem are left out.                             *)
(***************************************************************************)
EXTENDS Integers, FiniteSets, FiniteSetsExt

CONSTANTS
    MemSize,     \* mem_size_aligned
    Sizes,       \* the sizes that are asked for, 0 included
    MaxCalls     \* bound: calls of rt_realloc that move a block at a time

SIZEOF_STRUCT_MEM == 3
MIN_SIZE == 3

\* The most words below the width of rt_size_t. RT_ALIGN of more (mem.c:263)
\* would come to 0, and so may the product of rt_calloc (mem.c:488), which is
\* a size like any other here.
SizeMax == 1073741823

HeapAssumption ==
    /\ MemSize \in Nat /\ MemSize >= MIN_SIZE
    /\ Sizes \subseteq 0 .. SizeMax /\ MaxCalls \in Nat

VARIABLES
    h,           \* the heap
    owned,       \* the blocks the application has, and the size it asked for
    calls        \* the calls of rt_realloc that move a block

vars == <<h, owned, calls>>

heap_end == MemSize + SIZEOF_STRUCT_MEM

\* Addresses at which a block can lie.
Address == 0 .. MemSize

Header == [used : BOOLEAN, next : 1 .. heap_end, prev : Address]

\* A call moves the block from to a block of n words; to is heap_end before
\* it has one.
Call == [from : Address, n : Sizes, to : Address \union {heap_end}]

TypeOK ==
    /\ DOMAIN h.mem \subseteq Address
    /\ \A p \in DOMAIN h.mem : h.mem[p] \in Header
    /\ h.lfree \in Address \union {heap_end}
    /\ h.used_mem \in 0 .. heap_end
    /\ DOMAIN owned \subseteq Address
    /\ \A p \in DOMAIN owned : owned[p] \in Sizes
    /\ calls \subseteq Call

rt_system_heap_init ==
    [mem      |-> [p \in {0} |-> [used |-> FALSE, next |-> heap_end, prev |-> 0]],
     lfree    |-> 0,
     used_mem |-> 0]

Init ==
    /\ h = rt_system_heap_init
    /\ owned = [p \in {} |-> 0]
    /\ calls = {}

-----------------------------------------------------------------------------

\* The words of user data of block p, and all of its words.
Data(m, p)  == m[p].next - (p + SIZEOF_STRUCT_MEM)
Words(m, p) == m[p].next - p

\* The block at q, if q is not heap_end, has p in front of it.
Behind(m, p, q) == IF q = heap_end THEN m ELSE [m EXCEPT ![q].prev = p]

Dropped(m, q) == [p \in DOMAIN m \ {q} |-> m[p]]

\* Block q is combined with p, the one in front of it.
Combined(g, p, q) ==
    [g EXCEPT !.lfree = IF @ = q THEN p ELSE @,
              !.mem = Behind(Dropped([@ EXCEPT ![p].next = g.mem[q].next], q),
                             p, g.mem[q].next)]

\* Mutant: only the block behind is looked at.
PlugsForward(g, p) ==
    LET n == g.mem[p].next
    IN  IF n # heap_end /\ ~g.mem[n].used THEN Combined(g, p, n) ELSE g

\* The free block p is combined with free neighbours.
plug_holes(g, p) ==
    LET n == g.mem[p].next
        f == IF n # heap_end /\ ~g.mem[n].used THEN Combined(g, p, n) ELSE g
        e == f.mem[p].prev
    IN  IF e # p /\ ~f.mem[e].used THEN Combined(f, e, p) ELSE f

\* Block p keeps n words; what is behind them becomes a free block.
Split(m, p, n) ==
    LET q == p + SIZEOF_STRUCT_MEM + n
    IN  Behind([r \in DOMAIN m \union {q} |->
                  IF r = q THEN [used |-> FALSE, next |-> m[p].next, prev |-> p]
                  ELSE IF r = p THEN [m[p] EXCEPT !.next = q]
                  ELSE m[r]],
               q, m[p].next)

-----------------------------------------------------------------------------

Rounded(n) == Max({n, MIN_SIZE})

\* The blocks in which the loop of rt_malloc finds room for n words.
Found(n) ==
    {p \in DOMAIN h.mem : /\ h.lfree <= p /\ p < MemSize - n
                          /\ ~h.mem[p].used /\ Data(h.mem, p) >= n}

\* Block p is taken for n words, and split if a block of its own fits behind.
Taken(p, n) ==
    LET m == [h.mem EXCEPT ![p].used = TRUE]
    IN  IF Data(m, p) >= n + SIZEOF_STRUCT_MEM + MIN_SIZE THEN Split(m, p, n) ELSE m

\* The next free block, from p on.
FreeFrom(m, p) ==
    LET F == {q \in DOMAIN m : p <= q /\ ~m[q].used}
    IN  IF F = {} THEN heap_end ELSE Min(F)

\* Mutant: the words of a block that is not split are counted as asked for.
MallocCountsData(p, n) ==
    LET m == Taken(p, n)
    IN  [mem |-> m, lfree |-> IF p = h.lfree THEN FreeFrom(m, p) ELSE h.lfree,
         used_mem |-> h.used_mem + n + SIZEOF_STRUCT_MEM]

\* The heap with block p taken. The statistics count a block that is split by
\* what is asked for, another one by its links, which is the same.
Malloc(p, n) ==
    LET m == Taken(p, n)
    IN  [mem |-> m, lfree |-> IF p = h.lfree THEN FreeFrom(m, p) ELSE h.lfree,
         used_mem |-> h.used_mem + Words(m, p)]

\* rt_malloc(n) where it finds a block; otherwise nothing changes.
rt_malloc ==
    \E n \in Sizes \ {0} :
        /\ n <= MemSize /\ Found(Rounded(n)) # {}
        /\ LET p == Min(Found(Rounded(n)))
           IN  /\ h' = Malloc(p, Rounded(n))
               /\ owned' = [q \in DOMAIN owned \union {p} |->
                              IF q = p THEN n ELSE owned[q]]
        /\ UNCHANGED calls

FreeBlock(p) ==
    plug_holes([mem      |-> [h.mem EXCEPT ![p].used = FALSE],
                lfree    |-> Min({p, h.lfree}),
                used_mem |-> h.used_mem - Words(h.mem, p)], p)

\* The blocks that no call of rt_realloc works on.
Unmoved == DOMAIN owned \ ({c.from : c \in calls} \union {c.to : c \in calls})

rt_free ==
    \E p \in Unmoved :
        /\ h' = FreeBlock(p)
        /\ owned' = [q \in DOMAIN owned \ {p} |-> owned[q]]
        /\ UNCHANGED calls

-----------------------------------------------------------------------------

\* Block p gives back what is behind n words.
Shrunk(p, n) ==
    plug_holes([h EXCEPT !.mem = Split(@, p, n),
                         !.used_mem = @ - (Data(h.mem, p) - n)],
               p + SIZEOF_STRUCT_MEM + n)

\* rt_realloc(p, n) in its first section: the size is the same, or the block
\* is split, or a block is going to be allocated. With no block it is
\* rt_malloc(n).
rt_realloc ==
    \E p \in Unmoved, n \in {i \in Sizes : i <= MemSize} :
        \/ /\ Data(h.mem, p) = n
           /\ owned' = [owned EXCEPT ![p] = n]
           /\ UNCHANGED <<h, calls>>
        \/ /\ n + SIZEOF_STRUCT_MEM + MIN_SIZE < Data(h.mem, p)
           /\ h' = Shrunk(p, n)
           /\ owned' = [owned EXCEPT ![p] = n]
           /\ UNCHANGED calls
        \/ /\ Data(h.mem, p) # n /\ Data(h.mem, p) <= n + SIZEOF_STRUCT_MEM + MIN_SIZE
           /\ Cardinality(calls) < MaxCalls
           /\ calls' = calls \union {[from |-> p, n |-> n, to |-> heap_end]}
           /\ UNCHANGED <<h, owned>>

\* rt_malloc inside it, and the copy; a size of 0 finds nothing.
ReallocMoves ==
    \E c \in calls :
        /\ c.to = heap_end
        /\ IF c.n = 0 \/ Found(Rounded(c.n)) = {}
           THEN calls' = calls \ {c} /\ UNCHANGED <<h, owned>>
           ELSE LET p == Min(Found(Rounded(c.n)))
                IN  /\ h' = Malloc(p, Rounded(c.n))
                    /\ owned' = [q \in DOMAIN owned \union {p} |->
                                   IF q = p THEN c.n ELSE owned[q]]
                    /\ calls' = (calls \ {c}) \union {[c EXCEPT !.to = p]}

ReallocFrees ==
    \E c \in calls :
        /\ c.to # heap_end
        /\ h' = FreeBlock(c.from)
        /\ owned' = [q \in DOMAIN owned \ {c.from} |-> owned[q]]
        /\ calls' = calls \ {c}

Next == rt_malloc \/ rt_free \/ rt_realloc \/ ReallocMoves \/ ReallocFrees

Spec == Init /\ [][Next]_vars

-----------------------------------------------------------------------------
(* Properties.                                                             *)

\* The blocks lie behind each other from the start to heap_end, linked both
\* ways, and no two free ones are neighbours: rt_malloc relies on that where
\* it does not split ("plug_holes should have take care of this", mem.c:328).
\* lfree, from where rt_malloc starts, is a free one of them or heap_end, as
\* the assertion there says (mem.c:350).
Tiled ==
    /\ 0 \in DOMAIN h.mem
    /\ h.lfree = heap_end \/ (h.lfree \in DOMAIN h.mem /\ ~h.mem[h.lfree].used)
    /\ \A p \in DOMAIN h.mem :
          LET n == h.mem[p].next
          IN  /\ n >= p + SIZEOF_STRUCT_MEM
              /\ DOMAIN h.mem \intersect (p + 1 .. n - 1) = {}
              /\ n # heap_end => /\ n \in DOMAIN h.mem /\ h.mem[n].prev = p
                                 /\ h.mem[p].used \/ h.mem[n].used

\* What the application has is what is in use: every block it was given and
\* has not freed is marked used and has the words asked for, no matter what
\* was split, combined and moved since; every used block is one of those.
OwnsUsed ==
    /\ DOMAIN owned = {p \in DOMAIN h.mem : h.mem[p].used}
    /\ \A p \in DOMAIN owned : owned[p] <= Data(h.mem, p)

\* Besides, used_mem counts the words of those blocks.
OwnedFits ==
    /\ OwnsUsed
    /\ h.used_mem = MapThenSumSet(LAMBDA p : Words(h.mem, p), DOMAIN owned)
=============================================================================
