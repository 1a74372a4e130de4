------------------------------ MODULE MemPool ------------------------------
(***************************************************************************)
(* The memory pool of src/src/mempool.c: blocks of one size, and threads   *)
(* that wait for a block.  rt_mp_alloc, rt_mp_free (both also from an      *)
(* interrupt), rt_mp_detach, rt_mp_delete, rt_mp_init and rt_mp_create.    *)
(***************************************************************************)
EXTENDS Ipc

CONSTANTS
    Total,       \* mp->block_total_count
    CountMod,    \* width of block_free_count, 2^32 in the code
    MaxPended    \* bound: suspend_thread_count

MemPoolAssumption ==
    /\ {"mp"} \subseteq SuspendList
    /\ Total \in Nat \ {0}
    /\ CountMod \in Nat /\ CountMod > Total
    /\ MaxPended \in Nat

VARIABLES
    list,        \* mp->block_list, the blocks linked from it in order
    free,        \* mp->block_free_count
    count,       \* mp->suspend_thread_count
    used,        \* the blocks the application has
    live         \* the application uses the pool

pool == <<list, free, count>>
vars == <<k, pc, pool, used, live>>

Blocks == 1 .. Total

Inside(t) == pc[t] \in {"wait", "woken"}

\* The threads inside rt_mp_alloc that rt_mp_free has woken.
Woken == Granted({t \in Thread : Inside(t)}, "mp")

\* The threads that have taken the null pointer of an empty list for a block.
\* They read the next block from address 0 and write there: from then on the
\* list is undefined, and the model does not go on with the pool.
Robbed == {t \in Thread : pc[t] = "null"}

Usable == live /\ Robbed = {}

TypeOK ==
    /\ k \in KernelState
    /\ pc \in [Thread -> IpcLabel \union {"null"}]
    /\ list \in Seq(Blocks)
    /\ free \in 0 .. CountMod - 1
    /\ count \in 0 .. MaxPended
    /\ used \subseteq Blocks
    /\ live \in BOOLEAN

\* rt_mp_init: each block is linked to the one behind it in memory.
AllLinked == [i \in Blocks |-> i]

Init ==
    /\ IpcInit
    /\ list = AllLinked /\ free = Total /\ count = 0
    /\ used = {}
    /\ live = TRUE

-----------------------------------------------------------------------------

\* Mutant: the block stays in the list.
TakesCopy ==
    /\ free' = (free - 1) % CountMod
    /\ used' = used \union IF list = <<>> THEN {} ELSE {Head(list)}
    /\ UNCHANGED list

\* The count goes down and the first block of the list, if it has one, to the
\* caller. The code tests neither here.
Takes ==
    /\ free' = (free - 1) % CountMod
    /\ \/ list = <<>> /\ UNCHANGED <<list, used>>
       \/ list # <<>> /\ list' = Tail(list) /\ used' = used \union {Head(list)}

\* rt_mp_alloc. A time of 0 returns RT_NULL when no block is free; otherwise
\* the thread goes to the head of the list of waiting threads.
rt_mp_alloc(t) ==
    /\ CallsFrom(t, "alloc") /\ Usable
    /\ \/ free > 0 /\ Takes /\ UNCHANGED <<k, pc, count>>
       \/ /\ free = 0 /\ count < MaxPended
          /\ \E n \in Times \ {0} :
                LET j == rt_list_insert_after(
                             rt_thread_suspend([k EXCEPT !.err[t] = "EOK"], t), "mp", t)
                IN  k' = IF n > 0 THEN rt_timer_start(j, t, n) ELSE j
          /\ count' = count + 1
          /\ Goto(t, "wait")
          /\ UNCHANGED <<list, free, used>>
    /\ UNCHANGED live

\* Behind rt_schedule the block is taken without another test. Another caller
\* may have taken the one the thread was woken for.
AllocReturns(t) ==
    /\ At(t, "woken") /\ Robbed = {}
    /\ \/ k.err[t] # "EOK" /\ Goto(t, "run") /\ UNCHANGED <<pool, used>>
       \/ /\ k.err[t] = "EOK" /\ Takes
          /\ Goto(t, IF list = <<>> THEN "null" ELSE "run")
          /\ UNCHANGED count
    /\ UNCHANGED <<k, live>>

IsrAlloc ==
    /\ IsrCalls("isr_alloc") /\ Usable
    /\ free > 0 /\ Takes
    /\ UNCHANGED <<k, pc, count, live>>

\* Mutant: the count is not looked at.
WakesNone == k

\* The section of rt_mp_free for block b. Whether a thread waits is read from
\* the count, the thread from the list; a list that is empty while the count
\* is not makes the code take the list head for a thread, and the model does
\* not go on.
FreeBlock(b) ==
    /\ Robbed = {}
    /\ count > 0 => k.susp["mp"] # <<>>
    /\ free' = free + 1
    /\ list' = <<b>> \o list
    /\ used' = used \ {b}
    /\ count' = IF count > 0 THEN count - 1 ELSE count

WakesFirst ==
    LET t == Head(k.susp["mp"])
    IN  rt_thread_resume([k EXCEPT !.err[t] = "EOK"], t)

rt_mp_free(t) ==
    /\ CallsFrom(t, "free") /\ live
    /\ \E b \in used : FreeBlock(b)
    /\ \/ count = 0 /\ UNCHANGED <<k, pc>>
       \/ count > 0 /\ k' = WakesFirst /\ Goto(t, "sched")
    /\ UNCHANGED live

IsrFree ==
    /\ IsrCalls("isr_free") /\ live
    /\ \E b \in used : FreeBlock(b)
    /\ k' = IF count = 0 THEN k ELSE rt_schedule(WakesFirst)
    /\ UNCHANGED <<pc, live>>

\* rt_mp_detach and rt_mp_delete.
rt_mp_detach(t) ==
    /\ CallsFrom(t, "detach") /\ Usable
    /\ live' = FALSE
    /\ Goto(t, "detach")
    /\ UNCHANGED <<k, pool, used>>

DetachStep(t) ==
    /\ \/ /\ WakesNext(t, "mp")
          /\ count' = IF pc[t] = "resume" THEN count - 1 ELSE count
       \/ /\ At(t, "detach") /\ k.susp["mp"] = <<>>
          /\ Goto(t, "run")
          /\ UNCHANGED <<k, count>>
    /\ UNCHANGED <<list, free, used, live>>

\* rt_mp_init or rt_mp_create, once the calls on the old pool are over.
rt_mp_init(t) ==
    /\ CallsFrom(t, "init") /\ ~live /\ Robbed = {}
    /\ \A u \in Thread : ~Detaching(u) /\ ~Inside(u)
    /\ list' = AllLinked /\ free' = Total /\ count' = 0
    /\ used' = {}
    /\ live' = TRUE
    /\ UNCHANGED <<k, pc>>

Step(t) ==
    \/ rt_mp_alloc(t) \/ AllocReturns(t) \/ rt_mp_free(t)
    \/ rt_mp_detach(t) \/ DetachStep(t) \/ rt_mp_init(t)

Next ==
    \/ \E t \in Thread : Step(t)
    \/ IsrAlloc \/ IsrFree
    \/ Background /\ UNCHANGED <<pool, used, live>>

Spec == Init /\ [][Next]_vars

-----------------------------------------------------------------------------
(* Properties. They are about the behaviours up to the first step behind a *)
(* null block, and up to the first access through the list head.           *)

\* Every block is either linked once in the free list or with the application,
\* whichever of the two places of rt_mp_alloc took it and whoever was faster.
\* block_free_count is the length of the list, and one less (wrapped) for a
\* thread that counted down for a block that was gone (mempool.c:388).
BlocksConserved ==
    /\ IsInjective(list)
    /\ Range(list) = Blocks \ used
    /\ free = (Len(list) - Cardinality(Robbed)) % CountMod

\* What rtdef.h:707 says of block_free_count: it is the number of free blocks.
FreeCounted == free = Len(list)

\* No block stays free while threads wait, but for the blocks that threads
\* woken for them are about to take.
NoBlockLeft == live /\ k.susp["mp"] # <<>> => Len(list) <= Cardinality(Woken)

\* What rtdef.h:710 says of suspend_thread_count: it is the number of threads
\* pended on the pool.
PendedCounted == count = Len(k.susp["mp"])
=============================================================================
