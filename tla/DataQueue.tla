----------------------------- MODULE DataQueue -----------------------------
(***************************************************************************)
(* The data queue of src/components/drivers/src/dataqueue.c: a ring of     *)
(* items with two indices that only grow, in 16 bits, pushers that wait on *)
(* one list until the queue has drained to its low water mark, and poppers *)
(* that wait for an item on another.  rt_data_queue_push and               *)
(* rt_data_queue_pop (also from an interrupt), rt_data_queue_reset,        *)
(* rt_data_queue_init; rt_data_queue_peak changes nothing.                 *)
(***************************************************************************)
EXTENDS Ipc

CONSTANTS
    Item,        \* the data_ptr and data_size of an item
    Size,        \* queue->size
    Lwm,         \* queue->lwm
    IndexMod,    \* 2^16 in the code
    MaxPut       \* bound: items that are pushed between two calls of init

\* The mask of the indices is size - 1; Size is a power of 2.
DataQueueAssumption ==
    /\ {"pop", "push"} \subseteq SuspendList
    /\ \E n \in 0 .. 15 : Size = 2 ^ n
    /\ Lwm \in 0 .. Size - 1
    /\ MaxPut \in Nat /\ IndexMod \in Nat \ {0}

VARIABLES
    ring,        \* queue->queue
    put, get,    \* queue->put_index, queue->get_index
    lwm,         \* queue->waiting_lwm
    call,        \* the call t is in: its list, its item and its timeout
    masked       \* a call has returned with interrupts disabled

queue == <<ring, put, get, lwm, masked>>
vars  == <<k, pc, queue, call>>

NoCall == [q |-> "pop", item |-> CHOOSE v \in Item : TRUE, time |-> 0]

\* Thread t is inside a call that has suspended it.
Inside(t) == pc[t] \in {"wait", "woken"}

\* The threads inside a call that the queue has woken.
Woken(q) == Granted({t \in Thread : Inside(t) /\ call[t].q = q}, q)

TypeOK ==
    /\ k \in KernelState
    /\ pc \in [Thread -> IpcLabel]
    /\ ring \in [0 .. Size - 1 -> Item]
    /\ put \in 0 .. IndexMod - 1 /\ get \in 0 .. IndexMod - 1
    /\ lwm \in BOOLEAN /\ masked \in BOOLEAN
    /\ call \in [Thread -> [q : {"pop", "push"}, item : Item, time : Times]]

Fresh == put = 0 /\ get = 0 /\ lwm = FALSE

Init ==
    /\ IpcInit /\ Fresh
    /\ ring \in {[i \in 0 .. Size - 1 |-> v] : v \in Item}
    /\ call = [t \in Thread |-> NoCall]
    /\ masked = FALSE

-----------------------------------------------------------------------------

\* The difference is computed in int, where it may be negative.
Full  == put - get = Size
Empty == get = put

\* Mutant: the place is the one of the oldest item.
StoresInFront(v) ==
    /\ ring' = [ring EXCEPT ![get % Size] = v]
    /\ put' = (put + 1) % IndexMod
    /\ UNCHANGED <<get, lwm, masked>>

Stores(v) ==
    /\ ring' = [ring EXCEPT ![put % Size] = v]
    /\ put' = (put + 1) % IndexMod
    /\ UNCHANGED <<get, lwm, masked>>

\* Mutant: a popper is only woken for the first item.
ResumedWhenEmpty(j, q) ==
    IF j.susp[q] = <<>> \/ ~Empty THEN j ELSE rt_ipc_list_resume(j, q)

\* The first thread of list q, if there is one, is resumed.
Resumed(j, q) == IF j.susp[q] = <<>> THEN j ELSE rt_ipc_list_resume(j, q)

\* A pusher is waiting for the low water mark, and this pop reaches it.
Drains == lwm /\ put - ((get + 1) % IndexMod) <= Lwm

\* The item leaves. Where the mark is reached and no pusher waits any more
\* the function returns without enabling interrupts.
Fetches ==
    /\ get' = (get + 1) % IndexMod
    /\ lwm' = (lwm /\ ~Drains)
    /\ masked' = (Drains /\ k.susp["push"] = <<>>)
    /\ UNCHANGED <<ring, put>>

\* The list that a successful call looks at, and whether it finds a thread.
Tells(q) == IF q = "push" THEN "pop" ELSE "push"
Wakes(q) == (q = "push" \/ Drains) /\ k.susp[Tells(q)] # <<>>

\* The thread waits at the end of its list; each wait has the whole timeout.
Waits(t, c) ==
    /\ k' = Block(k, c.q, t, "FIFO", c.time)
    /\ Goto(t, "wait")
    /\ call' = [call EXCEPT ![t] = c]

Leaves(t, l) == Goto(t, l) /\ call' = [call EXCEPT ![t] = NoCall]

\* The body of rt_data_queue_push and rt_data_queue_pop for the call c.
Try(t, c) ==
    LET blocked == IF c.q = "push" THEN Full ELSE Empty
    IN  \/ /\ ~blocked
           /\ IF c.q = "push" THEN Stores(c.item) ELSE Fetches
           /\ k' = IF Wakes(c.q) THEN Resumed(k, Tells(c.q)) ELSE k
           /\ Leaves(t, IF Wakes(c.q) THEN "sched" ELSE "run")
        \/ /\ blocked
           /\ lwm' = (lwm \/ c.q = "push")
           /\ \/ c.time = 0 /\ Leaves(t, "run") /\ UNCHANGED k
              \/ c.time # 0 /\ Waits(t, c)
           /\ UNCHANGED <<ring, put, get, masked>>

\* Another item may be pushed before the indices are set to 0 again.
MayPush ==
    put + Cardinality({t \in Thread : Inside(t) /\ call[t].q = "push"}) < MaxPut

rt_data_queue_call(t) ==
    \E q \in {"pop", "push"}, v \in Item, n \in Times :
        /\ CallsFrom(t, q) /\ (q = "push" => MayPush)
        /\ Try(t, [q |-> q, item |-> IF q = "push" THEN v ELSE NoCall.item,
                   time |-> n])

\* Behind rt_schedule: an error ends the call, otherwise the test of the loop
\* is made again.
CallGoesOn(t) ==
    /\ At(t, "woken")
    /\ \/ k.err[t] # "EOK" /\ Leaves(t, "run") /\ UNCHANGED <<k, queue>>
       \/ k.err[t] = "EOK" /\ Try(t, call[t])

\* Both functions with the timeout 0 in an interrupt handler.
IsrCall ==
    /\ \/ /\ IsrCalls("isr_push") /\ MayPush
          /\ \/ /\ ~Full /\ \E v \in Item : Stores(v)
                /\ k' = IF Wakes("push") THEN rt_schedule(Resumed(k, "pop")) ELSE k
             \/ Full /\ lwm' = TRUE /\ UNCHANGED <<k, ring, put, get, masked>>
       \/ /\ IsrCalls("isr_pop") /\ ~Empty /\ Fetches
          /\ k' = IF Wakes("pop") THEN rt_schedule(Resumed(k, "push")) ELSE k
    /\ UNCHANGED <<pc, call>>

\* rt_data_queue_reset, under the lock of the scheduler: the poppers, then
\* the pushers, each woken in a section of its own. The items stay.
rt_data_queue_reset(t) ==
    /\ CallsFrom(t, "reset")
    /\ k' = [k EXCEPT !.nest = @ + 1]
    /\ Goto(t, "detach")
    /\ UNCHANGED <<queue, call>>

ResetStep(t) ==
    /\ \/ WakesNext(t, call[t].q) /\ UNCHANGED call
       \/ /\ At(t, "detach") /\ k.susp[call[t].q] = <<>>
          /\ IF call[t].q = "pop"
             THEN call' = [call EXCEPT ![t].q = "push"] /\ UNCHANGED <<k, pc>>
             ELSE /\ call' = [call EXCEPT ![t] = NoCall]
                  /\ k' = [k EXCEPT !.nest = @ - 1]
                  /\ Goto(t, "sched")
    /\ UNCHANGED queue

\* rt_data_queue_init, while no call is under way.
rt_data_queue_init(t) ==
    /\ CallsFrom(t, "init")
    /\ \A u \in Thread : ~Detaching(u) /\ ~Inside(u)
    /\ put' = 0 /\ get' = 0 /\ lwm' = FALSE
    /\ UNCHANGED <<k, pc, ring, call, masked>>

Step(t) ==
    \/ rt_data_queue_call(t) \/ CallGoesOn(t)
    \/ rt_data_queue_reset(t) \/ ResetStep(t) \/ rt_data_queue_init(t)

\* With interrupts disabled for good no other thread and no tick comes; what
\* the thread still does is not modelled.
Next ==
    \/ ~masked /\ \E t \in Thread : Step(t)
    \/ ~masked /\ IsrCall
    \/ ~masked /\ Background /\ UNCHANGED <<queue, call>>
    \/ masked /\ UNCHANGED vars

Spec == Init /\ [][Next]_vars

-----------------------------------------------------------------------------
(* Properties.                                                             *)

\* The items in the queue.
Stored == (put - get) % IndexMod

\* No item lies in the queue while threads wait for one, but for the items
\* that threads woken for them are about to pop: rt_data_queue_push wakes one
\* popper for each item, and one that finds its item gone waits again.
NoItemLeft == k.susp["pop"] # <<>> => Stored <= Cardinality(Woken("pop"))

\* What the comment in rt_data_queue_pop says (dataqueue.c:230): when the low
\* water mark is waited for and reached, "there is at least one thread in
\* suspended list". It is in that branch that interrupts are enabled.
PusherWaits == ~masked

\* The ring is a queue of Size items: an item is popped once, in the order in
\* which it was pushed, whoever pushes and pops in between.
Queue == INSTANCE FifoQueue WITH
    Capacity <- Size, Urgent <- FALSE, Lossy <- FALSE, Chunk <- 1,
    queue <- [i \in 1 .. Stored |-> ring[(get + i - 1) % Size]]

IsQueue == Queue!Spec
=============================================================================
