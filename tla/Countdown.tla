----------------------------- MODULE Countdown -----------------------------
(***************************************************************************)
(* What the timer list promises its users.  Every timer that is set counts *)
(* down to its end, whatever the width of the tick counter.  When a tick   *)
(* is served, the timers whose time is over expire, the earliest first and *)
(* those of the same time in the order in which they were set; none that   *)
(* is due is left when the service ends, and none expires early.           *)
(***************************************************************************)
EXTENDS Lists

CONSTANTS Timer, Ticks   \* the timers, and the times a timer may be set to

VARIABLES
    queue,       \* the timers that are set
    left,        \* the ticks each of them has left
    busy         \* a tick is being served

\* Timer x with n ticks to go behind all that end earlier or with it.
Placed(q, x, n) == InsertBefore(q, LAMBDA y : left[y] > n, x)

Set(x) ==
    /\ x \notin Range(queue)
    /\ \E n \in Ticks : queue' = Placed(queue, x, n) /\ left' = [left EXCEPT ![x] = n]
    /\ UNCHANGED busy

Clear(x) ==
    /\ queue' = Without(queue, x)
    /\ left' = [left EXCEPT ![x] = 0]
    /\ UNCHANGED busy

Elapse ==
    /\ ~busy /\ busy' = TRUE
    /\ left' = [x \in Timer |-> IF x \in Range(queue) THEN left[x] - 1 ELSE left[x]]
    /\ UNCHANGED queue

\* The first timer expires, and may be set again at once.
Expire ==
    /\ busy /\ queue # <<>> /\ left[Head(queue)] <= 0
    /\ LET x == Head(queue)
       IN  \/ queue' = Tail(queue) /\ left' = [left EXCEPT ![x] = 0]
           \/ \E n \in Ticks : /\ queue' = Placed(Tail(queue), x, n)
                               /\ left' = [left EXCEPT ![x] = n]
    /\ UNCHANGED busy

Served ==
    /\ busy /\ busy' = FALSE
    /\ \A x \in Range(queue) : left[x] > 0
    /\ UNCHANGED <<queue, left>>

Init == queue = <<>> /\ left = [x \in Timer |-> 0] /\ busy = FALSE

Next == (\E x \in Timer : Set(x) \/ Clear(x)) \/ Elapse \/ Expire \/ Served

Spec == Init /\ [][Next]_<<queue, left, busy>>
=============================================================================
