------------------------------- MODULE Mutex -------------------------------
(***************************************************************************)
(* The mutex of src/src/ipc.c, recursive and with priority inheritance:    *)
(* rt_mutex_take, rt_mutex_release, rt_mutex_detach, rt_mutex_delete,      *)
(* rt_mutex_init and rt_mutex_create, for a set of mutexes.                *)
(***************************************************************************)
EXTENDS Ipc

CONSTANTS
    Mtx,         \* the mutexes
    Flag,        \* RT_IPC_FLAG_FIFO or RT_IPC_FLAG_PRIO
    NoThread,    \* RT_NULL as an owner
    MaxHold      \* bound: how often a thread takes a mutex it holds

NoPriority == 255    \* 0xFF

MutexAssumption ==
    /\ Mtx \subseteq SuspendList
    /\ Flag \in {"FIFO", "PRIO"}
    /\ NoThread \notin Thread
    /\ MaxHold \in 1 .. 255
    /\ RT_THREAD_PRIORITY_MAX <= NoPriority

VARIABLES
    value,       \* mutex->value
    owner,       \* mutex->owner
    orig,        \* mutex->original_priority
    hold,        \* mutex->hold
    live,        \* the mutexes the application uses
    want,        \* the mutex of the call thread t is in
    depth        \* history: takes of m that returned RT_EOK to t, less the
                 \* releases of m by t

mutex == <<value, owner, orig, hold, live>>
vars  == <<k, pc, mutex, want, depth>>

\* The new owners of m that have not returned from rt_mutex_take yet.
Woken(m) ==
    Granted({t \in Thread : pc[t] \in {"wait", "woken"} /\ want[t] = m}, m)

TypeOK ==
    /\ k \in KernelState
    /\ pc \in [Thread -> IpcLabel]
    /\ value \in [Mtx -> 0 .. 1]
    /\ owner \in [Mtx -> Thread \union {NoThread}]
    /\ orig \in [Mtx -> Priority \union {NoPriority}]
    /\ hold \in [Mtx -> 0 .. MaxHold]
    /\ live \subseteq Mtx
    /\ want \in [Thread -> Mtx]
    /\ depth \in [Mtx -> [Thread -> 0 .. MaxHold]]

Init ==
    /\ IpcInit
    /\ value = [m \in Mtx |-> 1]
    /\ owner = [m \in Mtx |-> NoThread]
    /\ orig = [m \in Mtx |-> NoPriority]
    /\ hold = [m \in Mtx |-> 0]
    /\ live = Mtx
    /\ want \in {[t \in Thread |-> m] : m \in Mtx}
    /\ depth = [m \in Mtx |-> [t \in Thread |-> 0]]

-----------------------------------------------------------------------------

\* A take of m by t is going to return RT_EOK.
Count(t, m) == depth' = [depth EXCEPT ![m][t] = @ + 1]

\* Mutant: the hold count of an owner that comes back is not increased.
TakeAgainUncounted(t, m) ==
    /\ owner[m] = t /\ hold[m] < MaxHold
    /\ k' = [k EXCEPT !.err[t] = "EOK"]
    /\ Count(t, m)
    /\ UNCHANGED <<pc, mutex, want>>

TakeAgain(t, m) ==
    /\ owner[m] = t /\ hold[m] < MaxHold
    /\ hold' = [hold EXCEPT ![m] = @ + 1]
    /\ k' = [k EXCEPT !.err[t] = "EOK"]
    /\ Count(t, m)
    /\ UNCHANGED <<pc, value, owner, orig, live, want>>

TakeFree(t, m) ==
    /\ owner[m] # t /\ value[m] > 0
    /\ value' = [value EXCEPT ![m] = @ - 1]
    /\ owner' = [owner EXCEPT ![m] = t]
    /\ orig' = [orig EXCEPT ![m] = k.prio[t]]
    /\ hold' = [hold EXCEPT ![m] = @ + 1]
    /\ k' = [k EXCEPT !.err[t] = "EOK"]
    /\ Count(t, m)
    /\ UNCHANGED <<pc, live, want>>

TakeFails(t, m) ==
    /\ owner[m] # t /\ value[m] = 0 /\ 0 \in Times
    /\ k' = [k EXCEPT !.err[t] = "ETIMEOUT"]
    /\ UNCHANGED <<pc, mutex, want, depth>>

\* Mutant: the owner keeps its priority.
BoostNothing(j, t, m) == j

\* The owner inherits the priority of a thread of higher priority that is
\* about to wait.
Boost(j, t, m) ==
    IF j.prio[t] < j.prio[owner[m]]
    THEN rt_thread_control(j, owner[m], j.prio[t])
    ELSE j

TakeWaits(t, m) ==
    /\ owner[m] # t /\ value[m] = 0
    /\ \E n \in Times \ {0} :
          k' = Block(Boost([k EXCEPT !.err[t] = "EOK"], t, m), m, t, Flag, n)
    /\ want' = [want EXCEPT ![t] = m]
    /\ Goto(t, "wait")
    /\ UNCHANGED <<mutex, depth>>

rt_mutex_take(t) ==
    /\ CallsFrom(t, "take")
    /\ \E m \in live :
          TakeAgain(t, m) \/ TakeFree(t, m) \/ TakeFails(t, m) \/ TakeWaits(t, m)

\* rt_mutex_take behind rt_schedule.
TakeReturns(t) ==
    /\ At(t, "woken")
    /\ IF k.err[t] = "EOK" THEN Count(t, want[t]) ELSE UNCHANGED depth
    /\ Goto(t, "run")
    /\ UNCHANGED <<k, mutex, want>>

-----------------------------------------------------------------------------

\* Mutant: the owner keeps the priority it inherited.
RestoreNothing(m) == k

\* The owner gets back the priority it had when it took m.
Restore(m) ==
    IF orig[m] # k.prio[owner[m]]
    THEN rt_thread_control(k, owner[m], orig[m])
    ELSE k

\* Mutant: the new owner is not recorded.
HandOverUnrecorded(t, m) ==
    /\ k.susp[m] # <<>>
    /\ owner' = [owner EXCEPT ![m] = NoThread]
    /\ orig' = [orig EXCEPT ![m] = k.prio[Head(k.susp[m])]]
    /\ k' = rt_ipc_list_resume(Restore(m), m)
    /\ Goto(t, "sched")
    /\ UNCHANGED <<value, hold>>

\* The first waiter becomes the owner; hold goes to 0 and back to 1.
HandOver(t, m) ==
    /\ k.susp[m] # <<>>
    /\ owner' = [owner EXCEPT ![m] = Head(k.susp[m])]
    /\ orig' = [orig EXCEPT ![m] = k.prio[Head(k.susp[m])]]
    /\ k' = rt_ipc_list_resume(Restore(m), m)
    /\ Goto(t, "sched")
    /\ UNCHANGED <<value, hold>>

MakeFree(m) ==
    /\ k.susp[m] = <<>>
    /\ hold' = [hold EXCEPT ![m] = 0]
    /\ value' = [value EXCEPT ![m] = @ + 1]
    /\ owner' = [owner EXCEPT ![m] = NoThread]
    /\ orig' = [orig EXCEPT ![m] = NoPriority]
    /\ k' = Restore(m)
    /\ UNCHANGED pc

\* A thread that is not the owner gets -RT_ERROR.
ReleaseFails(t, m) ==
    /\ owner[m] # t
    /\ k' = [k EXCEPT !.err[t] = "ERROR"]
    /\ UNCHANGED <<pc, mutex, depth>>

ReleaseOnce(t, m) ==
    /\ owner[m] = t
    /\ depth' = [depth EXCEPT ![m][t] = @ - 1]
    /\ \/ /\ hold[m] > 1
          /\ hold' = [hold EXCEPT ![m] = @ - 1]
          /\ UNCHANGED <<k, pc, value, owner, orig>>
       \/ hold[m] = 1 /\ (HandOver(t, m) \/ MakeFree(m))
    /\ UNCHANGED live

rt_mutex_release(t) ==
    /\ CallsFrom(t, "release")
    /\ \E m \in Mtx : ReleaseFails(t, m) \/ ReleaseOnce(t, m)
    /\ UNCHANGED want

-----------------------------------------------------------------------------

\* rt_mutex_detach and rt_mutex_delete wake the waiters, one section each.
rt_mutex_detach(t) ==
    /\ CallsFrom(t, "detach")
    /\ \E m \in live : live' = live \ {m} /\ want' = [want EXCEPT ![t] = m]
    /\ Goto(t, "detach")
    /\ UNCHANGED <<k, value, owner, orig, hold, depth>>

DetachStep(t) ==
    /\ \/ WakesNext(t, want[t])
       \/ At(t, "detach") /\ k.susp[want[t]] = <<>> /\ Goto(t, "run") /\ UNCHANGED k
    /\ UNCHANGED <<mutex, want, depth>>

\* rt_mutex_init or rt_mutex_create of a mutex that was detached and that
\* nobody holds.
rt_mutex_init(t) ==
    /\ CallsFrom(t, "init")
    /\ \E m \in Mtx \ live :
          /\ owner[m] = NoThread
          /\ \A u \in Thread : Detaching(u) => want[u] # m
          /\ value' = [value EXCEPT ![m] = 1]
          /\ owner' = [owner EXCEPT ![m] = NoThread]
          /\ orig' = [orig EXCEPT ![m] = NoPriority]
          /\ hold' = [hold EXCEPT ![m] = 0]
          /\ live' = live \union {m}
    /\ UNCHANGED <<k, pc, want, depth>>

Step(t) ==
    \/ rt_mutex_take(t) \/ TakeReturns(t) \/ rt_mutex_release(t)
    \/ rt_mutex_detach(t) \/ DetachStep(t) \/ rt_mutex_init(t)

Next ==
    \/ \E t \in Thread : Step(t)
    \/ Background /\ UNCHANGED <<mutex, want, depth>>

Spec == Init /\ [][Next]_vars

-----------------------------------------------------------------------------
(* Properties.                                                             *)

\* Mutual exclusion: a thread to which rt_mutex_take has returned RT_EOK and
\* that has not released the mutex as often is its owner, so there is never
\* a second one; and the counts of the mutex are the application's counts,
\* one hold being on its way to an owner that has been woken.
OwnerHolds ==
    \A m \in Mtx :
        /\ \A t \in Thread : depth[m][t] > 0 => owner[m] = t
        /\ owner[m] = NoThread => value[m] = 1 /\ hold[m] = 0
        /\ owner[m] # NoThread =>
              /\ value[m] = 0
              /\ hold[m] = depth[m][owner[m]]
                             + (IF owner[m] \in Woken(m) THEN 1 ELSE 0)

\* Threads wait only for a mutex that has an owner, and not for their own:
\* rt_mutex_take reads the owner's priority through mutex->owner.
WaitersHaveOwner ==
    \A m \in Mtx : k.susp[m] # <<>> =>
        owner[m] # NoThread /\ owner[m] \notin Range(k.susp[m])

\* Priority inheritance: the owner has at least the priority of every thread
\* that waits for the mutex.
Inherits ==
    \A m \in Mtx : \A w \in Range(k.susp[m]) : k.prio[owner[m]] <= k.prio[w]

\* What the comment in rt_mutex_release says (ipc.c:811): the owner goes back
\* to its original priority. A thread without a mutex has its own priority.
Restored ==
    \A t \in Thread : (\A m \in Mtx : owner[m] # t) => k.prio[t] = InitPriority[t]

\* No priority inversion: while w waits for a mutex whose owner could run, no
\* thread of lower priority than w runs, but for one that is inside a kernel
\* function about to reschedule.
NoInversion ==
    \A m \in Mtx : \A w \in Range(k.susp[m]) :
        k.stat[owner[m]] = "READY" /\ pc[k.cur] \notin {"sched", "sleep", "wait"}
            => k.prio[k.cur] <= k.prio[w]
=============================================================================
