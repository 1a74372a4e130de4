------------------------------- MODULE Kernel -------------------------------
(***************************************************************************)
(* The thread scheduler of the kernel (src/src/scheduler.c), the state     *)
(* transitions of a thread (src/src/thread.c), the thread timers           *)
(* (src/src/timer.c, src/src/clock.c) and the suspend lists of the IPC     *)
(* objects (src/src/ipc.c), as operators from a kernel state to a kernel   *)
(* state.  A kernel function is called from many handlers, with other      *)
(* kernel calls before and after it inside one interrupt-disabled section; *)
(* an operator on the state composes the way those calls do, so that an    *)
(* action of the modules that extend this one reads                        *)
(* k' = rt_schedule(rt_thread_resume(k, t)).                               *)
(*                                                                         *)
(* A kernel state is a record with the fields                              *)
(*   stat   thread->stat                                                   *)
(*   prio   thread->current_priority (number_mask is 1 << prio)            *)
(*   err    thread->error                                                  *)
(*   slice  thread->remaining_tick                                         *)
(*   ready  rt_thread_priority_table, a list of threads per priority       *)
(*   group  rt_thread_ready_priority_group, as the set of its bits         *)
(*   cur    rt_current_thread, the thread that owns the processor          *)
(*   nest   rt_scheduler_lock_nest                                         *)
(*   susp   the other lists a tlist node can be on, by list head           *)
(*   tmr    rt_timer_list restricted to thread timers, in list order       *)
(*   left   ticks until the timer of a thread expires (0 when not in tmr)  *)
(*   isr    TRUE while the tick interrupt is being served                  *)
(***************************************************************************)
EXTENDS Lists

CONSTANTS
    Thread,                    \* the thread objects
    Idle,                      \* the idle thread, started by rt_thread_idle_init
    Booted,                    \* the threads started before the scheduler is
    RT_THREAD_PRIORITY_MAX,    \* number of priorities; 0 is the highest
    InitPriority,              \* thread->init_priority
    InitTick,                  \* thread->init_tick, the time slice
    SuspendList,               \* list heads, other than the ready table
    MaxTime                    \* longest timeout, in ticks, that is given

Priority == 0 .. RT_THREAD_PRIORITY_MAX - 1
Status   == {"INIT", "READY", "SUSPEND", "CLOSE"}
Error    == {"EOK", "ETIMEOUT", "ERROR"}

ASSUME KernelAssumption ==
    /\ RT_THREAD_PRIORITY_MAX \in Nat \ {0}
    /\ IsFiniteSet(Thread)
    /\ Booted \subseteq Thread
    /\ Idle \in Booted
    /\ InitPriority \in [Thread -> Priority]
    /\ InitTick \in [Thread -> Nat \ {0}]
    /\ MaxTime \in Nat

KernelState ==
    [stat : [Thread -> Status], prio : [Thread -> Priority],
     err : [Thread -> Error], slice : [Thread -> Nat \ {0}],
     ready : [Priority -> Seq(Thread)], group : SUBSET Priority,
     cur : Thread, nest : Nat,
     susp : [SuspendList -> Seq(Thread)],
     tmr : Seq(Thread), left : [Thread -> Nat], isr : BOOLEAN]

-----------------------------------------------------------------------------
(* List nodes. A tlist node is on at most one list.                        *)

\* rt_list_remove(&thread->tlist): wherever the node is linked; a node that
\* is on no list points at itself, and removing it changes nothing.
rt_list_remove(k, t) ==
    [k EXCEPT !.ready = [p \in Priority |-> Without(k.ready[p], t)],
              !.susp  = [q \in SuspendList |-> Without(k.susp[q], t)]]

\* rt_list_insert_before(list, node): at the tail of list.
rt_list_insert_before(k, q, t) == [k EXCEPT !.susp[q] = Append(@, t)]

\* rt_list_insert_after(list, node): at the head of list.
rt_list_insert_after(k, q, t) == [k EXCEPT !.susp[q] = <<t>> \o @]

-----------------------------------------------------------------------------
(* Scheduler.                                                              *)

rt_schedule_insert_thread(k, t) ==
    [k EXCEPT !.stat[t] = "READY",
              !.ready[k.prio[t]] = Append(@, t),
              !.group = @ \union {k.prio[t]}]

\* Mutant: the bit of an emptied list stays set.
RemoveKeepsBit(k, t) == rt_list_remove(k, t)

rt_schedule_remove_thread(k, t) ==
    LET j == rt_list_remove(k, t)
    IN  [j EXCEPT !.group = IF j.ready[j.prio[t]] = <<>>
                            THEN @ \ {j.prio[t]} ELSE @]

\* __rt_ffs(rt_thread_ready_priority_group) - 1
HighestReady(k) == Min(k.group)

\* Mutant: the lock is not looked at.
ScheduleIgnoresLock(k) == [k EXCEPT !.cur = Head(k.ready[HighestReady(k)])]

rt_schedule(k) ==
    IF k.nest = 0 THEN [k EXCEPT !.cur = Head(k.ready[HighestReady(k)])] ELSE k

-----------------------------------------------------------------------------
(* Thread timers.                                                          *)

\* A thread timer is RT_TIMER_FLAG_ACTIVATED while it is on the list, but for
\* the time rt_thread_timeout runs; so refusing one that is not comes to the
\* same as taking it off.
rt_timer_stop(k, t) ==
    [k EXCEPT !.tmr = Without(@, t), !.left[t] = 0]

\* A timer of n ticks goes behind every timer that expires no later.
rt_timer_start(k, t, n) ==
    LET j == rt_timer_stop(k, t)
    IN  [j EXCEPT !.tmr = InsertBefore(@, LAMBDA u : j.left[u] > n, t),
                  !.left[t] = n]

-----------------------------------------------------------------------------
(* State transitions of a thread.                                          *)

\* The interrupt-disabled section of rt_thread_suspend.
rt_thread_block(k, t) ==
    rt_timer_stop(
        rt_schedule_remove_thread([k EXCEPT !.stat[t] = "SUSPEND"], t), t)

rt_thread_suspend(k, t) ==
    IF k.stat[t] = "READY" THEN rt_thread_block(k, t) ELSE k

\* The first interrupt-disabled section of rt_thread_resume: the thread is
\* off its list and has no timer, and is not in the ready table yet.
rt_thread_unsuspend(k, t) == rt_timer_stop(rt_list_remove(k, t), t)

rt_thread_resume(k, t) ==
    IF k.stat[t] = "SUSPEND"
    THEN rt_schedule_insert_thread(rt_thread_unsuspend(k, t), t)
    ELSE k

\* Mutant: the woken thread does not preempt.
TimeoutNoSchedule(k, t) ==
    rt_schedule_insert_thread(
        rt_list_remove([k EXCEPT !.err[t] = "ETIMEOUT"], t), t)

rt_thread_timeout(k, t) ==
    rt_schedule(
        rt_schedule_insert_thread(
            rt_list_remove([k EXCEPT !.err[t] = "ETIMEOUT"], t), t))

\* RT_THREAD_CTRL_CHANGE_PRIORITY
rt_thread_control(k, t, p) ==
    IF k.stat[t] = "READY"
    THEN rt_schedule_insert_thread(
             [rt_schedule_remove_thread(k, t) EXCEPT !.prio[t] = p], t)
    ELSE [k EXCEPT !.prio[t] = p]

\* rt_thread_yield moves cur to the end of its list when it is READY and its
\* node has different neighbours: the list holds another thread.
Rotates(k) == k.stat[k.cur] = "READY" /\ Len(k.ready[k.prio[k.cur]]) > 1

\* Mutant: the node is linked again without being unlinked.
RotateLinksTwice(k) ==
    [k EXCEPT !.ready[k.prio[k.cur]] = Append(@, k.cur)]

Rotate(k) ==
    [k EXCEPT !.ready[k.prio[k.cur]] = Append(Without(@, k.cur), k.cur)]

rt_thread_yield(k) == IF Rotates(k) THEN rt_schedule(Rotate(k)) ELSE k

-----------------------------------------------------------------------------
(* The tick interrupt, in two kinds of steps that no thread interleaves.   *)

\* Mutant: a thread whose time slice is over keeps the processor.
TickNoYield(k) ==
    [k EXCEPT !.isr  = TRUE,
              !.left = [u \in Thread |->
                          IF k.left[u] = 0 THEN 0 ELSE k.left[u] - 1]]

\* rt_tick_increase up to rt_timer_check.
rt_tick_increase(k) ==
    LET t == k.cur
        j == [k EXCEPT !.isr  = TRUE,
                       !.left = [u \in Thread |->
                                   IF k.left[u] = 0 THEN 0 ELSE k.left[u] - 1]]
    IN  IF k.slice[t] = 1
        THEN rt_thread_yield([j EXCEPT !.slice[t] = InitTick[t]])
        ELSE [j EXCEPT !.slice[t] = @ - 1]

\* Mutants: the comparison with the tick is off by one, to either side.
TimerOverdue(k) == k.tmr # <<>> /\ k.left[Head(k.tmr)] < 0
TimerEarly(k)   == k.tmr # <<>> /\ k.left[Head(k.tmr)] <= 1

\* One turn of the loop of rt_timer_check: the first timer, when it is due,
\* is unlinked and its timeout function called; otherwise the handler ends.
TimerDue(k) == k.tmr # <<>> /\ k.left[Head(k.tmr)] = 0

rt_timer_check(k) ==
    IF TimerDue(k)
    THEN rt_thread_timeout([k EXCEPT !.tmr = Tail(@)], Head(k.tmr))
    ELSE [k EXCEPT !.isr = FALSE]

-----------------------------------------------------------------------------
(* Suspend lists of IPC objects.                                           *)

\* RT_IPC_FLAG_FIFO appends; RT_IPC_FLAG_PRIO links the thread in front of
\* the first one of lower priority.
rt_ipc_list_suspend(k, q, t, flag) ==
    LET j == rt_thread_suspend(k, t)
    IN  IF flag = "FIFO"
        THEN rt_list_insert_before(j, q, t)
        ELSE [j EXCEPT !.susp[q] =
                  InsertBefore(@, LAMBDA u : j.prio[t] < j.prio[u], t)]

rt_ipc_list_resume(k, q) == rt_thread_resume(k, Head(k.susp[q]))

\* One turn of the loop of rt_ipc_list_resume_all.
rt_ipc_list_resume_error(k, q) ==
    rt_thread_resume([k EXCEPT !.err[Head(k.susp[q])] = "ERROR"],
                     Head(k.susp[q]))

\* A blocking call: thread t waits on list q for n ticks, or for ever when
\* n is RT_WAITING_FOREVER.
RT_WAITING_FOREVER == -1

Block(k, q, t, flag, n) ==
    LET j == rt_ipc_list_suspend([k EXCEPT !.err[t] = "EOK"], q, t, flag)
    IN  IF n > 0 THEN rt_timer_start(j, t, n) ELSE j

-----------------------------------------------------------------------------
(* What the kernel relies on. off are the threads a caller has taken off   *)
(* the ready table while their status still says READY.                    *)

\* The ready table, the bitmap and the status of the threads agree.
ReadyAgrees(k, off) ==
    /\ \A p \in Priority : \A t \in Range(k.ready[p]) :
          k.stat[t] = "READY" /\ k.prio[t] = p
    /\ \A t \in Thread \ off :
          k.stat[t] = "READY" => t \in Range(k.ready[k.prio[t]])
    /\ k.group = {p \in Priority : k.ready[p] # <<>>}

\* A list node is on one list, once.
NodesLinkedOnce(k) ==
    /\ \A p \in Priority : IsInjective(k.ready[p])
    /\ \A q \in SuspendList : IsInjective(k.susp[q])
    /\ \A q \in SuspendList : \A t \in Range(k.susp[q]) : k.stat[t] # "READY"
    /\ \A q, r \in SuspendList : \A t \in Thread :
          t \in Range(k.susp[q]) /\ t \in Range(k.susp[r]) => q = r

\* A thread with an armed timer is suspended.
TimersArmed(k) ==
    /\ IsInjective(k.tmr)
    /\ \A t \in Range(k.tmr) : k.stat[t] = "SUSPEND"

\* The timer list is sorted by expiry.
TimersSorted(k) ==
    \A i, j \in DOMAIN k.tmr : i < j => k.left[k.tmr[i]] <= k.left[k.tmr[j]]

-----------------------------------------------------------------------------
(* System start: the threads of Booted have been through rt_thread_startup,*)
(* in some order, when rt_system_scheduler_start picks the first to run.   *)

Orders(S) ==
    {f \in UNION {[1 .. n -> S] : n \in 0 .. Cardinality(S)} :
        IsInjective(f) /\ Range(f) = S}

StartedAt(S, p) == {t \in S : InitPriority[t] = p}

\* The ready tables that starting the threads of S can leave.
ReadyTables(S) ==
    {r \in [Priority -> UNION {Orders(StartedAt(S, p)) : p \in Priority}] :
        \A p \in Priority : r[p] \in Orders(StartedAt(S, p))}

rt_system_scheduler_start(r) ==
    rt_schedule(
        [stat  |-> [t \in Thread |-> IF t \in Booted THEN "READY" ELSE "INIT"],
         prio  |-> InitPriority,
         err   |-> [t \in Thread |-> "EOK"],
         slice |-> InitTick,
         ready |-> r,
         group |-> {p \in Priority : r[p] # <<>>},
         cur   |-> Idle,
         nest  |-> 0,
         susp  |-> [q \in SuspendList |-> <<>>],
         tmr   |-> <<>>,
         left  |-> [t \in Thread |-> 0],
         isr   |-> FALSE])
=============================================================================
