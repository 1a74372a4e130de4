------------------------------- MODULE Threads -------------------------------
(***************************************************************************)
(* The thread API (src/src/thread.c), the scheduler lock                   *)
(* (src/src/scheduler.c), the tick interrupt and the idle thread's reaping *)
(* of dead threads (src/src/idle.c), run by threads that may be preempted  *)
(* wherever interrupts are enabled.                                        *)
(*                                                                         *)
(* A step of a thread is one interrupt-disabled section of the function it *)
(* is in, or one test the function makes outside such a section.  pc[t] is *)
(* where t is inside a function ("run": in its own code), arg[t] the       *)
(* thread the function was called on.  Only k.cur takes thread steps, and  *)
(* only outside the tick interrupt.                                        *)
(***************************************************************************)
EXTENDS Kernel

CONSTANTS
    Static,       \* threads initialised by rt_thread_init, the others by
                  \* rt_thread_create
    Cleanup,      \* threads with a cleanup function
    Calls,        \* the functions the application calls
    Disciplined,  \* whether the application keeps the rules below
    MaxNest       \* deepest nesting of rt_enter_critical

ASSUME ThreadsAssumption ==
    /\ Static \subseteq Thread
    /\ Cleanup \subseteq Thread
    /\ Disciplined \in BOOLEAN
    /\ MaxNest \in Nat
    /\ SuspendList = {"defunct"}

VARIABLES k, pc, arg

vars == <<k, pc, arg>>

Label == {"run", "sched", "sleep", "slept", "exit", "exited", "suspend",
          "resume", "insert", "startup", "delete", "close", "link", "reap",
          "free"}

TypeOK ==
    /\ k \in KernelState
    /\ k.nest <= MaxNest
    /\ pc \in [Thread -> Label]
    /\ arg \in [Thread -> Thread]

Init ==
    /\ \E r \in ReadyTables(Booted) : k = rt_system_scheduler_start(r)
    /\ pc = [t \in Thread |-> "run"]
    /\ arg = [t \in Thread |-> t]

-----------------------------------------------------------------------------

\* Thread t executes and is at label l.
At(t, l) == k.cur = t /\ ~k.isr /\ pc[t] = l

\* Thread t is in its own code and calls the function named f.
CallsFrom(t, f) == At(t, "run") /\ t # Idle /\ f \in Calls

Goto(t, l) == pc' = [pc EXCEPT ![t] = l]

\* Threads that another thread is deleting or freeing.
Dying ==
    {arg[u] : u \in {v \in Thread : pc[v] \in {"delete", "close", "link", "free"}}}

\* Threads that rt_thread_resume or rt_thread_startup is about to insert.
Starting == {arg[u] : u \in {v \in Thread : pc[v] \in {"insert", "startup"}}}

\* A thread other threads may name in a call: started, and not dead.
Alive(t) == k.stat[t] \in {"READY", "SUSPEND"} /\ t \notin Dying

\* The rules of a disciplined application: it holds the scheduler lock over
\* a call that suspends, resumes or deletes a thread or changes a priority,
\* its own included; it does not block while it holds the lock, and does not
\* resume or delete a thread whose timer runs (Resume, Delete).
Exclusive(t) == Disciplined => k.nest > 0 /\ t \notin Starting
MayBlock == Disciplined => k.nest = 0

-----------------------------------------------------------------------------
(* rt_schedule called with interrupts enabled: the switch takes place when *)
(* the function enables interrupts again, and t continues behind the call  *)
(* once it is the current thread.                                          *)

Schedule(t) ==
    \E l \in {"sched", "sleep", "exit"} :
        /\ At(t, l)
        /\ k' = rt_schedule(k)
        /\ Goto(t, CASE l = "sched" -> "run"
                     [] l = "sleep" -> "slept"
                     [] l = "exit"  -> "exited")
        /\ UNCHANGED arg

Yield(t) ==
    /\ CallsFrom(t, "yield")
    /\ Rotates(k)
    /\ k' = Rotate(k)
    /\ Goto(t, "sched")
    /\ UNCHANGED arg

\* Mutant: the timer is started on a thread that stays ready.
SleepStaysReady(t, n) ==
    /\ CallsFrom(t, "sleep") /\ MayBlock
    /\ k' = rt_timer_start(k, t, n)
    /\ Goto(t, "sleep")
    /\ UNCHANGED arg

\* rt_thread_sleep for n ticks, up to rt_schedule.
Sleep(t, n) ==
    /\ CallsFrom(t, "sleep") /\ MayBlock
    /\ k' = rt_timer_start(rt_thread_suspend(k, t), t, n)
    /\ Goto(t, "sleep")
    /\ UNCHANGED arg

\* rt_thread_sleep behind rt_schedule.
Slept(t) ==
    /\ At(t, "slept")
    /\ k' = [k EXCEPT !.err[t] = IF @ = "ETIMEOUT" THEN "EOK" ELSE @]
    /\ Goto(t, "run")
    /\ UNCHANGED arg

EnterCritical(t) ==
    /\ CallsFrom(t, "critical") /\ k.nest < MaxNest
    /\ k' = [k EXCEPT !.nest = @ + 1]
    /\ UNCHANGED <<pc, arg>>

\* Mutant: the nesting counter is not kept from going below zero.
ExitCriticalUnderflow(t) ==
    /\ CallsFrom(t, "critical")
    /\ k' = [k EXCEPT !.nest = @ - 1]
    /\ IF k.nest - 1 <= 0 THEN Goto(t, "sched") ELSE UNCHANGED pc
    /\ UNCHANGED arg

ExitCritical(t) ==
    /\ CallsFrom(t, "critical")
    /\ k' = [k EXCEPT !.nest = IF @ - 1 <= 0 THEN 0 ELSE @ - 1]
    /\ IF k.nest - 1 <= 0 THEN Goto(t, "sched") ELSE UNCHANGED pc
    /\ UNCHANGED arg

ChangePriority(t) ==
    /\ CallsFrom(t, "control")
    /\ \E u \in Thread \ {Idle}, p \in Priority :
          /\ Alive(u) /\ Exclusive(u)
          /\ k' = rt_thread_control(k, u, p)
    /\ UNCHANGED <<pc, arg>>

-----------------------------------------------------------------------------
(* rt_thread_suspend tests stat before it disables interrupts, and         *)
(* does not test it again.                                                 *)

Suspend(t) ==
    /\ CallsFrom(t, "suspend")
    /\ \E u \in Thread \ {Idle} :
          /\ Alive(u) /\ Exclusive(u)
          /\ k.stat[u] = "READY"
          /\ arg' = [arg EXCEPT ![t] = u]
    /\ Goto(t, "suspend")
    /\ UNCHANGED k

SuspendSection(t) ==
    /\ At(t, "suspend")
    /\ k' = rt_thread_block(k, arg[t])
    /\ Goto(t, IF arg[t] = t THEN "sched" ELSE "run")
    /\ UNCHANGED arg

(* rt_thread_resume: the test of stat, the section that unlinks the        *)
(* thread, and the section of rt_schedule_insert_thread. It does not call  *)
(* rt_schedule; rt_thread_startup does, behind it.                         *)

Resume(t) ==
    /\ CallsFrom(t, "resume")
    /\ \E u \in Thread \ {Idle} :
          /\ Alive(u) /\ Exclusive(u)
          /\ Disciplined => u \notin Range(k.tmr)
          /\ k.stat[u] = "SUSPEND"
          /\ arg' = [arg EXCEPT ![t] = u]
    /\ Goto(t, "resume")
    /\ UNCHANGED k

ResumeSection(t) ==
    /\ At(t, "resume")
    /\ k' = rt_thread_unsuspend(k, arg[t])
    /\ Goto(t, "insert")
    /\ UNCHANGED arg

Insert(t) ==
    \E l \in {"insert", "startup"} :
        /\ At(t, l)
        /\ k' = rt_schedule_insert_thread(k, arg[t])
        /\ Goto(t, IF l = "startup" THEN "sched" ELSE "run")
        /\ UNCHANGED arg

\* rt_thread_startup sets the priority, then resumes the thread.
Startup(t) ==
    /\ CallsFrom(t, "startup")
    /\ \E u \in Thread :
          /\ k.stat[u] = "INIT"
          /\ k' = rt_thread_unsuspend([k EXCEPT !.prio[u] = InitPriority[u],
                                                !.stat[u] = "SUSPEND"], u)
          /\ arg' = [arg EXCEPT ![t] = u]
    /\ Goto(t, "startup")

-----------------------------------------------------------------------------
(* The end of a thread.                                                    *)

\* The dead thread waits on rt_thread_defunct for the idle thread, unless
\* it is a static one without cleanup function.
Defunct(j, u) ==
    IF u \in Static \ Cleanup THEN j ELSE rt_list_insert_after(j, "defunct", u)

\* Mutant: the thread stays in the ready table.
ExitStaysReady(t) ==
    /\ CallsFrom(t, "exit") /\ MayBlock
    /\ k' = rt_timer_stop([k EXCEPT !.stat[t] = "CLOSE"], t)
    /\ Goto(t, "exit")
    /\ UNCHANGED arg

Exit(t) ==
    /\ CallsFrom(t, "exit") /\ MayBlock
    /\ LET j == rt_schedule_remove_thread(k, t)
       IN  k' = Defunct(rt_timer_stop([j EXCEPT !.stat[t] = "CLOSE"], t), t)
    /\ Goto(t, "exit")
    /\ UNCHANGED arg

\* rt_thread_delete and rt_thread_detach of another thread: off its list,
\* timer detached, closed, linked on rt_thread_defunct; interrupts are enabled
\* in between.
Delete(t) ==
    /\ CallsFrom(t, "delete")
    /\ \E u \in Thread \ {Idle, t} :
          /\ Alive(u) /\ Exclusive(u)
          /\ Disciplined => u \notin Range(k.tmr)
          /\ k' = rt_schedule_remove_thread(k, u)
          /\ arg' = [arg EXCEPT ![t] = u]
    /\ Goto(t, "delete")

DetachTimer(t) ==
    /\ At(t, "delete")
    /\ k' = rt_timer_stop(k, arg[t])
    /\ Goto(t, "close")
    /\ UNCHANGED arg

Close(t) ==
    /\ At(t, "close")
    /\ k' = [k EXCEPT !.stat[arg[t]] = "CLOSE"]
    /\ Goto(t, "link")
    /\ UNCHANGED arg

LinkDefunct(t) ==
    /\ At(t, "link")
    /\ k' = Defunct(k, arg[t])
    /\ Goto(t, "run")
    /\ UNCHANGED arg

\* rt_thread_init or rt_thread_create: a dead thread that has been cleaned
\* up, or a thread never used before, is set up for another start.
Create(t) ==
    /\ CallsFrom(t, "create")
    /\ \E u \in Thread \ {t} :
          /\ k.stat[u] = "CLOSE" /\ u \notin Dying
          /\ u \notin Range(k.susp["defunct"])
          /\ k' = [k EXCEPT !.stat[u] = "INIT", !.err[u] = "EOK",
                            !.prio[u] = InitPriority[u],
                            !.slice[u] = InitTick[u]]
          /\ pc' = [pc EXCEPT ![u] = "run"]
    /\ UNCHANGED arg

-----------------------------------------------------------------------------
(* rt_thread_idle_excute, called over and over by the idle thread.         *)

IdleExecute ==
    /\ At(Idle, "run")
    /\ Goto(Idle, "reap")
    /\ UNCHANGED <<k, arg>>

\* One turn of its loop. A static thread ends the call.
Reap ==
    /\ At(Idle, "reap")
    /\ IF k.susp["defunct"] = <<>>
       THEN Goto(Idle, "run") /\ UNCHANGED <<k, arg>>
       ELSE LET u == Head(k.susp["defunct"])
            IN  /\ k' = rt_list_remove(k, u)
                /\ arg' = [arg EXCEPT ![Idle] = u]
                /\ Goto(Idle, IF u \in Static THEN "run" ELSE "free")

\* The stack and the object of a dynamic thread go back to the heap.
Free ==
    /\ At(Idle, "free")
    /\ Goto(Idle, "reap")
    /\ UNCHANGED <<k, arg>>

-----------------------------------------------------------------------------
(* The SysTick interrupt.                                                  *)

Tick ==
    /\ ~k.isr
    /\ k' = rt_tick_increase(k)
    /\ UNCHANGED <<pc, arg>>

TimerCheck ==
    /\ k.isr
    /\ k' = rt_timer_check(k)
    /\ UNCHANGED <<pc, arg>>

Step(t) ==
    \/ Schedule(t) \/ Yield(t) \/ Slept(t)
    \/ EnterCritical(t) \/ ExitCritical(t) \/ ChangePriority(t)
    \/ Suspend(t) \/ SuspendSection(t)
    \/ Resume(t) \/ ResumeSection(t) \/ Insert(t) \/ Startup(t)
    \/ Exit(t) \/ Delete(t) \/ DetachTimer(t) \/ Close(t) \/ LinkDefunct(t)
    \/ Create(t)

Next ==
    \/ \E t \in Thread : Step(t)
    \/ \E t \in Thread, n \in 0 .. MaxTime : Sleep(t, n)
    \/ IdleExecute \/ Reap \/ Free
    \/ Tick \/ TimerCheck

Spec == Init /\ [][Next]_vars

\* The tick interrupt keeps coming, and between two ticks the processor
\* executes the kernel function the current thread is in.
Fairness ==
    /\ WF_vars(Tick) /\ WF_vars(TimerCheck)
    /\ \A t \in Thread : SF_vars(Schedule(t))

-----------------------------------------------------------------------------
(* Properties.                                                             *)

\* The ready table, the bitmap and the status of the threads agree: a thread
\* is on the list of its own priority iff it is READY (but for one that is
\* being deleted), and a priority has its bit set iff its list is not empty,
\* so that rt_schedule (scheduler.c:206-217) always finds a real thread.
ReadyTable == ReadyAgrees(k, Dying)

\* A list node is linked once: no thread is twice on a list or on two lists,
\* and only dead threads are on rt_thread_defunct. A second insertion of a
\* linked node (rt_thread_resume racing a timeout) corrupts both lists.
LinkedOnce ==
    /\ NodesLinkedOnce(k)
    /\ \A t \in Range(k.susp["defunct"]) : k.stat[t] = "CLOSE"

\* The assertion of rt_thread_timeout (thread.c:644): a thread whose timer
\* runs is suspended.
TimersSuspended == TimersArmed(k)

\* Unless the scheduler is locked or the running thread is about to call
\* rt_schedule, the running thread is the first of the highest ready
\* priority: no path that makes a thread ready forgets to reschedule.
TopRuns ==
    k.nest = 0 /\ pc[k.cur] \notin {"sched", "sleep", "exit"}
        => k.cur = Head(k.ready[HighestReady(k)])

\* A thread that has left its entry function (rt_thread_exit) never runs
\* again: rt_thread_exit does not return.
DeadNeverRun ==
    /\ pc[k.cur] # "exited"
    /\ k.stat[k.cur] = "CLOSE" => pc[k.cur] = "exit"

\* What the comment of rt_thread_detach says (thread.c:237-238): the thread
\* has been removed from the thread queue, so no closed thread is ready.
ClosedOffQueue ==
    \A p \in Priority : \A t \in Range(k.ready[p]) : k.stat[t] # "CLOSE"

\* While the scheduler is locked the processor does not change hands.
LockHolds == [][k.nest > 0 => k'.cur = k.cur]_vars

\* A sleeping thread becomes ready again.
SleeperWakes ==
    \A t \in Thread : pc[t] = "slept" ~> k.stat[t] # "SUSPEND"

\* Round robin: a ready thread of the highest ready priority gets the
\* processor, because the time slices of the others run out.
TopReady(t) == k.stat[t] = "READY" /\ k.prio[t] = HighestReady(k)

RoundRobin ==
    \A t \in Thread : TopReady(t) ~> (k.cur = t \/ ~TopReady(t) \/ k.nest > 0)
=============================================================================
