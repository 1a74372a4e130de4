-------------------------------- MODULE Ipc --------------------------------
(***************************************************************************)
(* What the modules of the IPC objects (src/src/ipc.c) share: threads that *)
(* sleep, block on a suspend list, are woken and preempted, and the tick   *)
(* interrupt.  pc[t] is where thread t is inside a function, as in module  *)
(* Threads; a blocking function suspends its thread ("wait"), calls        *)
(* rt_schedule, and goes on behind that call ("woken").                    *)
(***************************************************************************)
EXTENDS Kernel

CONSTANTS
    Calls,   \* the functions the application calls
    Times    \* the waiting times it passes, in ticks

ASSUME IpcAssumption == Times \subseteq {RT_WAITING_FOREVER} \union 0 .. MaxTime

VARIABLES k, pc

IpcLabel ==
    {"run", "sched", "sleep", "slept", "wait", "woken", "detach", "resume"}

IpcInit ==
    /\ \E r \in ReadyTables(Booted) : k = rt_system_scheduler_start(r)
    /\ pc = [t \in Thread |-> "run"]

-----------------------------------------------------------------------------

\* Thread t executes and is at label l.
At(t, l) == k.cur = t /\ ~k.isr /\ pc[t] = l

\* Thread t is in its own code and calls the function named f. The idle
\* thread must not block.
CallsFrom(t, f) == At(t, "run") /\ t # Idle /\ f \in Calls

\* The handler of a device interrupt calls f. It runs to its end before a
\* thread or the tick handler goes on.
IsrCalls(f) == ~k.isr /\ f \in Calls

Goto(t, l) == pc' = [pc EXCEPT ![t] = l]

Schedule(t) ==
    \E l \in {"sched", "sleep", "wait"} :
        /\ At(t, l)
        /\ k' = rt_schedule(k)
        /\ Goto(t, CASE l = "sched" -> "run"
                     [] l = "sleep" -> "slept"
                     [] l = "wait"  -> "woken")

Sleep(t) ==
    /\ CallsFrom(t, "sleep")
    /\ \E n \in 0 .. MaxTime : k' = rt_timer_start(rt_thread_suspend(k, t), t, n)
    /\ Goto(t, "sleep")

Slept(t) ==
    /\ At(t, "slept")
    /\ k' = [k EXCEPT !.err[t] = IF @ = "ETIMEOUT" THEN "EOK" ELSE @]
    /\ Goto(t, "run")

Tick ==
    /\ ~k.isr
    /\ k' = rt_tick_increase(k)
    /\ UNCHANGED pc

TimerCheck ==
    /\ k.isr
    /\ k' = rt_timer_check(k)
    /\ UNCHANGED pc

\* The steps that touch no IPC object.
Background ==
    \/ \E t \in Thread : Schedule(t) \/ Sleep(t) \/ Slept(t)
    \/ Tick \/ TimerCheck

-----------------------------------------------------------------------------

\* Mutant: the timers of the woken threads go on.
ResumeAllKeepsTimers(j, q) ==
    LET W == Range(j.susp[q])
    IN  [j EXCEPT
           !.stat  = [t \in Thread |-> IF t \in W THEN "READY" ELSE @[t]],
           !.err   = [t \in Thread |-> IF t \in W THEN "ERROR" ELSE @[t]],
           !.ready = [p \in Priority |->
                        @[p] \o SelectSeq(j.susp[q], LAMBDA t : j.prio[t] = p)],
           !.group = @ \union {j.prio[t] : t \in W},
           !.susp[q] = <<>>]

\* rt_ipc_list_resume_all inside one interrupt-disabled section: the threads
\* become ready in the order of the list.
rt_ipc_list_resume_all(j, q) ==
    LET W == Range(j.susp[q])
    IN  [j EXCEPT
           !.stat  = [t \in Thread |-> IF t \in W THEN "READY" ELSE @[t]],
           !.err   = [t \in Thread |-> IF t \in W THEN "ERROR" ELSE @[t]],
           !.ready = [p \in Priority |->
                        @[p] \o SelectSeq(j.susp[q], LAMBDA t : j.prio[t] = p)],
           !.group = @ \union {j.prio[t] : t \in W},
           !.susp[q] = <<>>,
           !.tmr   = SelectSeq(@, LAMBDA t : t \notin W),
           !.left  = [t \in Thread |-> IF t \in W THEN 0 ELSE @[t]]]

\* One turn of its loop when interrupts are enabled, in the detach and delete
\* functions: the test of the list, and then the section that wakes the first
\* thread.  A timeout in between can empty the list; the section then writes
\* through the list head as if it were a thread, and the model does not go on
\* from there.
WakesNext(t, q) ==
    \/ At(t, "detach") /\ k.susp[q] # <<>> /\ Goto(t, "resume") /\ UNCHANGED k
    \/ /\ At(t, "resume") /\ k.susp[q] # <<>>
       /\ k' = rt_ipc_list_resume_error(k, q)
       /\ Goto(t, "detach")

Detaching(t) == pc[t] \in {"detach", "resume"}

\* Threads inside a blocking function of object q that the object has woken:
\* the function is going to return RT_EOK.
Granted(W, q) ==
    {t \in W : t \notin Range(k.susp[q]) /\ k.err[t] = "EOK"}

\* The kernel's own lists stay sound whatever the IPC functions do.
KernelSound ==
    ReadyAgrees(k, {}) /\ NodesLinkedOnce(k) /\ TimersArmed(k) /\ TimersSorted(k)
=============================================================================
