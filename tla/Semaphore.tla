----------------------------- MODULE Semaphore -----------------------------
(***************************************************************************)
(* The semaphore of src/src/ipc.c: rt_sem_take, rt_sem_release (from a     *)
(* thread and from an interrupt), rt_sem_control, rt_sem_detach and        *)
(* rt_sem_delete, rt_sem_init and rt_sem_create, for one semaphore.        *)
(***************************************************************************)
EXTENDS Ipc

CONSTANTS
    Flag,        \* RT_IPC_FLAG_FIFO or RT_IPC_FLAG_PRIO
    SemMax,      \* the largest value of the field, 65535 in the code
    MaxUnits     \* bound: units in existence

SemaphoreAssumption ==
    /\ Flag \in {"FIFO", "PRIO"}
    /\ SemMax \in Nat /\ MaxUnits \in 0 .. SemMax
    /\ {"sem"} \subseteq SuspendList

VARIABLES
    value,       \* sem->value
    live,        \* the application uses the semaphore
    units        \* history: units released and not taken yet

vars == <<k, pc, value, live, units>>

\* Threads that a release has woken and that have not returned yet.
Woken == Granted({t \in Thread : pc[t] \in {"wait", "woken"}}, "sem")

TypeOK ==
    /\ k \in KernelState
    /\ pc \in [Thread -> IpcLabel]
    /\ value \in 0 .. SemMax
    /\ live \in BOOLEAN
    /\ units \in 0 .. MaxUnits

Init ==
    /\ IpcInit
    /\ value \in 0 .. MaxUnits
    /\ live = TRUE
    /\ units = value

-----------------------------------------------------------------------------

\* Mutant: the error of an earlier call is still there when t is woken.
TakeKeepsError(t) ==
    /\ CallsFrom(t, "take") /\ live
    /\ \/ /\ value > 0
          /\ value' = value - 1 /\ units' = units - 1
          /\ UNCHANGED <<k, pc>>
       \/ /\ value = 0
          /\ \E n \in Times \ {0} :
                LET j == rt_ipc_list_suspend(k, "sem", t, Flag)
                IN  k' = IF n > 0 THEN rt_timer_start(j, t, n) ELSE j
          /\ Goto(t, "wait")
          /\ UNCHANGED <<value, units>>
    /\ UNCHANGED live

\* Mutant: the test of the value is off by one.
TakeUnguarded(t) ==
    /\ CallsFrom(t, "take") /\ live
    /\ value' = value - 1 /\ units' = units - 1
    /\ UNCHANGED <<k, pc, live>>

\* A time of 0 on an empty semaphore returns -RT_ETIMEOUT and changes nothing.
rt_sem_take(t) ==
    /\ CallsFrom(t, "take") /\ live
    /\ \/ /\ value > 0
          /\ value' = value - 1 /\ units' = units - 1
          /\ UNCHANGED <<k, pc>>
       \/ /\ value = 0
          /\ \E n \in Times \ {0} : k' = Block(k, "sem", t, Flag, n)
          /\ Goto(t, "wait")
          /\ UNCHANGED <<value, units>>
    /\ UNCHANGED live

\* rt_sem_take behind rt_schedule returns thread->error.
TakeReturns(t) ==
    /\ At(t, "woken")
    /\ units' = IF k.err[t] = "EOK" THEN units - 1 ELSE units
    /\ Goto(t, "run")
    /\ UNCHANGED <<k, value, live>>

\* Mutants: the unit is counted although a thread got it; the last waiter is
\* woken, not the first.
ReleaseCountsTwice ==
    /\ live /\ units < MaxUnits
    /\ units' = units + 1
    /\ value' = (value + 1) % (SemMax + 1)

ReleaseWakesLast(j) ==
    rt_thread_resume(j, j.susp["sem"][Len(j.susp["sem"])])

\* The section of rt_sem_release: the first waiter gets the unit, otherwise
\* it is counted, in a field of 16 bits.
ReleaseValue ==
    /\ live /\ units < MaxUnits
    /\ units' = units + 1
    /\ value' = IF k.susp["sem"] = <<>> THEN (value + 1) % (SemMax + 1) ELSE value

ReleaseWakes(j) == rt_ipc_list_resume(j, "sem")

rt_sem_release(t) ==
    /\ CallsFrom(t, "release")
    /\ ReleaseValue
    /\ IF k.susp["sem"] = <<>>
       THEN UNCHANGED <<k, pc>>
       ELSE k' = ReleaseWakes(k) /\ Goto(t, "sched")
    /\ UNCHANGED live

IsrRelease ==
    /\ IsrCalls("isr_release")
    /\ ReleaseValue
    /\ k' = IF k.susp["sem"] = <<>> THEN k ELSE rt_schedule(ReleaseWakes(k))
    /\ UNCHANGED <<pc, live>>

\* RT_IPC_CMD_RESET: every waiter returns an error, then the value is set.
rt_sem_control(t) ==
    /\ CallsFrom(t, "control") /\ live
    /\ k' = rt_ipc_list_resume_all(k, "sem")
    /\ \E v \in 0 .. MaxUnits - Cardinality(Woken) :
          value' = v /\ units' = v + Cardinality(Woken)
    /\ Goto(t, "sched")
    /\ UNCHANGED live

\* rt_sem_detach and rt_sem_delete: a waiter is woken in one section each.
\* They do not call rt_schedule.
rt_sem_detach(t) ==
    /\ CallsFrom(t, "detach") /\ live
    /\ live' = FALSE
    /\ Goto(t, "detach")
    /\ UNCHANGED <<k, value, units>>

\* Mutant: only the first waiter is woken.
DetachOne(t) ==
    /\ At(t, "detach")
    /\ k' = IF k.susp["sem"] = <<>> THEN k
            ELSE rt_ipc_list_resume_error(k, "sem")
    /\ Goto(t, "run")
    /\ UNCHANGED <<value, live, units>>

DetachStep(t) ==
    /\ \/ WakesNext(t, "sem")
       \/ At(t, "detach") /\ k.susp["sem"] = <<>> /\ Goto(t, "run") /\ UNCHANGED k
    /\ UNCHANGED <<value, live, units>>

\* rt_sem_init or rt_sem_create, once nobody is inside rt_sem_detach.
rt_sem_init(t) ==
    /\ CallsFrom(t, "init") /\ ~live
    /\ \A u \in Thread : ~Detaching(u)
    /\ \E v \in 0 .. MaxUnits - Cardinality(Woken) :
          value' = v /\ units' = v + Cardinality(Woken)
    /\ live' = TRUE
    /\ UNCHANGED <<k, pc>>

Step(t) ==
    \/ rt_sem_take(t) \/ TakeReturns(t) \/ rt_sem_release(t)
    \/ rt_sem_control(t) \/ rt_sem_detach(t) \/ DetachStep(t) \/ rt_sem_init(t)

Next ==
    \/ \E t \in Thread : Step(t)
    \/ IsrRelease
    \/ Background /\ UNCHANGED <<value, live, units>>

Spec == Init /\ [][Next]_vars

-----------------------------------------------------------------------------
(* Properties.                                                             *)

\* No thread waits while a unit is free (rt_sem_take and rt_sem_release
\* decide inside one section each; a reset and a timeout come in between).
NoFreeUnitWhileWaiting == value > 0 => k.susp["sem"] = <<>>

\* Every unit released is either counted in sem->value or the reason why a
\* woken thread is going to return RT_EOK: a timeout or a reset that races a
\* release neither loses a unit nor hands one out twice.
UnitsConserved == units = value + Cardinality(Woken)

\* After rt_sem_detach has returned no thread waits on the semaphore.
NoneLeftBehind ==
    ~live /\ (\A t \in Thread : ~Detaching(t)) => k.susp["sem"] = <<>>

\* What the comment in rt_ipc_list_resume_all says (ipc.c:180): the section
\* gets the "next suspend thread", so there is one when it starts.
NextIsSuspended ==
    \A t \in Thread : At(t, "resume") => k.susp["sem"] # <<>>

\* With RT_IPC_FLAG_PRIO a release wakes a waiter of the highest priority.
WakesHighest ==
    \A t, u \in Range(k.susp["sem"]) :
        t \notin Woken /\ t \in Woken' /\ u \in Range(k'.susp["sem"])
            => k.prio[t] <= k.prio[u]
=============================================================================
