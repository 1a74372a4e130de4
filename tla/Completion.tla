----------------------------- MODULE Completion -----------------------------
(***************************************************************************)
(* The completion of src/components/drivers/src/completion.c: one flag,    *)
(* and one thread that waits for it.  rt_completion_wait,                  *)
(* rt_completion_done (also from an interrupt), rt_completion_init.        *)
(***************************************************************************)
EXTENDS Ipc

CompletionAssumption == "completion" \in SuspendList

VARIABLE flag    \* completion->flag is RT_COMPLETED

vars == <<k, pc, flag>>

Label == IpcLabel \union {"done"}

TypeOK ==
    /\ k \in KernelState
    /\ pc \in [Thread -> Label]
    /\ flag \in BOOLEAN

Init ==
    /\ IpcInit
    /\ flag = FALSE

-----------------------------------------------------------------------------

\* rt_completion_wait. A flag that is set returns RT_EOK and stays set, and a
\* time of 0 returns -RT_ETIMEOUT: nothing changes. The assertion says that
\* no other thread is suspended.
rt_completion_wait(t) ==
    /\ CallsFrom(t, "wait")
    /\ ~flag /\ k.susp["completion"] = <<>>
    /\ \E n \in Times \ {0} : k' = Block(k, "completion", t, "FIFO", n)
    /\ Goto(t, "wait")
    /\ UNCHANGED flag

\* Behind rt_schedule the flag is cleared, whatever the thread returns.
WaitReturns(t) ==
    /\ At(t, "woken")
    /\ flag' = FALSE
    /\ Goto(t, "run")
    /\ UNCHANGED k

\* The section of rt_completion_done sets the flag, and resumes the thread.
Completed(j) ==
    IF j.susp["completion"] = <<>> THEN j ELSE rt_ipc_list_resume(j, "completion")

\* rt_completion_done tests the flag with interrupts enabled.
rt_completion_done(t) ==
    /\ CallsFrom(t, "done") /\ ~flag
    /\ Goto(t, "done")
    /\ UNCHANGED <<k, flag>>

\* Mutant: a thread that was suspended since then is not looked for.
SetsOnly(t) ==
    /\ At(t, "done")
    /\ flag' = TRUE
    /\ Goto(t, "run")
    /\ UNCHANGED k

DoneStep(t) ==
    /\ At(t, "done")
    /\ flag' = TRUE
    /\ k' = Completed(k)
    /\ Goto(t, IF k.susp["completion"] = <<>> THEN "run" ELSE "sched")

IsrDone ==
    /\ IsrCalls("isr_done") /\ ~flag
    /\ flag' = TRUE
    /\ k' = IF k.susp["completion"] = <<>> THEN k ELSE rt_schedule(Completed(k))
    /\ UNCHANGED pc

\* rt_completion_init, while nobody waits.
rt_completion_init(t) ==
    /\ CallsFrom(t, "init") /\ k.susp["completion"] = <<>>
    /\ flag' = FALSE
    /\ UNCHANGED <<k, pc>>

Next ==
    \/ \E t \in Thread : \/ rt_completion_wait(t) \/ WaitReturns(t)
                         \/ rt_completion_done(t) \/ DoneStep(t)
                         \/ rt_completion_init(t)
    \/ IsrDone
    \/ Background /\ UNCHANGED flag

Spec == Init /\ [][Next]_vars

-----------------------------------------------------------------------------

\* A completion is not missed: no thread is suspended while the flag is set.
\* rt_completion_done tests the flag, and a waiting thread that times out
\* clears it, in steps of their own.
NotMissed == flag => k.susp["completion"] = <<>>
=============================================================================
