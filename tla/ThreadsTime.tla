----------------------------- MODULE ThreadsTime -----------------------------
(***************************************************************************)
(* Threads with a clock of its own beside rt_tick and the timer list: the  *)
(* ticks each sleeping thread has yet to sleep, from what it asked         *)
(* rt_thread_sleep for and from the tick interrupts since. rest is a       *)
(* history variable and restricts no step.                                 *)
(***************************************************************************)
EXTENDS Threads

VARIABLE rest

timedVars == <<k, pc, arg, rest>>

TimedInit == Init /\ rest = [t \in Thread |-> 0]

\* A sleep of no ticks ends at the next tick, as one of a single tick does.
TimedSleep(t, n) ==
    Sleep(t, n) /\ rest' = [rest EXCEPT ![t] = IF n = 0 THEN 1 ELSE n]

TimedTick ==
    Tick /\ rest' = [t \in Thread |-> IF rest[t] = 0 THEN 0 ELSE rest[t] - 1]

TimedNext ==
    \/ \E t \in Thread, n \in 0 .. MaxTime : TimedSleep(t, n)
    \/ TimedTick
    \/ /\ \/ \E t \in Thread : Step(t)
          \/ IdleExecute \/ Reap \/ Free
          \/ TimerCheck
       /\ UNCHANGED rest

TimedSpec == TimedInit /\ [][TimedNext]_timedVars /\ Fairness

-----------------------------------------------------------------------------

\* rt_thread_sleep sleeps for the ticks it was asked for, whatever other
\* threads sleep, run or lock the scheduler meanwhile: the thread is made
\* ready by the tick at which its time is over, not by an earlier one, and not
\* left for a later one (thread.c:421, timer.c:319, 508).
SleepsItsTime ==
    \A t \in Thread : pc[t] \in {"sleep", "slept"} =>
        IF k.stat[t] = "SUSPEND" THEN rest[t] > 0 \/ k.isr ELSE rest[t] = 0
=============================================================================
