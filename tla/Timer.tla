------------------------------- MODULE Timer -------------------------------
(***************************************************************************)
(* The timers of src/src/timer.c as the application uses them: one-shot    *)
(* and periodic timers on rt_timer_list, whose functions the tick          *)
(* interrupt calls.  rt_timer_init, rt_timer_detach (and rt_timer_create,  *)
(* rt_timer_delete), rt_timer_start, rt_timer_stop, rt_timer_control and   *)
(* rt_timer_check.  The tick counter is TickMod wide and wraps; the skip   *)
(* list has one level, as built for the board.                             *)
(*                                                                         *)
(* A timer belongs to one thread: the calls on it come from that thread    *)
(* and from the timer's own function.  pc[x] is where the thread is inside *)
(* a function on timer x; a step is one interrupt-disabled section or one  *)
(* access made with interrupts enabled.                                    *)
(***************************************************************************)
EXTENDS Lists

CONSTANTS
    Timer,       \* the timer objects
    TickMod,     \* 2^32 in the code
    InitTicks,   \* the times the application gives
    MaxDelay     \* bound: ticks a thread is held up inside rt_timer_start

RT_TICK_MAX == TickMod - 1
Half        == RT_TICK_MAX \div 2

\* The assertion of rt_timer_start, with room for the thread that is held up.
ASSUME TimerAssumption ==
    /\ TickMod \in Nat \ {0} /\ MaxDelay \in Nat
    /\ InitTicks \subseteq 0 .. Half - 2 - MaxDelay

VARIABLES
    tick,        \* rt_tick
    s,           \* rt_timer_list as s.list, and of each timer s.timeout, its
                 \* timeout_tick, and s.active, RT_TIMER_FLAG_ACTIVATED; a
                 \* history in s.due: the ticks that remain of the time given
    init,        \* timer->init_tick
    periodic,    \* RT_TIMER_FLAG_PERIODIC
    pc,          \* where the thread of the timer is
    kept,        \* the flag that rt_timer_control has read
    isr          \* the tick interrupt is being served

vars == <<tick, s, init, periodic, pc, kept, isr>>

Linked(x) == x \in Range(s.list)

Label == {"none", "run", "stamp", "insert", "remove", "clear", "modify"}

TypeOK ==
    /\ tick \in 0 .. RT_TICK_MAX
    /\ s.list \in Seq(Timer)
    /\ s.timeout \in [Timer -> 0 .. RT_TICK_MAX]
    /\ s.active \in [Timer -> BOOLEAN]
    /\ s.due \in [Timer -> -MaxDelay - 1 .. Half]
    /\ init \in [Timer -> InitTicks] /\ periodic \in [Timer -> BOOLEAN]
    /\ pc \in [Timer -> Label] /\ kept \in [Timer -> BOOLEAN]
    /\ isr \in BOOLEAN

Init ==
    /\ tick = 0 /\ isr = FALSE
    /\ s = [list |-> <<>>, timeout |-> [x \in Timer |-> 0],
            active |-> [x \in Timer |-> FALSE], due |-> [x \in Timer |-> 0]]
    /\ init = [x \in Timer |-> CHOOSE n \in InitTicks : TRUE]
    /\ periodic = [x \in Timer |-> FALSE] /\ kept = [x \in Timer |-> FALSE]
    /\ pc = [x \in Timer |-> "none"]

-----------------------------------------------------------------------------
(* The sections of the functions, as operators on s.                       *)

\* A difference of two ticks, as the unsigned subtraction gives it.
Minus(m, n) == (m - n) % TickMod

\* _rt_timer_remove. The time at which x ended is not read again.
Removed(r, x) ==
    [r EXCEPT !.list = Without(@, x), !.timeout[x] = 0, !.due[x] = 0]

Deactivated(r, x) == [r EXCEPT !.active[x] = FALSE]

\* Mutant: the time that was given is not added.
StampedNow(r, x) == [r EXCEPT !.timeout[x] = tick, !.due[x] = init[x]]

\* The time at which x ends, counted from now.
Stamped(r, x) ==
    [r EXCEPT !.timeout[x] = (tick + init[x]) % TickMod, !.due[x] = init[x]]

\* Mutant: the walk of the list compares the ticks as they are.
EndsLaterPlain(r, y, x) == r.timeout[y] > r.timeout[x]

\* The walk of rt_timer_start stops in front of y.
EndsLater(r, y, x) == Minus(r.timeout[y], r.timeout[x]) \in 1 .. Half - 1

Inserted(r, x) ==
    [r EXCEPT !.list = InsertBefore(@, LAMBDA y : EndsLater(r, y, x), x),
              !.active[x] = TRUE]

\* rt_timer_start and rt_timer_stop as a whole, inside the interrupt.
Started(r, x) == Inserted(Stamped(Deactivated(Removed(r, x), x), x), x)
Stopped(r, x) == IF r.active[x] THEN Deactivated(Removed(r, x), x) ELSE r

-----------------------------------------------------------------------------

\* The thread of x executes with interrupts enabled, and is at label l.
At(x, l) == ~isr /\ pc[x] = l

Goto(x, l) == pc' = [pc EXCEPT ![x] = l]

\* A timer of 0 ticks is due as soon as it is set: set again by the interrupt,
\* because it is periodic or by its own function, it would keep rt_timer_check
\* in its loop for ever, which no code prevents. The application does neither.
Repeatable(n) == n > 0

rt_timer_init(x) ==
    /\ At(x, "none")
    /\ s' = [s EXCEPT !.active[x] = FALSE, !.timeout[x] = 0]
    /\ \E n \in InitTicks, p \in BOOLEAN :
          /\ p => Repeatable(n)
          /\ init' = [init EXCEPT ![x] = n] /\ periodic' = [periodic EXCEPT ![x] = p]
    /\ Goto(x, "run")
    /\ UNCHANGED <<tick, kept, isr>>

\* rt_timer_detach and rt_timer_delete leave the flag as it is.
rt_timer_detach(x) ==
    /\ At(x, "run")
    /\ s' = Removed(s, x)
    /\ Goto(x, "none")
    /\ UNCHANGED <<tick, init, periodic, kept, isr>>

\* rt_timer_start: a section that stops the timer, the time at which it ends,
\* read with interrupts enabled, and a section that inserts it.
rt_timer_start(x) ==
    /\ \/ At(x, "run") /\ s' = Deactivated(Removed(s, x), x) /\ Goto(x, "stamp")
       \/ At(x, "stamp") /\ s' = Stamped(s, x) /\ Goto(x, "insert")
       \/ At(x, "insert") /\ s' = Inserted(s, x) /\ Goto(x, "run")
    /\ UNCHANGED <<tick, init, periodic, kept, isr>>

\* rt_timer_stop: the test of the flag, the section, and the flag again. A
\* timer that is not active is refused.
rt_timer_stop(x) ==
    /\ \/ At(x, "run") /\ s.active[x] /\ Goto(x, "remove") /\ UNCHANGED s
       \/ At(x, "remove") /\ s' = Removed(s, x) /\ Goto(x, "clear")
       \/ At(x, "clear") /\ s' = Deactivated(s, x) /\ Goto(x, "run")
    /\ UNCHANGED <<tick, init, periodic, kept, isr>>

\* rt_timer_control sets the time, or one bit of the flags: it reads them and
\* writes them back, and the interrupt may come in between.
rt_timer_control(x) ==
    /\ \/ /\ At(x, "run")
          /\ \E n \in InitTicks : /\ periodic[x] => Repeatable(n)
                                 /\ init' = [init EXCEPT ![x] = n]
          /\ UNCHANGED <<s, periodic, pc, kept>>
       \/ /\ At(x, "run")
          /\ kept' = [kept EXCEPT ![x] = s.active[x]]
          /\ Goto(x, "modify")
          /\ UNCHANGED <<s, init, periodic>>
       \/ /\ At(x, "modify")
          /\ s' = [s EXCEPT !.active[x] = kept[x]]
          /\ \E p \in BOOLEAN : /\ p => Repeatable(init[x])
                               /\ periodic' = [periodic EXCEPT ![x] = p]
          /\ kept' = [kept EXCEPT ![x] = FALSE]
          /\ Goto(x, "run")
          /\ UNCHANGED init
    /\ UNCHANGED <<tick, isr>>

\* rt_tick_increase; a thread is not held up for more than MaxDelay ticks
\* once it has read the tick.
Tick ==
    /\ ~isr
    /\ \A x \in Timer : pc[x] = "insert" => s.due[x] > -MaxDelay
    /\ tick' = (tick + 1) % TickMod
    /\ s' = [s EXCEPT !.due = [x \in Timer |-> IF Linked(x) \/ pc[x] = "insert"
                                               THEN @[x] - 1 ELSE @[x]]]
    /\ isr' = TRUE
    /\ UNCHANGED <<init, periodic, pc, kept>>

\* Mutant: the ticks are compared as they are.
DuePlain(x) == tick >= s.timeout[x]

Due(x) == Minus(tick, s.timeout[x]) < Half

\* The timer's function does nothing, or starts or stops its own timer.
Called(r, x) ==
    {r, Stopped(r, x)} \union (IF Repeatable(init[x]) THEN {Started(r, x)} ELSE {})

\* What rt_timer_check does behind the call.
Restarted(r, x) ==
    IF periodic[x] /\ r.active[x]
    THEN Started(Deactivated(r, x), x) ELSE Deactivated(r, x)

\* One turn of the loop of rt_timer_check: the first timer is due, or the
\* interrupt ends.
rt_timer_check ==
    /\ isr
    /\ IF s.list # <<>> /\ Due(Head(s.list))
       THEN /\ LET x == Head(s.list)
               IN  \E r \in Called(Removed(s, x), x) : s' = Restarted(r, x)
            /\ UNCHANGED isr
       ELSE isr' = FALSE /\ UNCHANGED s
    /\ UNCHANGED <<tick, init, periodic, pc, kept>>

Next ==
    \/ \E x \in Timer :
          \/ rt_timer_init(x) \/ rt_timer_detach(x) \/ rt_timer_start(x)
          \/ rt_timer_stop(x) \/ rt_timer_control(x)
    \/ Tick \/ rt_timer_check

Spec == Init /\ [][Next]_vars

\* The clock ticks, its handler runs, and a thread inside rt_timer_start gets
\* on, as the bound of Tick says.
FairSpec ==
    /\ Spec /\ WF_vars(Tick) /\ WF_vars(rt_timer_check)
    /\ \A x \in Timer : WF_vars(pc[x] = "insert" /\ rt_timer_start(x))

-----------------------------------------------------------------------------
(* Properties.                                                             *)

\* The list sorted by ticks that wrap keeps the promise of Countdown: timers
\* expire when the time given is over, in order, whatever rt_timer_start,
\* rt_timer_stop, rt_timer_control and the timers' functions do in between.
Abstract == INSTANCE Countdown WITH
    Ticks <- -MaxDelay .. Half, queue <- s.list, busy <- isr,
    left <- [x \in Timer |-> IF Linked(x) THEN s.due[x] ELSE 0]

IsCountdown == Abstract!Spec

\* What rtdef.h:394 says of RT_TIMER_FLAG_ACTIVATED, "timer is active": with
\* its thread outside the functions, a timer on the list has the flag.
LinkedActive == \A x \in Timer : Linked(x) /\ pc[x] = "run" /\ ~isr => s.active[x]

\* The tick interrupt ends: timers that are set again by their function, or
\* because they are periodic, do not keep rt_timer_check in its loop.
HandlerEnds == isr ~> ~isr
=============================================================================
