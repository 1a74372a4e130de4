---------------------------- MODULE ThreadsCalls ----------------------------
(***************************************************************************)
(* The calls that make threads sleep, wait and run keep the invariant of   *)
(* ThreadsInvariant.                                                       *)
(***************************************************************************)
EXTENDS ThreadsInvariant

\* Time limits of the leaves, in seconds, for the two provers in this order.
USE SMTT(30), ZenonT(30)

(* One lemma for each action.                                              *)

\* rt_schedule called by a thread.
LEMMA ScheduleStep ==
    ASSUME IInv, NEW t \in Thread, Schedule(t)
    PROVE  IInv'
<1>1. PICK l \in {"sched", "sleep", "exit"} :
         /\ At(t, l) /\ k' = rt_schedule(k) /\ arg' = arg
         /\ pc' = [pc EXCEPT ![t] = CASE l = "sched" -> "run"
                                      [] l = "sleep" -> "slept"
                                      [] l = "exit"  -> "exited"]
  BY Zenon DEF Schedule, Goto
<1> DEFINE m == CASE l = "sched" -> "run" [] l = "sleep" -> "slept" [] l = "exit" -> "exited"
           d == [pc EXCEPT ![t] = m]
<1>2. /\ Core(k, pc, arg) /\ CurOK(k, pc) /\ k \in KernelState
      /\ pc \in [Thread -> Label] /\ arg \in [Thread -> Thread]
      /\ k.cur = t /\ pc[t] = l
  BY <1>1 DEF IInv, Core, Types, At
<1>3. m \in {"run", "slept", "exited"} /\ (m = "exited" <=> l = "exit")
  BY <1>1
<1> HIDE DEF m
<1>4. Core(k, d, arg)
  <2>1. Touches(k, k, t)
    BY DEF Touches
  <2>2. DyingIn(d, arg) = DyingIn(pc, arg)
    <3>1. d \in [Thread -> Label] /\ d[t] = m /\ \A u \in Thread \ {t} : d[u] = pc[u]
      BY <1>2, <1>3 DEF Label
    <3>2. Moved(pc, arg, d, arg, t)
      BY <1>2, <3>1 DEF Moved
    <3> HIDE DEF d
    <3> QED BY <1>1, <1>2, <1>3, <3>1, <3>2, DyingStays
  <2>3. PcOK(k, d, arg, t)
    <3>1. d[t] = m
      BY <1>2
    <3>2. m = "exited" => k.stat[t] = "CLOSE"
      BY <1>2, <1>3 DEF Core, PcOK
    <3> QED BY <1>3, <3>1, <3>2 DEF PcOK, Held
  <2>4. \A u \in Thread \ {t} : PcOK(k, d, arg, u)
    <3> SUFFICES ASSUME NEW u \in Thread \ {t} PROVE PcOK(k, d, arg, u)
      BY Zenon
    <3>1. d[u] = pc[u] /\ PcOK(k, pc, arg, u)
      BY <1>2 DEF Core
    <3> HIDE DEF d
    <3> QED BY <2>2, <3>1 DEF PcOK
  <2>5. d \in [Thread -> Label]
    BY <1>2, <1>3 DEF Label
  <2>6. OneActor(d, arg)
    BY <1>2, <1>3 DEF Core, OneActor, Naming
  <2> HIDE DEF d
  <2> QED BY <1>2, <2>2, <2>3, <2>4, <2>5, <2>6 DEF Core, Types
<1>5. k.nest = 0 \/ CurOK(k, d)
  BY <1>2, <1>3 DEF CurOK, KernelState
<1> HIDE DEF d
<1>6. Core(rt_schedule(k), d, arg) /\ CurOK(rt_schedule(k), d)
  BY <1>4, <1>5, ScheduleKeeps
<1> QED BY <1>1, <1>6, Zenon DEF IInv, d, m

\* rt_thread_sleep up to rt_schedule.
LEMMA SleepStep ==
    ASSUME IInv, Disciplined, NEW t \in Thread, NEW n \in Nat, Sleep(t, n)
    PROVE  IInv'
<1>1. k' = rt_timer_start(rt_thread_suspend(k, t), t, n)
  BY DEF Sleep
<1>2. /\ Core(k, pc, arg) /\ CurOK(k, pc) /\ k \in KernelState
      /\ pc \in [Thread -> Label] /\ arg \in [Thread -> Thread]
      /\ k.cur = t /\ pc[t] = "run" /\ t # Idle /\ k.nest = 0
      /\ pc' = [pc EXCEPT ![t] = "sleep"] /\ arg' = arg
      /\ Coherent(k, DyingIn(pc, arg))
  BY DEF IInv, Core, Types, Sleep, CallsFrom, At, MayBlock, Goto
<1>3. k.stat[t] = "READY"
  BY <1>2 DEF CurOK
<1>4. /\ t \notin DyingIn(pc, arg)
      /\ \A u \in Thread \ {t} : pc[u] \in Naming => arg[u] # t
  BY <1>2, <1>3, NotNamed, DyingDead DEF Held
<1> DEFINE i == rt_thread_block(k, t)
<1>5. /\ i \in KernelState /\ Coherent(i, DyingIn(pc, arg) \ {t}) /\ Loose(i, t)
      /\ i.stat[t] = "SUSPEND" /\ Touches(k, i, t)
  BY <1>2, ThreadBlock
<1>6. k' = rt_timer_start(i, t, n)
  BY <1>1, <1>3 DEF rt_thread_suspend
<1> HIDE DEF i
<1>7. /\ k' \in KernelState /\ Coherent(k', DyingIn(pc, arg) \ {t})
      /\ SameLists(i, k') /\ Touches(i, k', t)
  BY <1>5, <1>6, TimerStart
<1>8. Touches(k, k', t)
  BY <1>5, <1>7, TouchesTwice
<1>9. k'.stat[t] = "SUSPEND" /\ t \notin Range(k'.susp["defunct"])
  BY <1>5, <1>7, ThreadsAssumption DEF SameLists, Loose
<1>10. pc'[t] = "sleep" /\ Moved(pc, arg, pc', arg', t)
  BY <1>2, GotoMoves, Zenon DEF Label, Goto
<1>11. Coherent(k', DyingIn(pc, arg))
  <2>1. DyingIn(pc, arg) \ {t} = DyingIn(pc, arg)
    BY <1>4
  <2> QED BY <1>7, <2>1
<1>14. Core(k', pc', arg')
  <2>1. pc[t] \notin {"delete", "close", "link", "free"} /\ pc'[t] \in Plain
    BY <1>2, <1>10 DEF Plain
  <2> QED BY <1>2, <1>4, <1>7, <1>8, <1>9, <1>10, <1>11, <2>1, PlainStep, Zenon
<1>15. CurOK(k', pc')
  BY <1>2, <1>8, <1>9 DEF CurOK, Touches
<1> QED BY <1>14, <1>15 DEF IInv

\* rt_thread_yield.
LEMMA YieldStep ==
    ASSUME IInv, NEW t \in Thread, Yield(t)
    PROVE  IInv'
<1>0. /\ At(t, "run") /\ Rotates(k) /\ k' = Rotate(k) /\ Goto(t, "sched") /\ arg' = arg
  BY DEF Yield, CallsFrom
<1>1. /\ Core(k, pc, arg) /\ k \in KernelState /\ arg \in [Thread -> Thread]
      /\ k.cur = t /\ pc[t] = "run" /\ Coherent(k, DyingIn(pc, arg))
  BY <1>0, Acting
<1>2. k.stat[t] = "READY"
  BY <1>0, <1>1 DEF Rotates
<1>3. t \notin DyingIn(pc, arg) /\ \A u \in Thread \ {t} : pc[u] \in Naming => arg[u] # t
  BY <1>1, <1>2, NotNamed, DyingDead DEF Held
<1>4. /\ k' \in KernelState /\ Coherent(k', DyingIn(pc, arg))
      /\ k'.stat = k.stat /\ k'.cur = k.cur /\ k'.nest = k.nest /\ k'.isr = k.isr
      /\ k'.tmr = k.tmr /\ k'.susp = k.susp
      /\ \A p \in Priority : Range(k'.ready[p]) = Range(k.ready[p])
  BY <1>0, <1>1, <1>3, RotateList
<1>5. Touches(k, k', t)
  BY <1>4 DEF Touches
<1>6. pc'[t] = "sched" /\ Moved(pc, arg, pc', arg', t)
  BY <1>0, <1>1, GotoMoves DEF Label
<1>7. t \in Range(k'.susp["defunct"]) => k'.stat[t] = "CLOSE"
  BY <1>1, <1>4 DEF Core
<1>8. Core(k', pc', arg')
  <2>1. pc[t] \notin {"delete", "close", "link", "free"} /\ pc'[t] \in Plain /\ k'.stat[t] = "READY"
    BY <1>1, <1>2, <1>4, <1>6 DEF Plain
  <2> QED BY <1>1, <1>3, <1>4, <1>5, <1>6, <1>7, <2>1, PlainStep
<1>9. CurOK(k', pc')
  BY <1>1, <1>2, <1>4 DEF CurOK
<1> QED BY <1>8, <1>9 DEF IInv

\* rt_thread_sleep behind rt_schedule.
LEMMA SleptStep ==
    ASSUME IInv, NEW t \in Thread, Slept(t)
    PROVE  IInv'
<1>0. /\ At(t, "slept") /\ Goto(t, "run") /\ arg' = arg
      /\ k' = [k EXCEPT !.err[t] = IF @ = "ETIMEOUT" THEN "EOK" ELSE @]
  BY DEF Slept
<1>1. /\ Core(k, pc, arg) /\ CurOK(k, pc) /\ k \in KernelState /\ arg \in [Thread -> Thread]
      /\ k.cur = t /\ pc[t] = "slept" /\ Coherent(k, DyingIn(pc, arg))
  BY <1>0, Acting
<1>2. /\ k'.stat = k.stat /\ k'.prio = k.prio /\ k'.ready = k.ready /\ k'.group = k.group
      /\ k'.susp = k.susp /\ k'.tmr = k.tmr /\ k'.cur = k.cur /\ k'.nest = k.nest
      /\ k'.isr = k.isr /\ k' \in KernelState
  BY <1>0, <1>1, Zenon DEF KernelState, Error
<1>3. Coherent(k', DyingIn(pc, arg))
  BY <1>1, <1>2, SameCoherent
<1>4. Touches(k, k', Idle)
  BY <1>2 DEF Touches
<1>5. pc'[t] = "run" /\ Moved(pc, arg, pc', arg', t)
  BY <1>0, <1>1, GotoMoves DEF Label
<1>6. Core(k', pc', arg')
  <2>1. pc[t] \notin {"delete", "close", "link", "free"} /\ pc'[t] \in Plain
    BY <1>1, <1>5 DEF Plain
  <2>2. /\ Idle \in Thread /\ \A u \in Thread \ {t} : pc[u] \in Naming => arg[u] # Idle
        /\ pc[Idle] \notin {"exit", "exited"} /\ Idle \notin Range(k'.susp["defunct"])
        /\ k'.stat[Idle] = "READY"
    BY <1>1, <1>2, IdleTouched
  <2> QED BY <1>1, <1>2, <1>3, <1>4, <1>5, <2>1, <2>2, PlainStep
<1>7. CurOK(k', pc')
  BY <1>1, <1>2, <1>5 DEF CurOK
<1> QED BY <1>6, <1>7 DEF IInv

\* The lock nesting may change while nobody is inside a function that needs
\* the lock.
LEMMA NestKeeps ==
    ASSUME Core(k, pc, arg), pc[k.cur] \notin Held, NEW n \in Nat, n <= MaxNest,
           k' = [k EXCEPT !.nest = n]
    PROVE  /\ Core(k', pc, arg)
           /\ k'.stat = k.stat /\ k'.cur = k.cur /\ k'.nest = n
<1>1. k \in KernelState
  BY DEF Core, Types
<1>2. /\ k'.stat = k.stat /\ k'.prio = k.prio /\ k'.ready = k.ready /\ k'.group = k.group
      /\ k'.susp = k.susp /\ k'.tmr = k.tmr /\ k'.cur = k.cur /\ k'.nest = n
      /\ k' \in KernelState
  BY <1>1, Zenon DEF KernelState
<1>3. Coherent(k', DyingIn(pc, arg))
  BY <1>2, SameCoherent, Zenon DEF Core
<1>4. \A u : Loose(k', u) <=> Loose(k, u)
  BY <1>2 DEF Loose
<1>5. ASSUME NEW u \in Thread PROVE PcOK(k', pc, arg, u)
  <2>1. PcOK(k, pc, arg, u) /\ pc[u] \notin Held
    BY DEF Core, PcOK
  <2> QED BY <1>2, <1>4, <2>1 DEF PcOK, Held
<1> QED BY <1>2, <1>3, <1>5 DEF Core, Types

\* rt_enter_critical.
LEMMA EnterCriticalStep ==
    ASSUME IInv, NEW t \in Thread, EnterCritical(t)
    PROVE  IInv'
<1>0. /\ At(t, "run") /\ k.nest < MaxNest /\ k' = [k EXCEPT !.nest = @ + 1]
      /\ pc' = pc /\ arg' = arg
  BY DEF EnterCritical, CallsFrom
<1>1. /\ Core(k, pc, arg) /\ CurOK(k, pc) /\ k.nest \in Nat /\ k.cur = t /\ pc[t] = "run"
  BY <1>0, Acting
<1>2. k.nest + 1 \in Nat /\ k.nest + 1 <= MaxNest /\ pc[k.cur] \notin Held
  BY <1>0, <1>1, ThreadsAssumption DEF Held
<1>3. /\ Core(k', pc, arg) /\ k'.stat = k.stat /\ k'.cur = k.cur /\ k'.nest = k.nest + 1
  BY <1>0, <1>1, <1>2, NestKeeps
<1>4. CurOK(k', pc')
  BY <1>0, <1>1, <1>3 DEF CurOK
<1> QED BY <1>0, <1>3, <1>4 DEF IInv

\* rt_exit_critical.
LEMMA ExitCriticalStep ==
    ASSUME IInv, NEW t \in Thread, ExitCritical(t)
    PROVE  IInv'
<1> DEFINE n == IF k.nest - 1 <= 0 THEN 0 ELSE k.nest - 1
<1>0. /\ At(t, "run") /\ k' = [k EXCEPT !.nest = n] /\ arg' = arg
      /\ IF k.nest - 1 <= 0 THEN Goto(t, "sched") ELSE pc' = pc
  BY DEF ExitCritical, CallsFrom
<1>1. /\ Core(k, pc, arg) /\ CurOK(k, pc) /\ k.nest \in Nat /\ k.cur = t /\ pc[t] = "run"
      /\ arg \in [Thread -> Thread]
  BY <1>0, Acting
<1>2. n \in Nat /\ n <= MaxNest /\ (n = 0 <=> k.nest - 1 <= 0) /\ pc[k.cur] \notin Held
  BY <1>1, ThreadsAssumption DEF Held, Core, Types
<1> HIDE DEF n
<1>3. Core(k', pc, arg) /\ k'.stat = k.stat /\ k'.cur = k.cur /\ k'.nest = n
  BY <1>0, <1>1, <1>2, NestKeeps
<1>4. CASE n # 0
  <2>1. pc' = pc /\ n > 0
    BY <1>0, <1>2, <1>4
  <2>2. CurOK(k', pc')
    BY <1>1, <1>3, <2>1 DEF CurOK
  <2> QED BY <1>0, <1>3, <2>1, <2>2 DEF IInv
<1>5. CASE n = 0
  <2>1. pc'[t] = "sched" /\ Moved(pc, arg, pc', arg', t)
    BY <1>0, <1>1, <1>2, <1>5, GotoMoves DEF Label
  <2>2. DyingIn(pc', arg') = DyingIn(pc, arg)
    <3>1. pc[t] \notin {"delete", "close", "link", "free"} /\ pc'[t] \notin {"delete", "close", "link", "free"}
      BY <1>1, <2>1
    <3> QED BY <2>1, <3>1, DyingStays
  <2>3. PcOK(k', pc', arg', t)
    BY <2>1, PlainOK DEF Plain
  <2>4. Touches(k', k', Idle)
    BY DEF Touches
  <2>5. /\ Idle \in Thread /\ k.stat[Idle] = "READY" /\ pc[Idle] \notin {"exit", "exited"}
        /\ \A u \in Thread \ {t} : pc[u] \in Naming => arg[u] # Idle
    BY <1>1, IdleTouched
  <2>6. Idle \notin Range(k'.susp["defunct"])
    BY <1>3, <2>5 DEF Core
  <2>7. Moves(k', pc, arg, k', pc', arg', t, Idle)
    <3>1. pc'[t] \notin Naming
      BY <2>1 DEF Naming
    <3> QED BY <1>3, <2>1, <2>2, <2>4, <2>5, <2>6, <3>1 DEF Moves
  <2>8. k' \in KernelState /\ Coherent(k', DyingIn(pc', arg'))
    BY <1>3, <2>2 DEF Core, Types
  <2>9. Core(k', pc', arg')
    BY <1>3, <2>3, <2>5, <2>7, <2>8, StepKeeps
  <2>10. CurOK(k', pc')
    BY <1>1, <1>3, <2>1 DEF CurOK
  <2> QED BY <2>9, <2>10 DEF IInv
<1> QED BY <1>4, <1>5

\* rt_thread_control with RT_THREAD_CTRL_CHANGE_PRIORITY.
LEMMA ChangePriorityStep ==
    ASSUME IInv, Disciplined, NEW t \in Thread, ChangePriority(t)
    PROVE  IInv'
<1>0. /\ At(t, "run") /\ pc' = pc /\ arg' = arg
  BY DEF ChangePriority, CallsFrom
<1>1. PICK x \in Thread \ {Idle}, p \in Priority :
         Alive(x) /\ Exclusive(x) /\ k' = rt_thread_control(k, x, p)
  BY DEF ChangePriority
<1>2. /\ Core(k, pc, arg) /\ CurOK(k, pc) /\ k \in KernelState /\ arg \in [Thread -> Thread]
      /\ k.cur = t /\ pc[t] = "run" /\ Coherent(k, DyingIn(pc, arg)) /\ Dying = DyingIn(pc, arg)
      /\ \A u \in Range(k.susp["defunct"]) : k.stat[u] = "CLOSE"
  BY <1>0, Acting
<1>3. k.stat[x] \in {"READY", "SUSPEND"} /\ x \notin DyingIn(pc, arg) /\ x \notin Starting
  BY <1>1, <1>2 DEF Alive, Exclusive
<1>4. \A u \in Thread \ {t} : pc[u] \in Naming => arg[u] # x
  BY <1>2, <1>3, NotNamed
<1>5. /\ k' \in KernelState /\ Coherent(k', DyingIn(pc, arg))
      /\ k'.stat[x] = k.stat[x] /\ Touches(k, k', x)
      /\ \A q \in SuspendList : x \in Range(k'.susp[q]) => x \in Range(k.susp[q])
  BY <1>1, <1>2, <1>3, ThreadControl
<1>6. pc[x] \notin {"exit", "exited"} /\ x \notin Range(k'.susp["defunct"])
  BY <1>1, <1>2, <1>3, <1>5, ThreadsAssumption DEF Core, PcOK
<1>7. Core(k', pc', arg')
  <2>1. Moved(pc, arg, pc', arg', t)
    BY <1>0, <1>2 DEF Moved, Core, Types
  <2>2. pc[t] \notin {"delete", "close", "link", "free"} /\ pc'[t] \in Plain
    BY <1>0, <1>2 DEF Plain
  <2> QED BY <1>1, <1>2, <1>4, <1>5, <1>6, <2>1, <2>2, PlainStep
<1>8. CurOK(k', pc')
  BY <1>0, <1>2, <1>5 DEF CurOK, Touches
<1> QED BY <1>7, <1>8 DEF IInv

\* rt_thread_suspend, the test of the status.
LEMMA SuspendStep ==
    ASSUME IInv, Disciplined, NEW t \in Thread, Suspend(t)
    PROVE  IInv'
<1>0. At(t, "run") /\ k' = k /\ Goto(t, "suspend")
  BY DEF Suspend, CallsFrom
<1>1. PICK x \in Thread \ {Idle} :
         Alive(x) /\ Exclusive(x) /\ k.stat[x] = "READY" /\ arg' = [arg EXCEPT ![t] = x]
  BY Zenon DEF Suspend
<1>2. /\ Core(k, pc, arg) /\ CurOK(k, pc) /\ k \in KernelState /\ arg \in [Thread -> Thread]
      /\ k.cur = t /\ pc[t] = "run" /\ Coherent(k, DyingIn(pc, arg)) /\ Dying = DyingIn(pc, arg)
  BY <1>0, Acting
<1>3. k.nest > 0 /\ x \notin DyingIn(pc, arg)
  BY <1>1, <1>2 DEF Alive, Exclusive
<1>4. arg' \in [Thread -> Thread] /\ arg'[t] = x /\ \A u \in Thread \ {t} : arg'[u] = arg[u]
  BY <1>1, <1>2
<1>5. pc'[t] = "suspend" /\ Moved(pc, arg, pc', arg', t)
  BY <1>0, <1>2, <1>4, GotoMoves DEF Label
<1>6. DyingIn(pc', arg') = DyingIn(pc, arg)
  <2>1. pc[t] \notin {"delete", "close", "link", "free"} /\ pc'[t] \notin {"delete", "close", "link", "free"}
    BY <1>2, <1>5
  <2> QED BY <1>5, <2>1, DyingStays
<1>7. PcOK(k', pc', arg', t)
  BY <1>0, <1>1, <1>2, <1>3, <1>4, <1>5, <1>6 DEF PcOK, Held
<1>8. Moves(k, pc, arg, k', pc', arg', t, Idle)
  <2>1. \A u \in Thread \ {t} : pc[u] \in Naming => arg[u] # arg'[t]
    BY <1>1, <1>2, <1>4, NotNamed
  <2> QED BY <1>0, <1>2, <1>5, <1>6, <2>1, IdleTouched DEF Moves
<1>9. Core(k', pc', arg')
  <2>1. Idle \in Thread /\ k' \in KernelState /\ Coherent(k', DyingIn(pc', arg'))
    BY <1>0, <1>2, <1>6, KernelAssumption
  <2> QED BY <1>2, <1>7, <1>8, <2>1, StepKeeps
<1>10. CurOK(k', pc')
  BY <1>0, <1>2, <1>3 DEF CurOK
<1> QED BY <1>9, <1>10 DEF IInv

\* rt_thread_suspend, the section.
LEMMA SuspendSectionStep ==
    ASSUME IInv, NEW t \in Thread, SuspendSection(t)
    PROVE  IInv'
<1> DEFINE x == arg[t]
           l == IF x = t THEN "sched" ELSE "run"
<1>0. At(t, "suspend") /\ k' = rt_thread_block(k, x) /\ Goto(t, l) /\ arg' = arg
  BY DEF SuspendSection
<1>1. /\ Core(k, pc, arg) /\ CurOK(k, pc) /\ k \in KernelState /\ arg \in [Thread -> Thread]
      /\ k.cur = t /\ pc[t] = "suspend" /\ Coherent(k, DyingIn(pc, arg))
      /\ PcOK(k, pc, arg, t) /\ Idle \in Thread
  BY <1>0, Acting
<1>2. /\ x \in Thread /\ k.stat[x] = "READY" /\ x \notin DyingIn(pc, arg) /\ k.nest > 0
      /\ x # Idle
  BY <1>1 DEF PcOK, Held
<1>3. \A u \in Thread \ {t} : pc[u] \in Naming => arg[u] # x
  BY <1>1, <1>2, NotNamed
<1>4. /\ k' \in KernelState /\ Coherent(k', DyingIn(pc, arg) \ {x}) /\ Loose(k', x)
      /\ k'.stat[x] = "SUSPEND" /\ Touches(k, k', x)
  BY <1>0, <1>1, <1>2, ThreadBlock
<1>5. Coherent(k', DyingIn(pc, arg))
  <2>1. DyingIn(pc, arg) \ {x} = DyingIn(pc, arg)
    BY <1>2
  <2> QED BY <1>4, <2>1
<1>6. pc[x] \notin {"exit", "exited"} /\ x \notin Range(k'.susp["defunct"])
  BY <1>1, <1>2, <1>4, ThreadsAssumption DEF Core, PcOK, Loose
<1>7. l \in Label /\ l \in Plain
  BY DEF Label, Plain
<1> HIDE DEF x, l
<1>8. pc'[t] = l /\ Moved(pc, arg, pc', arg', t)
  BY <1>0, <1>1, <1>7, GotoMoves
<1>9. Core(k', pc', arg')
  <2>1. pc[t] \notin {"delete", "close", "link", "free"} /\ pc'[t] \in Plain
    BY <1>1, <1>7, <1>8
  <2> QED BY <1>1, <1>2, <1>3, <1>4, <1>5, <1>6, <1>8, <2>1, PlainStep
<1>10. CurOK(k', pc')
  BY <1>1, <1>2, <1>4 DEF CurOK, Touches
<1> QED BY <1>9, <1>10 DEF IInv

\* rt_thread_resume, the test of the status.
LEMMA ResumeStep ==
    ASSUME IInv, Disciplined, NEW t \in Thread, Resume(t)
    PROVE  IInv'
<1>0. At(t, "run") /\ k' = k /\ Goto(t, "resume")
  BY DEF Resume, CallsFrom
<1>1. PICK x \in Thread \ {Idle} :
         /\ Alive(x) /\ Exclusive(x) /\ x \notin Range(k.tmr)
         /\ k.stat[x] = "SUSPEND" /\ arg' = [arg EXCEPT ![t] = x]
  BY Zenon DEF Resume
<1>2. /\ Core(k, pc, arg) /\ CurOK(k, pc) /\ k \in KernelState /\ arg \in [Thread -> Thread]
      /\ k.cur = t /\ pc[t] = "run" /\ Coherent(k, DyingIn(pc, arg)) /\ Dying = DyingIn(pc, arg)
  BY <1>0, Acting
<1>3. k.nest > 0 /\ x \notin DyingIn(pc, arg) /\ x \notin Starting
  BY <1>1, <1>2 DEF Alive, Exclusive
<1>4. arg' \in [Thread -> Thread] /\ arg'[t] = x /\ \A u \in Thread \ {t} : arg'[u] = arg[u]
  BY <1>1, <1>2
<1>5. pc'[t] = "resume" /\ Moved(pc, arg, pc', arg', t)
  BY <1>0, <1>2, <1>4, GotoMoves DEF Label
<1>6. DyingIn(pc', arg') = DyingIn(pc, arg)
  <2>1. pc[t] \notin {"delete", "close", "link", "free"} /\ pc'[t] \notin {"delete", "close", "link", "free"}
    BY <1>2, <1>5
  <2> QED BY <1>5, <2>1, DyingStays
<1>7. PcOK(k', pc', arg', t)
  BY <1>0, <1>1, <1>2, <1>3, <1>4, <1>5, <1>6 DEF PcOK, Held
<1>8. \A u \in Thread \ {t} : pc[u] \in Naming => arg[u] # x
  BY <1>2, <1>3, NotNamed
<1>9. Moves(k, pc, arg, k', pc', arg', t, Idle)
  BY <1>0, <1>2, <1>4, <1>5, <1>6, <1>8, IdleTouched, SMTT(40) DEF Moves
<1>10. Core(k', pc', arg')
  <2>1. Idle \in Thread /\ k' \in KernelState /\ Coherent(k', DyingIn(pc', arg'))
    BY <1>0, <1>2, <1>6, KernelAssumption
  <2> QED BY <1>2, <1>7, <1>9, <2>1, StepKeeps
<1>11. CurOK(k', pc')
  BY <1>0, <1>2, <1>3 DEF CurOK
<1> QED BY <1>10, <1>11 DEF IInv

\* rt_thread_resume, the section.
LEMMA ResumeSectionStep ==
    ASSUME IInv, NEW t \in Thread, ResumeSection(t)
    PROVE  IInv'
<1> DEFINE x == arg[t]
<1>0. At(t, "resume") /\ k' = rt_thread_unsuspend(k, x) /\ Goto(t, "insert") /\ arg' = arg
  BY DEF ResumeSection
<1>1. /\ Core(k, pc, arg) /\ CurOK(k, pc) /\ k \in KernelState /\ arg \in [Thread -> Thread]
      /\ k.cur = t /\ pc[t] = "resume" /\ Coherent(k, DyingIn(pc, arg))
      /\ PcOK(k, pc, arg, t) /\ Idle \in Thread /\ k.stat[Idle] = "READY"
  BY <1>0, Acting
<1>2. /\ x \in Thread /\ k.stat[x] = "SUSPEND" /\ x \notin DyingIn(pc, arg) /\ k.nest > 0
      /\ x # Idle
  BY <1>1 DEF PcOK, Held
<1>3. \A u \in Thread \ {t} : pc[u] \in Naming => arg[u] # x
  BY <1>1, OnlyActor DEF Naming
<1>4. /\ k' \in KernelState /\ Coherent(k', DyingIn(pc, arg)) /\ Loose(k', x)
      /\ x \notin Range(k'.tmr) /\ k'.stat = k.stat /\ Touches(k, k', x)
  BY <1>0, <1>1, <1>2, ThreadUnsuspend, SMTT(40)
<1>5. pc[x] \notin {"exit", "exited"} /\ x \notin Range(k'.susp["defunct"])
  <2>1. PcOK(k, pc, arg, x)
    BY <1>1, <1>2 DEF Core
  <2> HIDE DEF x
  <2>2. pc[x] \notin {"exit", "exited"}
    BY <2>1, <1>2 DEF PcOK
  <2>3. x \notin Range(k'.susp["defunct"])
    BY <1>4, ThreadsAssumption DEF Loose
  <2> QED BY <2>2, <2>3
<1> HIDE DEF x
<1>6. pc'[t] = "insert" /\ Moved(pc, arg, pc', arg', t)
  BY <1>0, <1>1, GotoMoves DEF Label
<1>7. DyingIn(pc', arg') = DyingIn(pc, arg)
  <2>1. pc[t] \notin {"delete", "close", "link", "free"} /\ pc'[t] \notin {"delete", "close", "link", "free"}
    BY <1>1, <1>6
  <2> QED BY <1>6, <2>1, DyingStays
<1>8. arg'[t] = x
  BY <1>0 DEF x
<1>9. PcOK(k', pc', arg', t)
  <2>1. k'.cur = t /\ k'.nest > 0
    BY <1>1, <1>2, <1>4 DEF Touches
  <2> QED BY <1>2, <1>4, <1>6, <1>7, <1>8, <2>1 DEF PcOK, Held
<1>10. Moves(k, pc, arg, k', pc', arg', t, x)
  <2>1. \A u \in Thread \ {t} : pc[u] \in Naming => arg[u] # arg'[t]
    BY <1>3, <1>8
  <2> QED BY <1>2, <1>3, <1>4, <1>5, <1>6, <1>7, <2>1 DEF Moves
<1>11. Core(k', pc', arg')
  BY <1>1, <1>2, <1>4, <1>7, <1>9, <1>10, StepKeeps
<1>12. CurOK(k', pc')
  BY <1>1, <1>2, <1>4 DEF CurOK, Touches
<1> QED BY <1>11, <1>12 DEF IInv

\* rt_thread_resume and rt_thread_startup, the insertion in the ready table.
LEMMA InsertStep ==
    ASSUME IInv, NEW t \in Thread, Insert(t)
    PROVE  IInv'
<1> DEFINE x == arg[t]
<1>0. PICK l \in {"insert", "startup"} :
         /\ At(t, l) /\ k' = rt_schedule_insert_thread(k, x) /\ arg' = arg
         /\ Goto(t, IF l = "startup" THEN "sched" ELSE "run")
  BY Zenon DEF Insert
<1> DEFINE m == IF l = "startup" THEN "sched" ELSE "run"
<1>1. /\ Core(k, pc, arg) /\ CurOK(k, pc) /\ k \in KernelState /\ arg \in [Thread -> Thread]
      /\ k.cur = t /\ pc[t] = l /\ Coherent(k, DyingIn(pc, arg))
      /\ PcOK(k, pc, arg, t) /\ Idle \in Thread /\ k.stat[Idle] = "READY"
  BY <1>0, Acting
<1>2. /\ x \in Thread /\ k.stat[x] = "SUSPEND" /\ x \notin DyingIn(pc, arg)
      /\ Loose(k, x) /\ x \notin Range(k.tmr)
  BY <1>1 DEF PcOK
<1>3. \A u \in Thread \ {t} : pc[u] \in Naming => arg[u] # x
  <2>1. pc[t] \in Naming
    BY <1>1 DEF Naming
  <2> QED BY <1>1, <2>1, OnlyActor
<1>4. /\ k' \in KernelState /\ Coherent(k', DyingIn(pc, arg) \ {x})
      /\ k'.stat[x] = "READY" /\ Touches(k, k', x)
  BY <1>0, <1>1, <1>2, ScheduleInsert
<1>5. Coherent(k', DyingIn(pc, arg))
  <2>1. DyingIn(pc, arg) \ {x} = DyingIn(pc, arg)
    BY <1>2, SMTT(40)
  <2> QED BY <1>4, <2>1
<1>6. pc[x] \notin {"exit", "exited"} /\ x \notin Range(k'.susp["defunct"])
  BY <1>1, <1>2, <1>4, ThreadsAssumption, ZenonT(40) DEF Core, PcOK, Coherent, NodesLinkedOnce
<1> HIDE DEF x
<1>7. pc'[t] = m /\ Moved(pc, arg, pc', arg', t)
  <2>1. m \in Label
    BY DEF Label
  <2>2. Goto(t, m)
    BY <1>0
  <2> HIDE DEF m
  <2> QED BY <1>0, <1>1, <2>1, <2>2, GotoMoves
<1>8. Core(k', pc', arg')
  <2>1. pc[t] \notin {"delete", "close", "link", "free"} /\ pc'[t] \in Plain
    BY <1>1, <1>7 DEF Plain
  <2> QED BY <1>1, <1>2, <1>3, <1>4, <1>5, <1>6, <1>7, <2>1, PlainStep
<1>9. CurOK(k', pc')
  <2>1. l = "insert" => k.nest > 0
    BY <1>1 DEF PcOK, Held
  <2> QED BY <1>1, <1>4, <1>7, <2>1 DEF CurOK, Touches
<1> QED BY <1>8, <1>9 DEF IInv

\* rt_thread_startup.
LEMMA StartupStep ==
    ASSUME IInv, NEW t \in Thread, Startup(t)
    PROVE  IInv'
<1>0. At(t, "run") /\ Goto(t, "startup")
  BY DEF Startup, CallsFrom
<1>1. PICK x \in Thread :
         /\ k.stat[x] = "INIT" /\ arg' = [arg EXCEPT ![t] = x]
         /\ k' = rt_thread_unsuspend([k EXCEPT !.prio[x] = InitPriority[x],
                                               !.stat[x] = "SUSPEND"], x)
  BY Zenon DEF Startup
<1>2. /\ Core(k, pc, arg) /\ CurOK(k, pc) /\ k \in KernelState /\ arg \in [Thread -> Thread]
      /\ k.cur = t /\ pc[t] = "run" /\ Coherent(k, DyingIn(pc, arg))
      /\ Idle \in Thread /\ k.stat[Idle] = "READY"
      /\ \A u \in Range(k.susp["defunct"]) : k.stat[u] = "CLOSE"
  BY <1>0, Acting
<1> DEFINE off == DyingIn(pc, arg)
           h == [k EXCEPT !.prio[x] = InitPriority[x]]
           i == [h EXCEPT !.stat[x] = "SUSPEND"]
<1>3. x # t /\ x # Idle /\ x \notin off /\ pc[x] \notin {"exit", "exited"}
  <2>1. pc[k.cur] \notin Held
    BY <1>2 DEF Held
  <2> QED BY <1>1, <1>2, <2>1, DyingDead DEF CurOK, Core, PcOK
<1>4. Loose(k, x) /\ x \notin Range(k.tmr)
  <2>1. Loose(k, x)
    BY <1>1, <1>2, SuspendedLoose
  <2> QED BY <1>1, <1>2, <2>1 DEF Coherent, TimersArmed
<1>5. \A u \in Thread \ {t} : pc[u] \in Naming => arg[u] # x
  BY <1>1, <1>2, NotNamed
<1> HIDE DEF off
<1>6. /\ h \in KernelState /\ Coherent(h, off) /\ Loose(h, x) /\ h.tmr = k.tmr
      /\ Touches(k, h, x)
  <2>1. InitPriority[x] \in Priority
    BY KernelAssumption
  <2>2. k.stat[x] # "READY" /\ \A p \in Priority : x \notin Range(k.ready[p])
    BY <1>1, <1>4 DEF Loose
  <2>3. Coherent(k, off)
    BY <1>2 DEF off
  <2>4. /\ h \in KernelState /\ Coherent(h, off) /\ Touches(k, h, x)
        /\ h.stat = k.stat /\ h.ready = k.ready /\ h.susp = k.susp /\ h.tmr = k.tmr
    BY <1>2, <2>1, <2>2, <2>3, SetPriority
  <2> QED BY <1>4, <2>4 DEF Loose
<1>7. i = [k EXCEPT !.prio[x] = InitPriority[x], !.stat[x] = "SUSPEND"]
  BY <1>2 DEF KernelState
<1> HIDE DEF h
<1>8. /\ i \in KernelState /\ Coherent(i, off) /\ i.stat[x] = "SUSPEND" /\ Touches(h, i, x)
  <2>1. "SUSPEND" \in Status \ {"READY"}
    BY DEF Status
  <2>2. /\ i \in KernelState /\ Coherent(i, off \ {x}) /\ i.stat[x] = "SUSPEND"
        /\ Touches(h, i, x)
    BY <1>6, <2>1, SetStatus
  <2>3. off \ {x} = off
    BY <1>3
  <2> QED BY <2>2, <2>3
<1>9. k' = rt_thread_unsuspend(i, x)
  BY <1>1, <1>7
<1> HIDE DEF i
<1>10. /\ k' \in KernelState /\ Coherent(k', off) /\ Loose(k', x)
       /\ x \notin Range(k'.tmr) /\ k'.stat = i.stat /\ Touches(i, k', x)
  BY <1>8, <1>9, ThreadUnsuspend
<1>11. Touches(k, k', x)
  BY <1>6, <1>8, <1>10, TouchesTwice
<1>12. arg' \in [Thread -> Thread] /\ arg'[t] = x /\ \A u \in Thread \ {t} : arg'[u] = arg[u]
  BY <1>1, <1>2
<1>13. pc'[t] = "startup" /\ Moved(pc, arg, pc', arg', t)
  BY <1>0, <1>2, <1>12, GotoMoves DEF Label
<1>14. DyingIn(pc', arg') = off
  <2>1. pc[t] \notin {"delete", "close", "link", "free"} /\ pc'[t] \notin {"delete", "close", "link", "free"}
    BY <1>2, <1>13
  <2> QED BY <1>13, <2>1, DyingStays DEF off
<1>15. PcOK(k', pc', arg', t)
  BY <1>3, <1>8, <1>10, <1>12, <1>13, <1>14 DEF PcOK, Held
<1>16. Moves(k, pc, arg, k', pc', arg', t, x)
  <2>1. \A u \in Thread \ {t} : pc[u] \in Naming => arg[u] # arg'[t]
    BY <1>5, <1>12
  <2>2. x \notin Range(k'.susp["defunct"])
    BY <1>10, ThreadsAssumption DEF Loose
  <2>3. DyingIn(pc', arg') \subseteq DyingIn(pc, arg) \union ({x} \ {Idle})
    BY <1>14 DEF off
  <2> QED BY <1>3, <1>5, <1>11, <1>13, <2>1, <2>2, <2>3 DEF Moves
<1>17. Core(k', pc', arg')
  BY <1>2, <1>10, <1>14, <1>15, <1>16, StepKeeps
<1>18. CurOK(k', pc')
  BY <1>2, <1>3, <1>11 DEF CurOK, Touches
<1> QED BY <1>17, <1>18 DEF IInv
=============================================================================
