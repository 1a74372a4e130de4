--------------------------- MODULE ThreadsProofs ----------------------------
(***************************************************************************)
(* The end of a thread, the idle thread, the tick interrupt and the start  *)
(* of the system keep the invariant too, and the properties of Threads     *)
(* follow from it.                                                         *)
(***************************************************************************)
EXTENDS ThreadsCalls

\* Time limits of the leaves, in seconds, for the two provers in this order.
USE SMTT(30), ZenonT(30)

\* The dead thread goes on rt_thread_defunct, or stays on no list.
LEMMA DefunctPut ==
    ASSUME NEW j \in KernelState, NEW off, Coherent(j, off), NEW x \in Thread,
           Loose(j, x), j.stat[x] = "CLOSE"
    PROVE  LET r == Defunct(j, x)
           IN  /\ r \in KernelState /\ Coherent(r, off) /\ Touches(j, r, x)
               /\ r.stat = j.stat
<1>1. "defunct" \in SuspendList
  BY ThreadsAssumption
<1>2. CASE x \in Static \ Cleanup
  BY <1>2 DEF Defunct, Touches
<1>3. CASE x \notin Static \ Cleanup
  BY <1>1, <1>3, PutOnList DEF Defunct
<1> QED BY <1>2, <1>3

\* rt_thread_exit.
LEMMA ExitStep ==
    ASSUME IInv, Disciplined, NEW t \in Thread, Exit(t)
    PROVE  IInv'
<1> DEFINE off == DyingIn(pc, arg)
           h == rt_schedule_remove_thread(k, t)
           i == [h EXCEPT !.stat[t] = "CLOSE"]
           g == rt_timer_stop(i, t)
           y == rt_timer_stop(h, t)
           z == [y EXCEPT !.stat[t] = "CLOSE"]
<1>0. At(t, "run") /\ t # Idle /\ k.nest = 0 /\ k' = Defunct(g, t) /\ Goto(t, "exit") /\ arg' = arg
  BY DEF Exit, CallsFrom, MayBlock
<1>1. /\ Core(k, pc, arg) /\ CurOK(k, pc) /\ k \in KernelState /\ arg \in [Thread -> Thread]
      /\ k.cur = t /\ pc[t] = "run" /\ Coherent(k, off) /\ off = DyingIn(pc, arg)
      /\ k.stat[t] = "READY"
  BY <1>0, Acting DEF CurOK
<1>2. t \notin off
  <2>1. pc[k.cur] \notin Held
    BY <1>1 DEF Held
  <2> QED BY <1>1, <2>1, DyingDead
<1>3. \A u \in Thread \ {t} : pc[u] \in Naming => arg[u] # t
  BY <1>1, NotNamed
<1> HIDE DEF off
<1>4. /\ h \in KernelState /\ Coherent(h, off \union {t}) /\ Loose(h, t)
      /\ SameThreads(k, h) /\ Touches(k, h, t)
  BY <1>1, ScheduleRemove
<1> HIDE DEF h
<1>5. /\ y \in KernelState /\ Coherent(y, off \union {t}) /\ SameLists(h, y)
      /\ t \notin Range(y.tmr) /\ Touches(h, y, t)
  BY <1>4, TimerStop
<1>6. g = z
  BY <1>4, ZenonT(30) DEF rt_timer_stop, KernelState
<1> HIDE DEF y
<1>7. Loose(y, t)
  BY <1>4, <1>5 DEF Loose, SameLists
<1>8. /\ z \in KernelState /\ Coherent(z, off) /\ Loose(z, t) /\ z.stat[t] = "CLOSE"
      /\ Touches(y, z, t)
  <2>1. "CLOSE" \in Status \ {"READY"}
    BY DEF Status
  <2>2. /\ z \in KernelState /\ Coherent(z, (off \union {t}) \ {t}) /\ Loose(z, t)
        /\ z.stat[t] = "CLOSE" /\ Touches(y, z, t)
    BY <1>5, <1>7, <2>1, SetStatus
  <2>3. (off \union {t}) \ {t} = off
    BY <1>2
  <2> QED BY <2>2, <2>3
<1> HIDE DEF z, g
<1>9. /\ k' \in KernelState /\ Coherent(k', off) /\ Touches(z, k', t) /\ k'.stat = z.stat
  BY <1>0, <1>6, <1>8, DefunctPut
<1>10. Touches(k, k', t)
  BY <1>4, <1>5, <1>8, <1>9, TouchesTwice
<1>11. pc'[t] = "exit" /\ Moved(pc, arg, pc', arg', t)
  BY <1>0, <1>1, GotoMoves DEF Label
<1>12. DyingIn(pc', arg') = off
  <2>1. pc[t] \notin {"delete", "close", "link", "free"} /\ pc'[t] \notin {"delete", "close", "link", "free"}
    BY <1>1, <1>11
  <2> QED BY <1>11, <2>1, DyingStays DEF off
<1>13. PcOK(k', pc', arg', t)
  BY <1>8, <1>9, <1>11 DEF PcOK, Held
<1>14. Moves(k, pc, arg, k', pc', arg', t, t)
  <2>1. DyingIn(pc', arg') \subseteq DyingIn(pc, arg) \union ({t} \ {Idle})
    BY <1>12 DEF off
  <2>2. pc'[t] \notin Naming
    BY <1>11 DEF Naming
  <2> QED BY <1>0, <1>3, <1>8, <1>9, <1>10, <1>11, <2>1, <2>2 DEF Moves
<1>15. Core(k', pc', arg')
  BY <1>1, <1>9, <1>12, <1>13, <1>14, StepKeeps
<1>16. CurOK(k', pc')
  BY <1>0, <1>1, <1>8, <1>9, <1>10, <1>11 DEF CurOK, Touches
<1> QED BY <1>15, <1>16 DEF IInv

\* rt_thread_delete, off the lists.
LEMMA DeleteStep ==
    ASSUME IInv, Disciplined, NEW t \in Thread, Delete(t)
    PROVE  IInv'
<1> DEFINE off == DyingIn(pc, arg)
<1>0. At(t, "run") /\ Goto(t, "delete")
  BY DEF Delete, CallsFrom
<1>1. PICK x \in Thread \ {Idle, t} :
         /\ Alive(x) /\ Exclusive(x) /\ x \notin Range(k.tmr)
         /\ k' = rt_schedule_remove_thread(k, x) /\ arg' = [arg EXCEPT ![t] = x]
  BY ZenonT(30) DEF Delete
<1>2. /\ Core(k, pc, arg) /\ CurOK(k, pc) /\ k \in KernelState /\ arg \in [Thread -> Thread]
      /\ k.cur = t /\ pc[t] = "run" /\ Coherent(k, off) /\ Dying = off
  BY <1>0, Acting
<1>3. k.nest > 0 /\ x \notin Dying /\ x \notin Starting /\ k.stat[x] \in {"READY", "SUSPEND"}
  BY <1>1 DEF Alive, Exclusive
<1>4. \A u \in Thread \ {t} : pc[u] \in Naming => arg[u] # x
  BY <1>2, <1>3, NotNamed
<1> HIDE DEF off
<1>5. /\ k' \in KernelState /\ Coherent(k', off \union {x}) /\ Loose(k', x)
      /\ SameThreads(k, k') /\ Touches(k, k', x)
  BY <1>1, <1>2, ScheduleRemove
<1>6. arg' \in [Thread -> Thread] /\ arg'[t] = x /\ \A u \in Thread \ {t} : arg'[u] = arg[u]
  BY <1>1, <1>2
<1>7. pc'[t] = "delete" /\ Moved(pc, arg, pc', arg', t)
  BY <1>0, <1>2, <1>6, GotoMoves DEF Label
<1>8. DyingIn(pc', arg') = off \union {x}
  <2>1. /\ DyingIn(pc', arg') \subseteq off \union {x} /\ off \subseteq DyingIn(pc', arg')
        /\ x \in DyingIn(pc', arg')
    BY <1>2, <1>6, <1>7, DyingMoves DEF off
  <2> QED BY <2>1
<1>9. PcOK(k', pc', arg', t)
  <2>1. k'.cur = t /\ k'.nest > 0 /\ k'.stat[x] \in {"READY", "SUSPEND"}
        /\ x \notin Range(k'.tmr) /\ x # t
    BY <1>1, <1>2, <1>3, <1>5 DEF SameThreads
  <2> QED BY <1>5, <1>6, <1>7, <2>1 DEF PcOK, Held
<1>10. Moves(k, pc, arg, k', pc', arg', t, x)
  <2>1. x \notin Range(k'.susp["defunct"])
    BY <1>5, ThreadsAssumption DEF Loose
  <2>2. pc[x] \notin {"exit", "exited"} /\ x # Idle
    BY <1>1, <1>2, <1>3 DEF Core, PcOK
  <2>3. DyingIn(pc', arg') \subseteq DyingIn(pc, arg) \union ({x} \ {Idle})
    BY <1>8, <2>2 DEF off
  <2> QED BY <1>4, <1>5, <1>6, <1>7, <2>1, <2>2, <2>3 DEF Moves
<1>11. Core(k', pc', arg')
  BY <1>2, <1>5, <1>8, <1>9, <1>10, StepKeeps, ZenonT(30)
<1>12. CurOK(k', pc')
  BY <1>2, <1>3, <1>5 DEF CurOK, SameThreads
<1> QED BY <1>11, <1>12 DEF IInv

\* A thread that is being deleted has one deleter, and is not ending by itself.
LEMMA OnlyDeleter ==
    ASSUME Core(k, pc, arg), NEW t \in Thread, pc[t] \in {"delete", "close", "link"}
    PROVE  /\ \A u \in Thread \ {t} : pc[u] \in Naming => arg[u] # arg[t]
           /\ arg[t] \in DyingIn(pc, arg) /\ arg[t] # Idle
           /\ pc[t] # "link" => pc[arg[t]] \notin {"exit", "exited"}
<1>1. PcOK(k, pc, arg, t) /\ arg[t] \in Thread /\ arg[t] \in DyingIn(pc, arg)
  BY DEF Core, Types, DyingIn
<1>2. \A u \in Thread \ {t} : pc[u] \in Naming => arg[u] # arg[t]
  BY OnlyActor DEF Naming
<1>3. arg[t] # Idle
  BY <1>1 DEF Core
<1>4. ASSUME pc[t] # "link" PROVE pc[arg[t]] \notin {"exit", "exited"}
  <2>1. PcOK(k, pc, arg, arg[t])
    BY <1>1 DEF Core
  <2> QED BY <1>1, <1>4, <2>1 DEF PcOK
<1> QED BY <1>1, <1>2, <1>3, <1>4

\* rt_thread_delete, the timer.
LEMMA DetachTimerStep ==
    ASSUME IInv, NEW t \in Thread, DetachTimer(t)
    PROVE  IInv'
<1> DEFINE x == arg[t]
           off == DyingIn(pc, arg)
<1>0. At(t, "delete") /\ k' = rt_timer_stop(k, x) /\ Goto(t, "close") /\ arg' = arg
  BY DEF DetachTimer
<1>1. /\ Core(k, pc, arg) /\ CurOK(k, pc) /\ k \in KernelState /\ arg \in [Thread -> Thread]
      /\ k.cur = t /\ pc[t] = "delete" /\ Coherent(k, off) /\ PcOK(k, pc, arg, t)
  BY <1>0, Acting
<1>2. /\ x \in Thread /\ x # t /\ Loose(k, x) /\ k.nest > 0
      /\ k.stat[x] \in {"READY", "SUSPEND"}
  BY <1>1 DEF PcOK, Held
<1>3. /\ \A u \in Thread \ {t} : pc[u] \in Naming => arg[u] # x
      /\ x \in off /\ x # Idle /\ pc[x] \notin {"exit", "exited"}
  BY <1>1, OnlyDeleter
<1>4. arg'[t] = x /\ arg[t] = x
  BY <1>0
<1> HIDE DEF x, off
<1>5. /\ k' \in KernelState /\ Coherent(k', off) /\ SameLists(k, k')
      /\ x \notin Range(k'.tmr) /\ Touches(k, k', x)
  BY <1>0, <1>1, <1>2, TimerStop
<1>6. pc'[t] = "close" /\ Moved(pc, arg, pc', arg', t)
  BY <1>0, <1>1, GotoMoves DEF Label
<1>7. DyingIn(pc', arg') = off
  <2>1. /\ DyingIn(pc', arg') \subseteq off \union {x} /\ off \subseteq DyingIn(pc', arg') \union {x}
        /\ x \in DyingIn(pc', arg')
    BY <1>1, <1>4, <1>6, DyingMoves DEF off
  <2> QED BY <1>3, <2>1
<1>8. PcOK(k', pc', arg', t)
  <2>1. Loose(k', x) /\ k'.cur = t /\ k'.nest > 0 /\ k'.stat[x] \in {"READY", "SUSPEND"}
    BY <1>1, <1>2, <1>5 DEF Loose, SameLists
  <2> QED BY <1>2, <1>4, <1>5, <1>6, <2>1 DEF PcOK, Held
<1>9. Moves(k, pc, arg, k', pc', arg', t, x)
  <2>1. x \notin Range(k'.susp["defunct"])
    BY <1>2, <1>5, ThreadsAssumption DEF Loose, SameLists
  <2>2. DyingIn(pc', arg') \subseteq DyingIn(pc, arg) \union ({x} \ {Idle})
    BY <1>7 DEF off
  <2> QED BY <1>3, <1>4, <1>5, <1>6, <2>1, <2>2 DEF Moves
<1>10. Core(k', pc', arg')
  BY <1>1, <1>2, <1>5, <1>7, <1>8, <1>9, StepKeeps
<1>11. CurOK(k', pc')
  BY <1>1, <1>2, <1>5 DEF CurOK, SameLists
<1> QED BY <1>10, <1>11 DEF IInv

\* rt_thread_delete, the status.
LEMMA CloseStep ==
    ASSUME IInv, NEW t \in Thread, Close(t)
    PROVE  IInv'
<1> DEFINE x == arg[t]
           off == DyingIn(pc, arg)
<1>0. At(t, "close") /\ k' = [k EXCEPT !.stat[x] = "CLOSE"] /\ Goto(t, "link") /\ arg' = arg
  BY DEF Close
<1>1. /\ Core(k, pc, arg) /\ CurOK(k, pc) /\ k \in KernelState /\ arg \in [Thread -> Thread]
      /\ k.cur = t /\ pc[t] = "close" /\ Coherent(k, off) /\ PcOK(k, pc, arg, t)
  BY <1>0, Acting
<1>2. x \in Thread /\ x # t /\ Loose(k, x) /\ k.nest > 0 /\ x \notin Range(k.tmr)
  BY <1>1 DEF PcOK, Held
<1>3. /\ \A u \in Thread \ {t} : pc[u] \in Naming => arg[u] # x
      /\ x \in off /\ x # Idle
  BY <1>1, OnlyDeleter
<1>4. arg[t] = x /\ arg'[t] = x
  BY <1>0
<1> HIDE DEF x, off
<1>5. /\ k' \in KernelState /\ Coherent(k', off \ {x}) /\ Loose(k', x) /\ k'.stat[x] = "CLOSE"
      /\ Touches(k, k', x)
  <2>1. "CLOSE" \in Status \ {"READY"}
    BY DEF Status
  <2> QED BY <1>0, <1>1, <1>2, <2>1, SetStatus
<1>6. pc'[t] = "link" /\ Moved(pc, arg, pc', arg', t)
  BY <1>0, <1>1, GotoMoves DEF Label
<1>7. DyingIn(pc', arg') = off
  <2>1. /\ DyingIn(pc', arg') \subseteq off \union {x} /\ off \subseteq DyingIn(pc', arg') \union {x}
        /\ x \in DyingIn(pc', arg')
    BY <1>1, <1>4, <1>6, DyingMoves DEF off
  <2> QED BY <1>3, <2>1
<1>8. Coherent(k', DyingIn(pc', arg'))
  <2>1. \A u \in (Thread \intersect (off \ {x})) \ DyingIn(pc', arg') : k'.stat[u] # "READY"
    BY <1>7
  <2> QED BY <1>5, <2>1, SameCoherent
<1>9. PcOK(k', pc', arg', t)
  <2>1. k'.cur = t /\ k'.nest > 0
    BY <1>1, <1>2, <1>5 DEF Touches
  <2> QED BY <1>4, <1>5, <1>6, <2>1 DEF PcOK, Held
<1>10. Moves(k, pc, arg, k', pc', arg', t, x)
  <2>1. DyingIn(pc', arg') \subseteq DyingIn(pc, arg) \union ({x} \ {Idle})
    BY <1>7 DEF off
  <2> QED BY <1>3, <1>4, <1>5, <1>6, <2>1 DEF Moves
<1>11. Core(k', pc', arg')
  BY <1>1, <1>2, <1>5, <1>8, <1>9, <1>10, StepKeeps
<1>12. CurOK(k', pc')
  BY <1>1, <1>2, <1>5 DEF CurOK, Touches
<1> QED BY <1>11, <1>12 DEF IInv

\* rt_thread_delete, rt_thread_defunct.
LEMMA LinkDefunctStep ==
    ASSUME IInv, NEW t \in Thread, LinkDefunct(t)
    PROVE  IInv'
<1> DEFINE x == arg[t]
           off == DyingIn(pc, arg)
<1>0. At(t, "link") /\ k' = Defunct(k, x) /\ Goto(t, "run") /\ arg' = arg
  BY DEF LinkDefunct
<1>1. /\ Core(k, pc, arg) /\ CurOK(k, pc) /\ k \in KernelState /\ arg \in [Thread -> Thread]
      /\ k.cur = t /\ pc[t] = "link" /\ Coherent(k, off) /\ PcOK(k, pc, arg, t)
  BY <1>0, Acting
<1>2. x \in Thread /\ Loose(k, x) /\ k.stat[x] = "CLOSE" /\ k.nest > 0
  BY <1>1 DEF PcOK, Held
<1>3. /\ \A u \in Thread \ {t} : pc[u] \in Naming => arg[u] # x
      /\ x \in off /\ x # Idle
  BY <1>1, OnlyDeleter
<1>4. arg[t] = x
  OBVIOUS
<1> HIDE DEF x, off
<1>5. /\ k' \in KernelState /\ Coherent(k', off) /\ Touches(k, k', x) /\ k'.stat = k.stat
  BY <1>0, <1>1, <1>2, DefunctPut
<1>6. pc'[t] = "run" /\ Moved(pc, arg, pc', arg', t)
  BY <1>0, <1>1, GotoMoves DEF Label
<1>7. DyingIn(pc', arg') \subseteq off /\ off \subseteq DyingIn(pc', arg') \union {x}
  BY <1>1, <1>4, <1>6, DyingMoves DEF off
<1>8. Coherent(k', DyingIn(pc', arg'))
  <2>1. \A u \in (Thread \intersect off) \ DyingIn(pc', arg') : k'.stat[u] # "READY"
    BY <1>2, <1>5, <1>7
  <2> QED BY <1>5, <2>1, SameCoherent
<1>9. PcOK(k', pc', arg', t)
  BY <1>6, PlainOK DEF Plain
<1>10. Moves(k, pc, arg, k', pc', arg', t, x)
  <2>1. DyingIn(pc', arg') \subseteq DyingIn(pc, arg) \union ({x} \ {Idle})
    BY <1>7 DEF off
  <2>2. pc'[t] \notin Naming
    BY <1>6 DEF Naming
  <2> QED BY <1>2, <1>3, <1>5, <1>6, <2>1, <2>2 DEF Moves
<1>11. Core(k', pc', arg')
  BY <1>1, <1>2, <1>5, <1>8, <1>9, <1>10, StepKeeps
<1>12. CurOK(k', pc')
  BY <1>1, <1>2, <1>5 DEF CurOK, Touches
<1> QED BY <1>11, <1>12 DEF IInv

\* rt_thread_init and rt_thread_create.
LEMMA CreateStep ==
    ASSUME IInv, NEW t \in Thread, Create(t)
    PROVE  IInv'
<1> DEFINE off == DyingIn(pc, arg)
<1>0. At(t, "run") /\ arg' = arg
  BY SMTT(40) DEF Create, CallsFrom
<1>1. PICK x \in Thread \ {t} :
         /\ k.stat[x] = "CLOSE" /\ x \notin Dying /\ x \notin Range(k.susp["defunct"])
         /\ k' = [k EXCEPT !.stat[x] = "INIT", !.err[x] = "EOK",
                           !.prio[x] = InitPriority[x], !.slice[x] = InitTick[x]]
         /\ pc' = [pc EXCEPT ![x] = "run"]
  BY ZenonT(30) DEF Create
<1> DEFINE h == [k EXCEPT !.prio[x] = InitPriority[x]]
           i == [h EXCEPT !.stat[x] = "INIT"]
<1>2. /\ Core(k, pc, arg) /\ CurOK(k, pc) /\ k \in KernelState /\ arg \in [Thread -> Thread]
      /\ k.cur = t /\ pc[t] = "run" /\ Coherent(k, off) /\ Dying = off
      /\ k.stat[Idle] = "READY" /\ Idle \in Thread
      /\ \A u \in Range(k.susp["defunct"]) : k.stat[u] = "CLOSE"
  BY <1>0, Acting
<1>3. Loose(k, x) /\ x \notin Range(k.tmr) /\ x # Idle
  <2>1. Loose(k, x)
    BY <1>1, <1>2, SuspendedLoose
  <2> QED BY <1>1, <1>2, <2>1 DEF Coherent, TimersArmed
<1>4. \A u \in Thread \ {x} : pc[u] \in Naming => arg[u] # x
  <2>1. x \notin Starting
    BY <1>1, <1>2 DEF Starting, Core, PcOK
  <2>2. \A u \in Thread \ {t} : pc[u] \in Naming => arg[u] # x
    BY <1>1, <1>2, <2>1, NotNamed
  <2> QED BY <1>2, <2>2 DEF Naming
<1>5. pc[x] \notin {"delete", "close", "link", "free"}
  <2>1. PcOK(k, pc, arg, x)
    BY <1>2 DEF Core
  <2> QED BY <1>2, <1>3, <2>1 DEF PcOK, Held
<1> HIDE DEF off
<1>6. /\ h \in KernelState /\ Coherent(h, off) /\ Loose(h, x) /\ h.tmr = k.tmr
      /\ Touches(k, h, x)
  <2>1. InitPriority[x] \in Priority
    BY KernelAssumption
  <2>2. k.stat[x] # "READY" /\ \A p \in Priority : x \notin Range(k.ready[p])
    BY <1>1, <1>3 DEF Loose
  <2>3. /\ h \in KernelState /\ Coherent(h, off) /\ Touches(k, h, x)
        /\ h.stat = k.stat /\ h.ready = k.ready /\ h.susp = k.susp /\ h.tmr = k.tmr
    BY <1>2, <2>1, <2>2, SetPriority
  <2> QED BY <1>3, <2>3 DEF Loose
<1>7. /\ k' \in KernelState
      /\ k'.stat = i.stat /\ k'.prio = i.prio /\ k'.ready = i.ready /\ k'.group = i.group
      /\ k'.susp = i.susp /\ k'.tmr = i.tmr /\ k'.cur = i.cur /\ k'.nest = i.nest
      /\ k'.isr = i.isr
  <2>1. "INIT" \in Status /\ "EOK" \in Error /\ InitTick[x] \in Nat \ {0}
        /\ InitPriority[x] \in Priority
    BY KernelAssumption DEF Status, Error
  <2> QED BY <1>1, <1>2, <2>1, ZenonT(30) DEF KernelState
<1> HIDE DEF h
<1>8. /\ i \in KernelState /\ Coherent(i, off) /\ Loose(i, x) /\ Touches(h, i, x)
  <2>1. "INIT" \in Status \ {"READY"}
    BY DEF Status
  <2>2. x \notin Range(h.tmr)
    BY <1>3, <1>6
  <2>3. /\ i \in KernelState /\ Coherent(i, off \ {x}) /\ Loose(i, x) /\ Touches(h, i, x)
    BY <1>6, <2>1, <2>2, SetStatus
  <2>4. off \ {x} = off
    BY <1>1, <1>2
  <2> QED BY <2>3, <2>4
<1> HIDE DEF i
<1>9. Coherent(k', off)
  <2>1. \A u \in (Thread \intersect off) \ off : i.stat[u] # "READY"
    OBVIOUS
  <2> QED BY <1>7, <1>8, <2>1, SameCoherent
<1>10. Touches(k, k', x)
  <2>1. Touches(i, k', x)
    BY <1>7 DEF Touches
  <2> QED BY <1>6, <1>8, <2>1, TouchesTwice
<1>11. pc'[x] = "run" /\ Moved(pc, arg, pc', arg', x) /\ pc'[t] = pc[t]
  <2>1. pc \in [Thread -> Label] /\ "run" \in Label
    BY <1>2 DEF Core, Types, Label
  <2>2. pc' \in [Thread -> Label] /\ pc'[x] = "run" /\ \A u \in Thread \ {x} : pc'[u] = pc[u]
    BY <1>1, <2>1
  <2> QED BY <1>0, <1>1, <1>2, <2>2 DEF Moved
<1>12. DyingIn(pc', arg') = off
  <2>1. pc'[x] \notin {"delete", "close", "link", "free"}
    BY <1>11
  <2> QED BY <1>5, <1>11, <2>1, DyingStays DEF off
<1>13. PcOK(k', pc', arg', x)
  BY <1>11, PlainOK DEF Plain
<1>14. Moves(k, pc, arg, k', pc', arg', x, x)
  <2>1. DyingIn(pc', arg') \subseteq DyingIn(pc, arg) \union ({x} \ {Idle})
    BY <1>12 DEF off
  <2>2. x \notin Range(k'.susp["defunct"])
    BY <1>7, <1>8, ThreadsAssumption DEF Loose
  <2>3. pc'[x] \notin Naming
    BY <1>11 DEF Naming
  <2> QED BY <1>3, <1>4, <1>10, <1>11, <2>1, <2>2, <2>3 DEF Moves
<1>15. Core(k', pc', arg')
  BY <1>2, <1>7, <1>9, <1>12, <1>13, <1>14, StepKeeps
<1>16. CurOK(k', pc')
  BY <1>1, <1>2, <1>10, <1>11 DEF CurOK, Touches
<1> QED BY <1>15, <1>16 DEF IInv

\* The idle thread calls rt_thread_idle_excute.
LEMMA IdleExecuteStep ==
    ASSUME IInv, IdleExecute
    PROVE  IInv'
<1>0. At(Idle, "run") /\ Goto(Idle, "reap") /\ k' = k /\ arg' = arg /\ Idle \in Thread
  BY KernelAssumption DEF IdleExecute
<1>1. /\ Core(k, pc, arg) /\ CurOK(k, pc) /\ k \in KernelState /\ arg \in [Thread -> Thread]
      /\ k.cur = Idle /\ pc[Idle] = "run" /\ Coherent(k, DyingIn(pc, arg))
      /\ k.stat[Idle] = "READY"
  BY <1>0, Acting
<1>2. pc'[Idle] = "reap" /\ Moved(pc, arg, pc', arg', Idle)
  BY <1>0, <1>1, GotoMoves DEF Label
<1>3. DyingIn(pc', arg') = DyingIn(pc, arg)
  <2>1. pc[Idle] \notin {"delete", "close", "link", "free"} /\ pc'[Idle] \notin {"delete", "close", "link", "free"}
    BY <1>1, <1>2
  <2> QED BY <1>0, <1>2, <2>1, DyingStays
<1>4. PcOK(k', pc', arg', Idle)
  BY <1>2 DEF PcOK, Held
<1>5. Moves(k, pc, arg, k', pc', arg', Idle, Idle)
  <2>1. pc'[Idle] \notin Naming
    BY <1>2 DEF Naming
  <2> QED BY <1>0, <1>1, <1>2, <1>3, <2>1, IdleTouched DEF Moves
<1>6. Core(k', pc', arg')
  BY <1>0, <1>1, <1>3, <1>4, <1>5, StepKeeps
<1> QED BY <1>0, <1>1, <1>6 DEF IInv, CurOK

\* rt_thread_idle_excute frees a dead thread.
LEMMA FreeStep ==
    ASSUME IInv, Free
    PROVE  IInv'
<1>0. At(Idle, "free") /\ Goto(Idle, "reap") /\ k' = k /\ arg' = arg /\ Idle \in Thread
  BY KernelAssumption DEF Free
<1>1. /\ Core(k, pc, arg) /\ CurOK(k, pc) /\ k \in KernelState /\ arg \in [Thread -> Thread]
      /\ k.cur = Idle /\ pc[Idle] = "free" /\ Coherent(k, DyingIn(pc, arg))
      /\ k.stat[Idle] = "READY" /\ k.stat[arg[Idle]] = "CLOSE"
  BY <1>0, Acting DEF PcOK
<1>2. pc'[Idle] = "reap" /\ Moved(pc, arg, pc', arg', Idle)
  BY <1>0, <1>1, GotoMoves DEF Label
<1>3. /\ DyingIn(pc', arg') \subseteq DyingIn(pc, arg)
      /\ DyingIn(pc, arg) \subseteq DyingIn(pc', arg') \union {arg[Idle]}
  BY <1>0, <1>1, <1>2, DyingMoves
<1>4. PcOK(k', pc', arg', Idle)
  BY <1>2 DEF PcOK, Held
<1>5. Coherent(k', DyingIn(pc', arg'))
  <2>1. \A u \in (Thread \intersect DyingIn(pc, arg)) \ DyingIn(pc', arg') : k.stat[u] # "READY"
    BY <1>1, <1>3
  <2> QED BY <1>0, <1>1, <2>1, SameCoherent
<1>6. Moves(k, pc, arg, k', pc', arg', Idle, Idle)
  <2>1. DyingIn(pc', arg') \subseteq DyingIn(pc, arg) \union ({Idle} \ {Idle})
    BY <1>3
  <2>2. pc'[Idle] \notin Naming
    BY <1>2 DEF Naming
  <2> QED BY <1>0, <1>1, <1>2, <2>1, <2>2, IdleTouched DEF Moves
<1>7. Core(k', pc', arg')
  BY <1>0, <1>1, <1>4, <1>5, <1>6, StepKeeps
<1> QED BY <1>0, <1>1, <1>7 DEF IInv, CurOK

\* rt_thread_idle_excute takes a dead thread off rt_thread_defunct.
LEMMA ReapStep ==
    ASSUME IInv, Reap
    PROVE  IInv'
<1>0. At(Idle, "reap") /\ Idle \in Thread
  BY KernelAssumption DEF Reap
<1>1. /\ Core(k, pc, arg) /\ CurOK(k, pc) /\ k \in KernelState /\ arg \in [Thread -> Thread]
      /\ k.cur = Idle /\ pc[Idle] = "reap" /\ Coherent(k, DyingIn(pc, arg))
      /\ k.stat[Idle] = "READY"
      /\ \A u \in Range(k.susp["defunct"]) : k.stat[u] = "CLOSE"
  BY <1>0, Acting
<1>2. CASE k.susp["defunct"] = <<>>
  <2>1. Goto(Idle, "run") /\ k' = k /\ arg' = arg
    BY <1>2 DEF Reap
  <2>2. pc'[Idle] = "run" /\ Moved(pc, arg, pc', arg', Idle)
    BY <1>0, <1>1, <2>1, GotoMoves DEF Label
  <2>3. Core(k', pc', arg')
    <3>1. pc[Idle] \notin {"delete", "close", "link", "free"} /\ pc'[Idle] \in Plain
      BY <1>1, <2>2 DEF Plain
    <3> QED BY <1>0, <1>1, <2>1, <2>2, <3>1, IdleTouched, PlainStep
  <2> QED BY <1>1, <2>1, <2>3 DEF IInv, CurOK
<1>3. CASE k.susp["defunct"] # <<>>
  <2> DEFINE x == Head(k.susp["defunct"])
             l == IF x \in Static THEN "run" ELSE "free"
             off == DyingIn(pc, arg)
  <2>1. k' = rt_list_remove(k, x) /\ arg' = [arg EXCEPT ![Idle] = x] /\ Goto(Idle, l)
    BY <1>3 DEF Reap
  <2>2. x \in Thread /\ k.stat[x] = "CLOSE" /\ x # Idle
    <3>1. k.susp["defunct"] \in Seq(Thread)
      BY <1>1, ThreadsAssumption DEF KernelState
    <3>2. x \in Thread /\ x \in Range(k.susp["defunct"])
      BY <1>3, <3>1, HeadTailElements
    <3> QED BY <1>1, <3>2
  <2>3. \A u \in Thread \ {Idle} : pc[u] \in Naming => arg[u] # x
    <3> SUFFICES ASSUME NEW u \in Thread \ {Idle}, pc[u] \in Naming PROVE arg[u] # x
      OBVIOUS
    <3>1. PcOK(k, pc, arg, u)
      BY <1>1 DEF Core
    <3>2. pc[u] = "startup"
      BY <1>1, <3>1 DEF PcOK, Naming, Held
    <3> QED BY <2>2, <3>1, <3>2 DEF PcOK
  <2>4. l \in {"run", "free"} /\ l \in Label
    BY DEF Label
  <2> HIDE DEF x, l, off
  <2>5. /\ k' \in KernelState /\ Coherent(k', off) /\ Loose(k', x)
        /\ SameThreads(k, k') /\ Touches(k, k', x)
    <3>1. k.stat[x] # "READY" /\ Coherent(k, off)
      BY <1>1, <2>2 DEF off
    <3> QED BY <1>1, <2>1, <2>2, <3>1, Unlink
  <2>6. arg' \in [Thread -> Thread] /\ arg'[Idle] = x
        /\ \A u \in Thread \ {Idle} : arg'[u] = arg[u]
    BY <1>0, <1>1, <2>1, <2>2
  <2>7. pc'[Idle] = l /\ Moved(pc, arg, pc', arg', Idle)
    BY <1>0, <1>1, <2>1, <2>4, <2>6, GotoMoves, ZenonT(30)
  <2>8. DyingIn(pc', arg') \subseteq off \union {x} /\ off \subseteq DyingIn(pc', arg')
    <3>1. pc[Idle] \notin {"delete", "close", "link", "free"}
      BY <1>1
    <3> QED BY <1>0, <2>6, <2>7, <3>1, DyingMoves DEF off
  <2>9. Coherent(k', DyingIn(pc', arg'))
    <3>1. \A u \in (Thread \intersect off) \ DyingIn(pc', arg') : k'.stat[u] # "READY"
      BY <2>8
    <3> QED BY <2>5, <3>1, SameCoherent
  <2>10. PcOK(k', pc', arg', Idle)
    <3>1. k'.stat[x] = "CLOSE"
      BY <2>2, <2>5 DEF SameThreads
    <3> QED BY <2>4, <2>5, <2>6, <2>7, <3>1 DEF PcOK, Held
  <2>11. Moves(k, pc, arg, k', pc', arg', Idle, x)
    <3>1. k'.stat[x] = "CLOSE"
      BY <2>2, <2>5 DEF SameThreads
    <3>2. DyingIn(pc', arg') \subseteq DyingIn(pc, arg) \union ({x} \ {Idle})
      BY <2>2, <2>8 DEF off
    <3> QED BY <2>2, <2>3, <2>5, <2>6, <2>7, <3>1, <3>2 DEF Moves
  <2>12. Core(k', pc', arg')
    BY <1>0, <1>1, <2>2, <2>5, <2>9, <2>10, <2>11, StepKeeps, SMTT(40)
  <2>13. CurOK(k', pc')
    BY <1>1, <2>5 DEF CurOK, SameThreads
  <2> QED BY <2>12, <2>13 DEF IInv
<1> QED BY <1>2, <1>3

-----------------------------------------------------------------------------
(* The tick interrupt.                                                     *)

\* Nobody acts on the idle thread.
LEMMA IdleNotNamed ==
    ASSUME NEW j, NEW c, NEW a, Core(j, c, a)
    PROVE  /\ Idle \in Thread /\ j.stat[Idle] = "READY"
           /\ \A u \in Thread : c[u] \in Naming => a[u] # Idle
           /\ c[Idle] \notin {"exit", "exited"} /\ Idle \notin Range(j.susp["defunct"])
<1>1. Idle \in Thread /\ j.stat[Idle] = "READY" /\ Idle \notin DyingIn(c, a)
  BY KernelAssumption DEF Core
<1>2. ASSUME NEW u \in Thread, c[u] \in Naming PROVE a[u] # Idle
  <2>1. PcOK(j, c, a, u)
    BY DEF Core
  <2>2. c[u] \in {"delete", "close", "link", "free"} => a[u] \in DyingIn(c, a)
    BY DEF DyingIn
  <2> HIDE DEF DyingIn
  <2> QED BY <1>1, <1>2, <2>1, <2>2 DEF PcOK, Naming
<1>3. c[Idle] \notin {"exit", "exited"} /\ Idle \notin Range(j.susp["defunct"])
  BY <1>1 DEF Core, PcOK
<1> QED BY <1>1, <1>2, <1>3

\* The tick handler's own changes, to time and to the order within a list,
\* are not seen by the threads.
LEMMA TickKeeps ==
    ASSUME NEW j, NEW c, NEW a, Core(j, c, a), CurOK(j, c), NEW r \in KernelState,
           r.stat = j.stat, r.cur = j.cur, r.nest = j.nest,
           r.susp = j.susp, r.tmr = j.tmr,
           \A p \in Priority : Range(r.ready[p]) = Range(j.ready[p]),
           Coherent(r, DyingIn(c, a))
    PROVE  Core(r, c, a) /\ CurOK(r, c)
<1>1. ASSUME NEW u \in Thread PROVE PcOK(r, c, a, u)
  <2>1. PcOK(j, c, a, u)
    BY DEF Core
  <2>2. \A x : Loose(r, x) <=> Loose(j, x)
    BY DEF Loose
  <2> QED BY <2>1, <2>2 DEF PcOK
<1>2. Types(r, c, a)
  BY DEF Core, Types
<1> QED BY <1>1, <1>2 DEF Core, CurOK

\* A READY thread that runs is not being deleted.
LEMMA RunningNotDying ==
    ASSUME NEW j, NEW c, NEW a, Core(j, c, a), j.stat[j.cur] = "READY"
    PROVE  j.cur \notin DyingIn(c, a)
<1> SUFFICES ASSUME NEW u \in Thread, c[u] \in {"delete", "close", "link", "free"}, a[u] = j.cur
             PROVE  FALSE
  BY DEF DyingIn
<1>1. PcOK(j, c, a, u)
  BY DEF Core
<1> QED BY <1>1 DEF PcOK, Held

\* rt_tick_increase.
LEMMA TickStep ==
    ASSUME IInv, Tick
    PROVE  IInv'
<1> DEFINE t == k.cur
           off == DyingIn(pc, arg)
           L == [u \in Thread |-> IF k.left[u] = 0 THEN 0 ELSE k.left[u] - 1]
           j == [k EXCEPT !.isr = TRUE, !.left = L]
           g == [j EXCEPT !.slice[t] = InitTick[t]]
           h == [j EXCEPT !.slice[t] = @ - 1]
<1>1. /\ Core(k, pc, arg) /\ CurOK(k, pc) /\ k \in KernelState /\ Coherent(k, off)
      /\ t \in Thread
  BY DEF IInv, Core, Types, KernelState
<1>2. /\ k' = IF k.slice[t] = 1 THEN rt_thread_yield(g) ELSE h
      /\ pc' = pc /\ arg' = arg
  BY DEF Tick, rt_tick_increase
<1>3. k.slice[t] \in Nat \ {0} /\ L \in [Thread -> Nat] /\ InitTick[t] \in Nat \ {0}
  <2>1. k.slice \in [Thread -> Nat \ {0}] /\ k.left \in [Thread -> Nat]
    BY <1>1 DEF KernelState
  <2>2. \A u \in Thread : (IF k.left[u] = 0 THEN 0 ELSE k.left[u] - 1) \in Nat
    BY <2>1
  <2>3. L \in [Thread -> Nat]
    BY <2>2
  <2>4. InitTick[t] \in Nat \ {0}
    BY <1>1, KernelAssumption
  <2> QED BY <1>1, <2>1, <2>3, <2>4
<1> HIDE DEF L, off
<1>4. /\ j \in KernelState /\ j.slice = k.slice
      /\ j.stat = k.stat /\ j.cur = t /\ j.nest = k.nest /\ j.susp = k.susp /\ j.tmr = k.tmr
      /\ j.prio = k.prio /\ j.group = k.group /\ j.ready = k.ready
  BY <1>1, <1>3, ZenonT(30) DEF KernelState
<1> HIDE DEF j
<1>5. ASSUME NEW n \in Nat \ {0}
      PROVE  LET r == [j EXCEPT !.slice[t] = n]
             IN  r \in KernelState /\ Core(r, pc, arg) /\ CurOK(r, pc)
  <2> DEFINE r == [j EXCEPT !.slice[t] = n]
  <2>1. /\ r \in KernelState
        /\ r.stat = k.stat /\ r.cur = t /\ r.nest = k.nest /\ r.susp = k.susp /\ r.tmr = k.tmr
        /\ r.prio = k.prio /\ r.group = k.group /\ r.ready = k.ready
    BY <1>1, <1>4, ZenonT(30) DEF KernelState
  <2> HIDE DEF r
  <2>2. Coherent(r, off)
    <3>1. \A u \in (Thread \intersect off) \ off : k.stat[u] # "READY"
      OBVIOUS
    <3> QED BY <1>1, <2>1, <3>1, SameCoherent
  <2>3. Core(r, pc, arg) /\ CurOK(r, pc)
    BY <1>1, <2>1, <2>2, TickKeeps DEF off
  <2> QED BY <2>1, <2>3 DEF r
<1>6. CASE k.slice[t] # 1
  <2>1. k.slice[t] - 1 \in Nat \ {0}
    BY <1>3, <1>6
  <2>2. h = [j EXCEPT !.slice[t] = k.slice[t] - 1]
    BY <1>1, <1>4 DEF KernelState
  <2> HIDE DEF h
  <2>3. Core(h, pc, arg) /\ CurOK(h, pc)
    BY <1>5, <2>1, <2>2, ZenonT(30)
  <2> QED BY <1>2, <1>6, <2>3 DEF IInv
<1>7. CASE k.slice[t] = 1
  <2>1. g \in KernelState /\ Core(g, pc, arg) /\ CurOK(g, pc)
    BY <1>3, <1>5
  <2> HIDE DEF g
  <2>2. CASE ~Rotates(g)
    BY <1>2, <1>7, <2>1, <2>2 DEF rt_thread_yield, IInv
  <2>3. CASE Rotates(g)
    <3> DEFINE r == Rotate(g)
    <3>1. Coherent(g, DyingIn(pc, arg)) /\ g.cur \notin DyingIn(pc, arg)
      BY <2>1, <2>3, RunningNotDying DEF Rotates, Core
    <3>2. /\ r \in KernelState /\ Coherent(r, DyingIn(pc, arg))
          /\ r.stat = g.stat /\ r.cur = g.cur /\ r.nest = g.nest /\ r.tmr = g.tmr
          /\ r.susp = g.susp /\ \A p \in Priority : Range(r.ready[p]) = Range(g.ready[p])
      BY <2>1, <2>3, <3>1, RotateList
    <3> HIDE DEF r
    <3>3. Core(r, pc, arg) /\ CurOK(r, pc)
      BY <2>1, <3>2, TickKeeps
    <3>4. Core(rt_schedule(r), pc, arg) /\ CurOK(rt_schedule(r), pc)
      BY <3>3, ScheduleKeeps
    <3> QED BY <1>2, <1>7, <2>3, <3>4 DEF rt_thread_yield, IInv, r
  <2> QED BY <2>2, <2>3
<1> QED BY <1>6, <1>7

\* rt_timer_check.
LEMMA TimerCheckStep ==
    ASSUME IInv, TimerCheck
    PROVE  IInv'
<1> DEFINE off == DyingIn(pc, arg)
<1>1. /\ Core(k, pc, arg) /\ CurOK(k, pc) /\ k \in KernelState /\ Coherent(k, off)
      /\ k' = rt_timer_check(k) /\ pc' = pc /\ arg' = arg
  BY DEF IInv, Core, Types, TimerCheck
<1>2. CASE ~TimerDue(k)
  <2> DEFINE r == [k EXCEPT !.isr = FALSE]
  <2>1. /\ r \in KernelState
        /\ r.stat = k.stat /\ r.cur = k.cur /\ r.nest = k.nest /\ r.susp = k.susp
        /\ r.tmr = k.tmr /\ r.prio = k.prio /\ r.group = k.group /\ r.ready = k.ready
    BY <1>1, ZenonT(30) DEF KernelState
  <2>2. k' = r
    BY <1>1, <1>2 DEF rt_timer_check
  <2> HIDE DEF r, off
  <2>3. Coherent(r, off)
    <3>1. \A u \in (Thread \intersect off) \ off : k.stat[u] # "READY"
      OBVIOUS
    <3> QED BY <1>1, <2>1, <3>1, SameCoherent
  <2>4. Core(r, pc, arg) /\ CurOK(r, pc)
    BY <1>1, <2>1, <2>3, TickKeeps DEF off
  <2> QED BY <1>1, <2>2, <2>4 DEF IInv
<1>3. CASE TimerDue(k)
  <2> DEFINE x == Head(k.tmr)
             f == [k EXCEPT !.tmr = Tail(@)]
             g == [f EXCEPT !.err[x] = "ETIMEOUT"]
             h == rt_list_remove(g, x)
             i == rt_schedule_insert_thread(h, x)
  <2>1. k' = rt_schedule(i)
    BY <1>1, <1>3 DEF rt_timer_check, rt_thread_timeout
  <2>2. k.tmr # <<>>
    BY <1>3 DEF TimerDue
  <2> HIDE DEF off
  <2>3. /\ x \in Thread /\ x \in Range(k.tmr) /\ k.stat[x] = "SUSPEND"
        /\ f \in KernelState /\ Coherent(f, off) /\ SameLists(k, f)
        /\ x \notin Range(f.tmr) /\ Touches(k, f, x)
    BY <1>1, <2>2, PopTimer, ZenonT(30)
  <2> HIDE DEF x
  <2>4. \A u \in Thread : pc[u] \in Naming => arg[u] # x
    <3> TAKE u \in Thread
    <3>1. PcOK(k, pc, arg, u)
      BY <1>1 DEF Core
    <3> QED BY <2>3, <3>1 DEF PcOK, Naming
  <2>5. x \notin off /\ x # Idle /\ pc[x] \notin {"exit", "exited"}
    <3>1. x \notin off
      BY <2>4 DEF off, DyingIn, Naming
    <3>2. PcOK(k, pc, arg, x)
      BY <1>1, <2>3 DEF Core
    <3> QED BY <1>1, <2>3, <3>1, <3>2, IdleNotNamed DEF PcOK
  <2> HIDE DEF f
  <2>6. /\ g \in KernelState
        /\ g.stat = f.stat /\ g.cur = f.cur /\ g.nest = f.nest /\ g.susp = f.susp
        /\ g.tmr = f.tmr /\ g.prio = f.prio /\ g.group = f.group /\ g.ready = f.ready
        /\ g.isr = f.isr
    <3>1. "ETIMEOUT" \in Error
      BY DEF Error
    <3> QED BY <2>3, <3>1, ZenonT(30) DEF KernelState
  <2> HIDE DEF g
  <2>7. Coherent(g, off) /\ Touches(f, g, x) /\ g.stat[x] # "READY" /\ x \notin Range(g.tmr)
    <3>1. \A u \in (Thread \intersect off) \ off : f.stat[u] # "READY"
      OBVIOUS
    <3>2. Coherent(g, off)
      BY <2>3, <2>6, <3>1, SameCoherent
    <3>3. Touches(f, g, x)
      BY <2>6 DEF Touches
    <3> QED BY <2>3, <2>6, <3>2, <3>3 DEF SameLists
  <2>8. /\ h \in KernelState /\ Coherent(h, off) /\ Loose(h, x)
        /\ x \notin Range(h.tmr) /\ Touches(g, h, x)
    <3>1. /\ h \in KernelState /\ Coherent(h, off) /\ Loose(h, x)
          /\ SameThreads(g, h) /\ Touches(g, h, x)
      BY <2>3, <2>6, <2>7, Unlink
    <3> QED BY <2>7, <3>1 DEF SameThreads
  <2> HIDE DEF h
  <2>9. /\ i \in KernelState /\ Coherent(i, off) /\ i.stat[x] = "READY" /\ Touches(h, i, x)
    <3>1. /\ i \in KernelState /\ Coherent(i, off \ {x}) /\ i.stat[x] = "READY"
          /\ Touches(h, i, x)
      BY <2>3, <2>8, ScheduleInsert
    <3>2. off \ {x} = off
      BY <2>5
    <3> QED BY <3>1, <3>2
  <2> HIDE DEF i
  <2>10. Touches(k, i, x)
    BY <2>3, <2>7, <2>8, <2>9, TouchesTwice, SMTT(40)
  <2>11. Core(i, pc, arg)
    <3>1. x \notin Range(i.susp["defunct"])
      BY <2>9, ThreadsAssumption DEF Coherent, NodesLinkedOnce
    <3>2. Coherent(i, DyingIn(pc, arg))
      BY <2>9 DEF off
    <3> QED BY <1>1, <2>3, <2>4, <2>5, <2>9, <2>10, <3>1, <3>2, StillKeeps
  <2>12. CurOK(i, pc)
    <3>1. i.cur = k.cur /\ i.nest = k.nest /\ k.cur \in Thread
      BY <1>1, <2>10 DEF Touches, KernelState
    <3>2. CASE k.cur = x
      BY <2>9, <3>1, <3>2 DEF CurOK
    <3>3. CASE k.cur # x
      BY <1>1, <2>10, <3>1, <3>3 DEF CurOK, Touches
    <3> QED BY <3>2, <3>3
  <2>13. Core(rt_schedule(i), pc, arg) /\ CurOK(rt_schedule(i), pc)
    BY <2>11, <2>12, ScheduleKeeps
  <2> QED BY <1>1, <2>1, <2>13 DEF IInv
<1> QED BY <1>2, <1>3

-----------------------------------------------------------------------------
(* System start.                                                           *)

\* rt_system_scheduler_start.
LEMMA InitOK == Init => IInv
<1> SUFFICES ASSUME Init PROVE IInv
  OBVIOUS
<1>1. PICK R \in ReadyTables(Booted) : k = rt_system_scheduler_start(R)
  BY DEF Init
<1> DEFINE j == [stat  |-> [t \in Thread |-> IF t \in Booted THEN "READY" ELSE "INIT"],
                 prio  |-> InitPriority,
                 err   |-> [t \in Thread |-> "EOK"],
                 slice |-> InitTick,
                 ready |-> R,
                 group |-> {p \in Priority : R[p] # <<>>},
                 cur   |-> Idle,
                 nest  |-> 0,
                 susp  |-> [q \in SuspendList |-> <<>>],
                 tmr   |-> <<>>,
                 left  |-> [t \in Thread |-> 0],
                 isr   |-> FALSE]
<1>2. k = rt_schedule(j)
  BY <1>1 DEF rt_system_scheduler_start
<1>3. pc = [t \in Thread |-> "run"] /\ arg = [t \in Thread |-> t]
  BY DEF Init
<1>4. ASSUME NEW p \in Priority
      PROVE  R[p] \in Seq(Thread) /\ IsInjective(R[p]) /\ Range(R[p]) = StartedAt(Booted, p)
  <2>1. R[p] \in Orders(StartedAt(Booted, p))
    BY <1>1 DEF ReadyTables
  <2>2. IsInjective(R[p]) /\ Range(R[p]) = StartedAt(Booted, p)
    BY <2>1 DEF Orders
  <2>3. PICK n \in 0 .. Cardinality(StartedAt(Booted, p)) : R[p] \in [1 .. n -> StartedAt(Booted, p)]
    BY <2>1 DEF Orders
  <2>4. StartedAt(Booted, p) \subseteq Thread /\ n \in Nat
    BY <2>3, KernelAssumption DEF StartedAt
  <2>5. R[p] \in [1 .. n -> Thread]
    BY <2>3, <2>4
  <2> QED BY <2>2, <2>4, <2>5
<1>5. R \in [Priority -> Seq(Thread)]
  <2>1. R = [p \in Priority |-> R[p]]
    BY <1>1 DEF ReadyTables
  <2> QED BY <1>4, <2>1
<1>6. j \in KernelState
  <2>1. /\ j.stat \in [Thread -> Status] /\ j.err \in [Thread -> Error]
        /\ Idle \in Thread /\ InitPriority \in [Thread -> Priority]
        /\ InitTick \in [Thread -> Nat \ {0}]
    BY KernelAssumption DEF Status, Error
  <2>2. <<>> \in Seq(Thread)
    OBVIOUS
  <2>3. j.susp \in [SuspendList -> Seq(Thread)]
    BY <2>2
  <2>4. j.left \in [Thread -> Nat]
    OBVIOUS
  <2>5. j.group \in SUBSET Priority
    BY SMTT(40)
  <2> QED BY <1>5, <2>1, <2>2, <2>3, <2>4, <2>5, SMTT(90) DEF KernelState
<1>7. /\ \A t \in Thread : j.stat[t] = IF t \in Booted THEN "READY" ELSE "INIT"
      /\ j.prio = InitPriority /\ j.ready = R /\ j.group = {p \in Priority : R[p] # <<>>}
      /\ j.cur = Idle /\ j.nest = 0 /\ j.tmr = <<>>
      /\ \A q \in SuspendList : j.susp[q] = <<>>
  OBVIOUS
<1> HIDE DEF j
<1>8. Range(<<>>) = {} /\ IsInjective(<<>>)
  BY DEF Range, IsInjective
<1>9. DyingIn(pc, arg) = {}
  BY <1>3 DEF DyingIn
<1>10. Coherent(j, {})
  <2>1. ReadyAgrees(j, {})
    <3>1. ASSUME NEW p \in Priority, NEW t \in Range(j.ready[p])
          PROVE  j.stat[t] = "READY" /\ j.prio[t] = p
      BY <1>4, <1>7, <3>1, KernelAssumption DEF StartedAt
    <3>2. ASSUME NEW t \in Thread, j.stat[t] = "READY"
          PROVE  t \in Range(j.ready[j.prio[t]])
      BY <1>4, <1>7, <3>2, KernelAssumption DEF StartedAt
    <3> QED BY <1>7, <3>1, <3>2 DEF ReadyAgrees
  <2>2. NodesLinkedOnce(j)
    BY <1>4, <1>7, <1>8 DEF NodesLinkedOnce
  <2>3. TimersArmed(j)
    BY <1>7, <1>8 DEF TimersArmed
  <2> QED BY <2>1, <2>2, <2>3 DEF Coherent
<1>11. Core(j, pc, arg)
  <2>1. pc \in [Thread -> Label] /\ arg \in [Thread -> Thread] /\ \A t \in Thread : pc[t] = "run"
    BY <1>3 DEF Label
  <2>2. Types(j, pc, arg)
    BY <1>6, <1>7, <2>1, ThreadsAssumption DEF Types
  <2>3. j.stat[Idle] = "READY"
    BY <1>7, KernelAssumption
  <2>4. \A t \in Range(j.susp["defunct"]) : j.stat[t] = "CLOSE"
    BY <1>7, <1>8, ThreadsAssumption
  <2>5. \A u \in Thread : PcOK(j, pc, arg, u)
    BY <2>1, PlainOK DEF Plain
  <2>6. OneActor(pc, arg)
    BY <2>1 DEF OneActor, Naming
  <2> QED BY <1>9, <1>10, <2>2, <2>3, <2>4, <2>5, <2>6 DEF Core
<1> QED BY <1>2, <1>7, <1>11, ScheduleKeeps DEF IInv

-----------------------------------------------------------------------------
(* The theorems.                                                           *)

\* Every step of a disciplined application, of the idle thread and of the tick
\* interrupt keeps the invariant.
THEOREM NextKeeps == ASSUME Disciplined PROVE IInv /\ [Next]_vars => IInv'
<1> SUFFICES ASSUME IInv, [Next]_vars PROVE IInv'
  OBVIOUS
<1>1. CASE UNCHANGED vars
  <2>1. k' = k /\ pc' = pc /\ arg' = arg
    BY <1>1 DEF vars
  <2> QED BY <2>1 DEF IInv
<1>2. ASSUME NEW t \in Thread, Step(t) PROVE IInv'
  BY <1>2, ScheduleStep, YieldStep, SleptStep, EnterCriticalStep, ExitCriticalStep,
     ChangePriorityStep, SuspendStep, SuspendSectionStep, ResumeStep, ResumeSectionStep,
     InsertStep, StartupStep, ExitStep, DeleteStep, DetachTimerStep, CloseStep,
     LinkDefunctStep, CreateStep
  DEF Step
<1>3. ASSUME NEW t \in Thread, NEW n \in 0 .. MaxTime, Sleep(t, n) PROVE IInv'
  <2>1. n \in Nat
    BY KernelAssumption
  <2> QED BY <1>3, <2>1, SleepStep
<1>4. CASE IdleExecute \/ Reap \/ Free
  BY <1>4, IdleExecuteStep, ReapStep, FreeStep
<1>5. CASE Tick \/ TimerCheck
  BY <1>5, TickStep, TimerCheckStep
<1> QED BY <1>1, <1>2, <1>3, <1>4, <1>5 DEF Next

\* The inductive invariant holds of every reachable state.
THEOREM Inductive == ASSUME Disciplined PROVE Spec => []IInv
<1>1. IInv /\ [Next]_vars => IInv'
  BY NextKeeps
<1> QED BY <1>1, InitOK, PTL DEF Spec

\* The kernel state is well typed: rt_scheduler_lock_nest does not go below zero
\* and the lists hold threads.
THEOREM TypeCorrect == ASSUME Disciplined PROVE Spec => []TypeOK
<1>1. IInv => TypeOK
  BY DEF IInv, Core, Types, TypeOK
<1> QED BY <1>1, Inductive, PTL

\* The ready table, its bitmap and the status of the threads agree, so that
\* rt_schedule always finds a thread.
THEOREM ReadyTableAgrees == ASSUME Disciplined PROVE Spec => []ReadyTable
<1>1. IInv => ReadyTable
  BY DEF IInv, Core, Coherent, ReadyTable, Dying, DyingIn
<1> QED BY <1>1, Inductive, PTL

\* No list node is linked twice: rt_list_insert never corrupts a list.
THEOREM NodeLinkedOnce == ASSUME Disciplined PROVE Spec => []LinkedOnce
<1>1. IInv => LinkedOnce
  BY DEF IInv, Core, Coherent, LinkedOnce
<1> QED BY <1>1, Inductive, PTL

\* The assertion of rt_thread_timeout never fails.
THEOREM TimeoutAssertion == ASSUME Disciplined PROVE Spec => []TimersSuspended
<1>1. IInv => TimersSuspended
  BY DEF IInv, Core, Coherent, TimersSuspended
<1> QED BY <1>1, Inductive, PTL

\* rt_thread_exit does not return.
THEOREM ExitIsFinal == ASSUME Disciplined PROVE Spec => []DeadNeverRun
<1>1. IInv => DeadNeverRun
  BY DEF IInv, Core, Types, KernelState, PcOK, CurOK, DeadNeverRun
<1> QED BY <1>1, Inductive, PTL
=============================================================================
