---------------------------- MODULE KernelProofs ----------------------------
(***************************************************************************)
(* What the kernel functions do to a coherent kernel state: one in which   *)
(* the ready table, the lists and the timers agree with the status of the  *)
(* threads. Each lemma is about one function of Kernel, for every set of   *)
(* threads, number of priorities and set of suspend lists; the proofs      *)
(* about the modules that extend Kernel put them together.                 *)
(***************************************************************************)
EXTENDS Kernel, ListLemmas

\* Time limits of the leaves, in seconds, for the two provers in this order.
USE SMTT(30), ZenonT(30)

\* The kernel state holds together; the threads of off are READY without
\* being in the ready table.
Coherent(j, off) == ReadyAgrees(j, off) /\ NodesLinkedOnce(j) /\ TimersArmed(j)

\* Thread t is on no list.
Loose(j, t) ==
    /\ \A p \in Priority : t \notin Range(j.ready[p])
    /\ \A q \in SuspendList : t \notin Range(j.susp[q])

\* r differs from j in the lists only.
SameThreads(j, r) ==
    /\ r.stat = j.stat /\ r.prio = j.prio /\ r.err = j.err /\ r.slice = j.slice
    /\ r.cur = j.cur /\ r.nest = j.nest /\ r.isr = j.isr
    /\ r.tmr = j.tmr /\ r.left = j.left

\* r differs from j in the timers only.
SameLists(j, r) ==
    /\ r.stat = j.stat /\ r.prio = j.prio /\ r.err = j.err /\ r.slice = j.slice
    /\ r.cur = j.cur /\ r.nest = j.nest /\ r.isr = j.isr
    /\ r.ready = j.ready /\ r.group = j.group /\ r.susp = j.susp

\* r differs from j in the current thread only.
OnlyCur(j, r) ==
    /\ r.stat = j.stat /\ r.prio = j.prio /\ r.err = j.err /\ r.slice = j.slice
    /\ r.nest = j.nest /\ r.isr = j.isr /\ r.tmr = j.tmr /\ r.left = j.left
    /\ r.ready = j.ready /\ r.group = j.group /\ r.susp = j.susp

\* r differs from j in what concerns thread t only: its status, its place on
\* the lists and its timer.
Touches(j, r, t) ==
    /\ r.cur = j.cur /\ r.nest = j.nest /\ r.isr = j.isr
    /\ \A u \in Thread \ {t} :
          /\ r.stat[u] = j.stat[u]
          /\ u \in Range(r.tmr) <=> u \in Range(j.tmr)
          /\ \A p \in Priority : u \in Range(r.ready[p]) <=> u \in Range(j.ready[p])
          /\ \A q \in SuspendList : u \in Range(r.susp[q]) <=> u \in Range(j.susp[q])

-----------------------------------------------------------------------------

\* Coherence is about the status, the priorities, the lists and the timer list.
LEMMA SameCoherent ==
    ASSUME NEW j, NEW r, NEW off, NEW out,
           r.stat = j.stat, r.prio = j.prio, r.ready = j.ready, r.group = j.group,
           r.susp = j.susp, r.tmr = j.tmr, Coherent(j, off),
           \A t \in (Thread \intersect off) \ out : j.stat[t] # "READY"
    PROVE  Coherent(r, out)
<1>1. \A t \in Thread \ out : r.stat[t] = "READY" => t \in Range(r.ready[r.prio[t]])
  <2> SUFFICES ASSUME NEW t \in Thread \ out, j.stat[t] = "READY"
               PROVE  t \in Range(j.ready[j.prio[t]])
    OBVIOUS
  <2>1. t \in Thread \ off
    OBVIOUS
  <2> QED BY <2>1 DEF Coherent, ReadyAgrees
<1>2. /\ \A p \in Priority : \A t \in Range(r.ready[p]) : r.stat[t] = "READY" /\ r.prio[t] = p
      /\ r.group = {p \in Priority : r.ready[p] # <<>>}
  BY DEF Coherent, ReadyAgrees
<1>3. NodesLinkedOnce(r) /\ TimersArmed(r)
  BY DEF Coherent, NodesLinkedOnce, TimersArmed
<1> QED BY <1>1, <1>2, <1>3 DEF Coherent, ReadyAgrees

\* Only threads are on the lists.
LEMMA ListsOfThreads ==
    ASSUME NEW j \in KernelState
    PROVE  /\ \A p \in Priority : Range(j.ready[p]) \subseteq Thread
           /\ \A q \in SuspendList : Range(j.susp[q]) \subseteq Thread
           /\ Range(j.tmr) \subseteq Thread
<1>1. ASSUME NEW p \in Priority PROVE Range(j.ready[p]) \subseteq Thread
  <2>1. j.ready[p] \in Seq(Thread)
    BY DEF KernelState
  <2> QED BY <2>1, RangePick
<1>2. ASSUME NEW q \in SuspendList PROVE Range(j.susp[q]) \subseteq Thread
  <2>1. j.susp[q] \in Seq(Thread)
    BY DEF KernelState
  <2> QED BY <2>1, RangePick
<1>3. Range(j.tmr) \subseteq Thread
  <2>1. j.tmr \in Seq(Thread)
    BY DEF KernelState
  <2> QED BY <2>1, RangePick
<1> QED BY <1>1, <1>2, <1>3

\* rt_list_remove takes the thread off its list, whichever it is on.
LEMMA ListRemove ==
    ASSUME NEW j \in KernelState, NodesLinkedOnce(j), NEW t \in Thread
    PROVE  LET r == rt_list_remove(j, t)
           IN  /\ r \in KernelState
               /\ SameThreads(j, r) /\ r.group = j.group
               /\ \A p \in Priority : /\ IsInjective(r.ready[p])
                                      /\ Range(r.ready[p]) = Range(j.ready[p]) \ {t}
               /\ \A q \in SuspendList : /\ IsInjective(r.susp[q])
                                         /\ Range(r.susp[q]) = Range(j.susp[q]) \ {t}
<1> DEFINE r == rt_list_remove(j, t)
<1>1. \A p \in Priority : /\ Without(j.ready[p], t) \in Seq(Thread)
                          /\ IsInjective(Without(j.ready[p], t))
                          /\ Range(Without(j.ready[p], t)) = Range(j.ready[p]) \ {t}
  <2> TAKE p \in Priority
  <2>1. j.ready[p] \in Seq(Thread) /\ IsInjective(j.ready[p])
    BY DEF KernelState, NodesLinkedOnce
  <2> QED BY <2>1, WithoutElements, Zenon
<1>2. \A q \in SuspendList : /\ Without(j.susp[q], t) \in Seq(Thread)
                             /\ IsInjective(Without(j.susp[q], t))
                             /\ Range(Without(j.susp[q], t)) = Range(j.susp[q]) \ {t}
  <2> TAKE q \in SuspendList
  <2>1. j.susp[q] \in Seq(Thread) /\ IsInjective(j.susp[q])
    BY DEF KernelState, NodesLinkedOnce
  <2> QED BY <2>1, WithoutElements, Zenon
<1>3. r.ready = [p \in Priority |-> Without(j.ready[p], t)]
      /\ r.susp = [q \in SuspendList |-> Without(j.susp[q], t)]
      /\ SameThreads(j, r) /\ r.group = j.group
      /\ r = [j EXCEPT !.ready = r.ready, !.susp = r.susp]
  BY DEF rt_list_remove, KernelState, SameThreads
<1>4. r \in KernelState
  <2>1. [p \in Priority |-> Without(j.ready[p], t)] \in [Priority -> Seq(Thread)]
    BY <1>1, Zenon
  <2>2. [q \in SuspendList |-> Without(j.susp[q], t)] \in [SuspendList -> Seq(Thread)]
    BY <1>2, Zenon
  <2> HIDE DEF r
  <2> QED BY <1>3, <2>1, <2>2, ZenonT(30) DEF KernelState
<1> HIDE DEF r
<1>5. \A p \in Priority : r.ready[p] = Without(j.ready[p], t)
  BY <1>3, Zenon
<1>6. \A q \in SuspendList : r.susp[q] = Without(j.susp[q], t)
  BY <1>3, Zenon
<1> QED BY <1>1, <1>2, <1>3, <1>4, <1>5, <1>6, ZenonT(30) DEF r

\* rt_schedule_remove_thread leaves the thread on no list, and the bit of its
\* priority is right afterwards: a READY thread can only have been on the list
\* of its own priority.
LEMMA ScheduleRemove ==
    ASSUME NEW j \in KernelState, NEW off, Coherent(j, off), NEW t \in Thread
    PROVE  LET r == rt_schedule_remove_thread(j, t)
           IN  /\ r \in KernelState /\ Coherent(r, off \union {t}) /\ Loose(r, t)
               /\ SameThreads(j, r) /\ Touches(j, r, t)
<1> DEFINE i == rt_list_remove(j, t)
           r == rt_schedule_remove_thread(j, t)
<1>0. ReadyAgrees(j, off) /\ NodesLinkedOnce(j) /\ TimersArmed(j)
  BY DEF Coherent
<1>1. /\ i \in KernelState
      /\ \A p \in Priority : /\ IsInjective(i.ready[p])
                             /\ Range(i.ready[p]) = Range(j.ready[p]) \ {t}
      /\ \A q \in SuspendList : /\ IsInjective(i.susp[q])
                                /\ Range(i.susp[q]) = Range(j.susp[q]) \ {t}
  BY <1>0, ListRemove, ZenonT(30)
<1>2. SameThreads(j, i) /\ i.group = j.group
  BY <1>0, ListRemove
<1>3. r = [i EXCEPT !.group = IF i.ready[i.prio[t]] = <<>>
                              THEN @ \ {i.prio[t]} ELSE @]
  BY DEF rt_schedule_remove_thread
<1> HIDE DEF i, r
<1>4. SameThreads(j, r) /\ r.ready = i.ready /\ r.susp = i.susp
  BY <1>1, <1>2, <1>3 DEF KernelState, SameThreads
<1>5. r.group = IF i.ready[j.prio[t]] = <<>> THEN j.group \ {j.prio[t]} ELSE j.group
  BY <1>1, <1>2, <1>3 DEF KernelState, SameThreads
<1>6. r \in KernelState
  BY <1>1, <1>2, <1>3, ZenonT(30) DEF KernelState, SameThreads
<1>7. \A p \in Priority : \A u \in Range(r.ready[p]) : r.stat[u] = "READY" /\ r.prio[u] = p
  BY <1>0, <1>1, <1>4 DEF ReadyAgrees, SameThreads
<1>8. \A u \in Thread \ (off \union {t}) :
         r.stat[u] = "READY" => u \in Range(r.ready[r.prio[u]])
  <2> TAKE u \in Thread \ (off \union {t})
  <2>1. r.prio[u] \in Priority
    BY <1>6 DEF KernelState
  <2>2. u \in Thread \ off /\ u # t
    OBVIOUS
  <2>3. j.stat[u] = "READY" => u \in Range(j.ready[j.prio[u]])
    BY <1>0, <2>2 DEF ReadyAgrees
  <2>4. r.stat = j.stat /\ r.prio = j.prio /\ r.ready = i.ready
    BY <1>4 DEF SameThreads
  <2> HIDE DEF ReadyAgrees
  <2> QED BY <1>1, <2>1, <2>2, <2>3, <2>4
<1>9. r.group = {p \in Priority : r.ready[p] # <<>>}
  <2>1. ASSUME NEW p \in Priority PROVE p \in r.group <=> r.ready[p] # <<>>
    <3>1. j.group = {x \in Priority : j.ready[x] # <<>>}
      BY <1>0 DEF ReadyAgrees
    <3>2. /\ i.ready[p] \in Seq(Thread) /\ j.ready[p] \in Seq(Thread)
          /\ j.prio[t] \in Priority
      BY <1>1 DEF KernelState
    <3>3. CASE p = j.prio[t]
      <4>1. j.ready[p] = <<>> => i.ready[p] = <<>>
        BY <1>1, <3>2, EmptyElements, ZenonT(30)
      <4> QED BY <1>4, <1>5, <3>1, <3>3, <4>1
    <3>4. CASE p # j.prio[t]
      <4>1. t \notin Range(j.ready[p])
        BY <1>0, <3>4 DEF ReadyAgrees
      <4>2. Range(i.ready[p]) = Range(j.ready[p])
        BY <1>1, <4>1
      <4>3. j.ready[p] = <<>> <=> i.ready[p] = <<>>
        BY <3>2, <4>2, EmptyElements
      <4> QED BY <1>4, <1>5, <3>1, <3>4, <4>3
    <3> QED BY <3>3, <3>4
  <2>2. r.group \subseteq Priority
    BY <1>6 DEF KernelState
  <2> QED BY <2>1, <2>2
<1>10. NodesLinkedOnce(r)
  BY <1>0, <1>1, <1>4 DEF NodesLinkedOnce, SameThreads
<1>11. TimersArmed(r)
  BY <1>0, <1>4 DEF TimersArmed, SameThreads
<1>12. Loose(r, t)
  BY <1>1, <1>4 DEF Loose
<1>13. Touches(j, r, t)
  BY <1>1, <1>4 DEF Touches, SameThreads
<1> QED
  BY <1>4, <1>6, <1>7, <1>8, <1>9, <1>10, <1>11, <1>12, <1>13
  DEF Coherent, ReadyAgrees, r

\* rt_schedule_insert_thread, of a thread that is on no list and has no timer,
\* makes it READY and puts it in the ready table.
LEMMA ScheduleInsert ==
    ASSUME NEW j \in KernelState, NEW off, Coherent(j, off), NEW t \in Thread,
           Loose(j, t), t \notin Range(j.tmr)
    PROVE  LET r == rt_schedule_insert_thread(j, t)
           IN  /\ r \in KernelState /\ Coherent(r, off \ {t})
               /\ r.stat[t] = "READY" /\ t \in Range(r.ready[r.prio[t]])
               /\ Touches(j, r, t)
<1> DEFINE r == rt_schedule_insert_thread(j, t)
           pt == j.prio[t]
<1>0. ReadyAgrees(j, off) /\ NodesLinkedOnce(j) /\ TimersArmed(j)
  BY DEF Coherent
<1>1. /\ pt \in Priority /\ j.ready[pt] \in Seq(Thread) /\ IsInjective(j.ready[pt])
      /\ t \notin Range(j.ready[pt])
  BY <1>0 DEF KernelState, Loose, NodesLinkedOnce
<1>2. /\ Append(j.ready[pt], t) \in Seq(Thread) /\ Append(j.ready[pt], t) # <<>>
      /\ IsInjective(Append(j.ready[pt], t))
      /\ Range(Append(j.ready[pt], t)) = Range(j.ready[pt]) \union {t}
  BY <1>1, AppendElements
<1>3. /\ r.stat = [j.stat EXCEPT ![t] = "READY"]
      /\ r.prio = j.prio /\ r.err = j.err /\ r.slice = j.slice
      /\ r.cur = j.cur /\ r.nest = j.nest /\ r.isr = j.isr
      /\ r.tmr = j.tmr /\ r.left = j.left /\ r.susp = j.susp
      /\ r.ready = [j.ready EXCEPT ![pt] = Append(j.ready[pt], t)]
      /\ r.group = j.group \union {pt}
  BY DEF rt_schedule_insert_thread, KernelState
<1>4. r \in KernelState
  <2>1. r = [j EXCEPT !.stat = [j.stat EXCEPT ![t] = "READY"],
                      !.ready = [j.ready EXCEPT ![pt] = Append(j.ready[pt], t)],
                      !.group = j.group \union {pt}]
    BY DEF rt_schedule_insert_thread, KernelState
  <2>2. [j.stat EXCEPT ![t] = "READY"] \in [Thread -> Status]
    BY DEF KernelState, Status
  <2>3. [j.ready EXCEPT ![pt] = Append(j.ready[pt], t)] \in [Priority -> Seq(Thread)]
    BY <1>1, <1>2 DEF KernelState
  <2>4. j.group \union {pt} \in SUBSET Priority
    BY <1>1 DEF KernelState
  <2> HIDE DEF r, pt
  <2> QED BY <2>1, <2>2, <2>3, <2>4, ZenonT(30) DEF KernelState
<1> HIDE DEF r, pt
<1>5. \A p \in Priority : r.ready[p] = IF p = pt THEN Append(j.ready[pt], t) ELSE j.ready[p]
  BY <1>1, <1>3 DEF KernelState
<1>6. \A u \in Thread : r.stat[u] = IF u = t THEN "READY" ELSE j.stat[u]
  BY <1>3 DEF KernelState
<1>7. \A p \in Priority : Range(r.ready[p]) = Range(j.ready[p]) \union (IF p = pt THEN {t} ELSE {})
  BY <1>2, <1>5
<1>8. \A p \in Priority : Range(j.ready[p]) \subseteq Thread
  <2> TAKE p \in Priority
  <2>1. j.ready[p] \in Seq(Thread)
    BY DEF KernelState
  <2> QED BY <2>1, RangePick
<1>9. \A p \in Priority : \A u \in Range(r.ready[p]) : r.stat[u] = "READY" /\ r.prio[u] = p
  <2> SUFFICES ASSUME NEW p \in Priority, NEW u \in Range(r.ready[p])
               PROVE  r.stat[u] = "READY" /\ r.prio[u] = p
    OBVIOUS
  <2>1. CASE u = t
    <3>1. p = pt
      BY <1>7, <2>1 DEF Loose
    <3> QED BY <1>3, <1>6, <2>1, <3>1 DEF pt
  <2>2. CASE u # t
    <3>1. u \in Range(j.ready[p])
      BY <1>7, <2>2
    <3>2. j.stat[u] = "READY" /\ j.prio[u] = p
      BY <1>0, <3>1 DEF ReadyAgrees
    <3> QED BY <1>3, <1>6, <1>8, <2>2, <3>1, <3>2
  <2> QED BY <2>1, <2>2
<1>10. \A u \in Thread \ (off \ {t}) :
         r.stat[u] = "READY" => u \in Range(r.ready[r.prio[u]])
  <2> SUFFICES ASSUME NEW u \in Thread \ (off \ {t}), r.stat[u] = "READY"
               PROVE  u \in Range(r.ready[r.prio[u]])
    OBVIOUS
  <2>0. r.prio[u] \in Priority /\ r.prio[u] = j.prio[u]
    BY <1>3, <1>4 DEF KernelState
  <2>1. CASE u = t
    BY <1>7, <2>0, <2>1 DEF pt
  <2>2. CASE u # t
    <3>1. u \in Thread \ off /\ j.stat[u] = "READY"
      BY <1>6, <2>2
    <3>2. u \in Range(j.ready[j.prio[u]])
      BY <1>0, <3>1 DEF ReadyAgrees
    <3> QED BY <1>7, <2>0, <3>2
  <2> QED BY <2>1, <2>2
<1>11. r.group = {p \in Priority : r.ready[p] # <<>>}
  <2>1. j.group = {p \in Priority : j.ready[p] # <<>>}
    BY <1>0 DEF ReadyAgrees
  <2>2. \A p \in Priority : r.ready[p] # <<>> <=> p = pt \/ j.ready[p] # <<>>
    BY <1>2, <1>5, ZenonT(30)
  <2> QED BY <1>1, <1>3, <2>1, <2>2
<1>12. NodesLinkedOnce(r)
  <2>1. \A p \in Priority : IsInjective(r.ready[p])
    BY <1>0, <1>2, <1>5 DEF NodesLinkedOnce
  <2>2. \A q \in SuspendList : \A u \in Range(r.susp[q]) : r.stat[u] # "READY"
    <3> SUFFICES ASSUME NEW q \in SuspendList, NEW u \in Range(r.susp[q])
                 PROVE  r.stat[u] # "READY"
      OBVIOUS
    <3>1. u \in Range(j.susp[q]) /\ u # t
      BY <1>3 DEF Loose
    <3>2. u \in Thread
      <4>1. j.susp[q] \in Seq(Thread)
        BY DEF KernelState
      <4> QED BY <3>1, <4>1, RangePick
    <3> QED BY <1>0, <1>6, <3>1, <3>2 DEF NodesLinkedOnce
  <2> QED BY <1>0, <1>3, <2>1, <2>2 DEF NodesLinkedOnce
<1>13. TimersArmed(r)
  <2>1. \A u \in Range(j.tmr) : u \in Thread /\ u # t
    <3>1. j.tmr \in Seq(Thread)
      BY DEF KernelState
    <3> QED BY <3>1, RangePick
  <2> QED BY <1>0, <1>3, <1>6, <2>1 DEF TimersArmed
<1>14. Touches(j, r, t)
  BY <1>3, <1>6, <1>7 DEF Touches
<1>15. r.stat[t] = "READY" /\ t \in Range(r.ready[r.prio[t]])
  BY <1>1, <1>3, <1>6, <1>7, ZenonT(30) DEF pt
<1> QED
  BY <1>4, <1>9, <1>10, <1>11, <1>12, <1>13, <1>14, <1>15
  DEF Coherent, ReadyAgrees, r

-----------------------------------------------------------------------------

\* rt_timer_stop disarms the timer of one thread.
LEMMA TimerStop ==
    ASSUME NEW j \in KernelState, NEW off, Coherent(j, off), NEW t \in Thread
    PROVE  LET r == rt_timer_stop(j, t)
           IN  /\ r \in KernelState /\ Coherent(r, off) /\ SameLists(j, r)
               /\ t \notin Range(r.tmr) /\ Touches(j, r, t)
               /\ Range(r.tmr) = Range(j.tmr) \ {t}
<1> DEFINE r == rt_timer_stop(j, t)
<1>1. j.tmr \in Seq(Thread) /\ IsInjective(j.tmr)
  BY DEF KernelState, Coherent, TimersArmed
<1>2. /\ Without(j.tmr, t) \in Seq(Thread) /\ IsInjective(Without(j.tmr, t))
      /\ Range(Without(j.tmr, t)) = Range(j.tmr) \ {t}
  BY <1>1, WithoutElements
<1>3. SameLists(j, r) /\ r.tmr = Without(j.tmr, t) /\ r.left = [j.left EXCEPT ![t] = 0]
  BY DEF rt_timer_stop, KernelState, SameLists
<1>4. r \in KernelState
  <2>1. r = [j EXCEPT !.tmr = Without(j.tmr, t), !.left = [j.left EXCEPT ![t] = 0]]
    BY DEF rt_timer_stop, KernelState
  <2>2. [j.left EXCEPT ![t] = 0] \in [Thread -> Nat]
    BY DEF KernelState
  <2> HIDE DEF r
  <2> QED BY <1>2, <2>1, <2>2, ZenonT(30) DEF KernelState
<1> HIDE DEF r
<1>5. ReadyAgrees(r, off) /\ NodesLinkedOnce(r)
  BY <1>3 DEF Coherent, ReadyAgrees, NodesLinkedOnce, SameLists
<1>6. TimersArmed(r)
  BY <1>2, <1>3 DEF Coherent, TimersArmed, SameLists
<1>7. Touches(j, r, t)
  BY <1>2, <1>3 DEF Touches, SameLists
<1> QED BY <1>2, <1>3, <1>4, <1>5, <1>6, <1>7 DEF Coherent, r

\* rt_timer_start arms the timer of a suspended thread.
LEMMA TimerStart ==
    ASSUME NEW j \in KernelState, NEW off, Coherent(j, off), NEW t \in Thread,
           j.stat[t] = "SUSPEND", NEW n \in Nat
    PROVE  LET r == rt_timer_start(j, t, n)
           IN  /\ r \in KernelState /\ Coherent(r, off) /\ SameLists(j, r)
               /\ Touches(j, r, t)
<1> DEFINE i == rt_timer_stop(j, t)
           r == rt_timer_start(j, t, n)
           I == {x \in 1 .. Len(i.tmr) : i.left[i.tmr[x]] > n}
           m == Min(I)
           s == IF I = {} THEN Append(i.tmr, t) ELSE InsertAt(i.tmr, m, t)
<1>1. /\ i \in KernelState /\ Coherent(i, off) /\ SameLists(j, i)
      /\ Range(i.tmr) = Range(j.tmr) \ {t}
  BY TimerStop
<1>2. r = [i EXCEPT !.tmr = s, !.left = [i.left EXCEPT ![t] = n]]
  BY <1>1 DEF rt_timer_start, InsertBefore, KernelState
<1> HIDE DEF i, r
<1>3. i.tmr \in Seq(Thread) /\ IsInjective(i.tmr) /\ t \notin Range(i.tmr)
  BY <1>1 DEF KernelState, Coherent, TimersArmed
<1>4. I # {} => m \in 1 .. Len(i.tmr) + 1
  <2>1. Len(i.tmr) \in Nat /\ I \in SUBSET Nat
    BY <1>3
  <2>2. I # {} => Min(I) \in I
    BY <2>1, MinOfNats, ZenonT(30)
  <2> QED BY <2>1, <2>2
<1> HIDE DEF m, I
<1>5. s \in Seq(Thread) /\ IsInjective(s) /\ Range(s) = Range(i.tmr) \union {t}
  <2>1. CASE I = {}
    BY <1>3, <2>1, AppendElements
  <2>2. CASE I # {}
    BY <1>3, <1>4, <2>2, InsertAtElements
  <2> QED BY <2>1, <2>2
<1> HIDE DEF s
<1>6. SameLists(i, r) /\ r.tmr = s
  BY <1>1, <1>2 DEF KernelState, SameLists
<1>7. r \in KernelState
  <2>1. [i.left EXCEPT ![t] = n] \in [Thread -> Nat]
    BY <1>1 DEF KernelState
  <2> QED BY <1>1, <1>2, <1>5, <2>1, ZenonT(30) DEF KernelState
<1>8. SameLists(j, r)
  BY <1>1, <1>6 DEF SameLists
<1>9. ReadyAgrees(r, off) /\ NodesLinkedOnce(r)
  BY <1>1, <1>6 DEF Coherent, ReadyAgrees, NodesLinkedOnce, SameLists
<1>10. TimersArmed(r)
  BY <1>1, <1>5, <1>6, <1>8 DEF Coherent, TimersArmed, SameLists
<1>11. Touches(j, r, t)
  BY <1>1, <1>5, <1>6, <1>8 DEF Touches, SameLists
<1> QED BY <1>7, <1>8, <1>9, <1>10, <1>11 DEF Coherent, r

-----------------------------------------------------------------------------

\* rt_schedule finds a thread: the idle thread is always ready. The thread it
\* switches to is READY and in the ready table.
LEMMA Scheduled ==
    ASSUME NEW j \in KernelState, NEW off, Coherent(j, off), Idle \notin off,
           j.stat[Idle] = "READY"
    PROVE  LET r == rt_schedule(j)
           IN  /\ r \in KernelState /\ Coherent(r, off)
               /\ OnlyCur(j, r)
               /\ IF j.nest = 0 THEN /\ j.stat[r.cur] = "READY"
                                     /\ r.cur \in Range(j.ready[j.prio[r.cur]])
                                ELSE r = j
<1> DEFINE r == rt_schedule(j)
           h == Min(j.group)
<1>1. ReadyAgrees(j, off) /\ Idle \in Thread \ off /\ RT_THREAD_PRIORITY_MAX \in Nat \ {0}
  BY KernelAssumption DEF Coherent
<1>2. j.prio[Idle] \in Priority /\ Idle \in Range(j.ready[j.prio[Idle]])
  BY <1>1 DEF KernelState, ReadyAgrees
<1>3. j.prio[Idle] \in j.group
  <2>1. j.ready[j.prio[Idle]] \in Seq(Thread)
    BY <1>2 DEF KernelState
  <2>2. j.ready[j.prio[Idle]] # <<>>
    BY <1>2, <2>1, EmptyElements
  <2> QED BY <1>1, <1>2, <2>2 DEF ReadyAgrees
<1>4. h \in j.group
  <2>1. j.group \in SUBSET Nat /\ j.group # {}
    BY <1>3 DEF KernelState, Priority
  <2> QED BY <2>1, MinOfNats
<1> HIDE DEF h
<1>5. h \in Priority /\ j.ready[h] # <<>> /\ j.ready[h] \in Seq(Thread)
  BY <1>1, <1>4 DEF ReadyAgrees, KernelState
<1>6. Head(j.ready[h]) \in Thread /\ Head(j.ready[h]) \in Range(j.ready[h])
  BY <1>5, HeadTailElements
<1>7. j.stat[Head(j.ready[h])] = "READY" /\ j.prio[Head(j.ready[h])] = h
  BY <1>1, <1>5, <1>6 DEF ReadyAgrees
<1>8. r = IF j.nest = 0 THEN [j EXCEPT !.cur = Head(j.ready[h])] ELSE j
  BY DEF rt_schedule, HighestReady, h
<1> HIDE DEF r
<1>9. r \in KernelState
  BY <1>6, <1>8, ZenonT(30) DEF KernelState
<1>10. OnlyCur(j, r)
  BY <1>6, <1>8 DEF KernelState, OnlyCur
<1>11. Coherent(r, off)
  <2>1. /\ r.stat = j.stat /\ r.prio = j.prio /\ r.ready = j.ready
        /\ r.group = j.group /\ r.susp = j.susp /\ r.tmr = j.tmr
    BY <1>8 DEF KernelState
  <2> QED BY <2>1, SameCoherent
<1>12. IF j.nest = 0 THEN j.stat[r.cur] = "READY" /\ r.cur \in Range(j.ready[j.prio[r.cur]])
                     ELSE r = j
  <2>1. j.nest = 0 => r.cur = Head(j.ready[h])
    BY <1>8 DEF KernelState
  <2> QED BY <1>6, <1>7, <1>8, <2>1
<1> QED BY <1>9, <1>10, <1>11, <1>12 DEF r

-----------------------------------------------------------------------------

\* Two functions that touch thread t, one after the other, touch thread t.
LEMMA TouchesTwice ==
    ASSUME NEW i, NEW j, NEW r, NEW t, Touches(i, j, t), Touches(j, r, t)
    PROVE  Touches(i, r, t)
  BY DEF Touches

\* A thread that is on no list and has no timer may change its status.
LEMMA SetStatus ==
    ASSUME NEW j \in KernelState, NEW off, Coherent(j, off), NEW t \in Thread,
           Loose(j, t), NEW s \in Status \ {"READY"},
           s = "SUSPEND" \/ t \notin Range(j.tmr)
    PROVE  LET r == [j EXCEPT !.stat[t] = s]
           IN  /\ r \in KernelState /\ Coherent(r, off \ {t}) /\ Loose(r, t)
               /\ r.stat[t] = s /\ r.tmr = j.tmr /\ Touches(j, r, t)
<1> DEFINE r == [j EXCEPT !.stat[t] = s]
<1>1. /\ r.prio = j.prio /\ r.ready = j.ready /\ r.group = j.group /\ r.susp = j.susp
      /\ r.tmr = j.tmr /\ r.cur = j.cur /\ r.nest = j.nest /\ r.isr = j.isr
      /\ \A u \in Thread : r.stat[u] = IF u = t THEN s ELSE j.stat[u]
      /\ r \in KernelState
  BY ZenonT(30) DEF KernelState
<1> HIDE DEF r
<1>2. /\ \A p \in Priority : Range(j.ready[p]) \subseteq Thread \ {t}
      /\ \A q \in SuspendList : Range(j.susp[q]) \subseteq Thread \ {t}
      /\ Range(j.tmr) \subseteq Thread
  BY ListsOfThreads DEF Loose
<1>3. ReadyAgrees(r, off \ {t})
  <2>1. \A p \in Priority : \A u \in Range(r.ready[p]) : r.stat[u] = "READY" /\ r.prio[u] = p
    BY <1>1, <1>2 DEF Coherent, ReadyAgrees
  <2>2. ASSUME NEW u \in Thread \ (off \ {t}), r.stat[u] = "READY"
        PROVE  u \in Range(r.ready[r.prio[u]])
    <3>1. u \in Thread \ off /\ j.stat[u] = "READY"
      BY <1>1, <2>2
    <3> QED BY <1>1, <3>1 DEF Coherent, ReadyAgrees
  <2>3. r.group = {p \in Priority : r.ready[p] # <<>>}
    BY <1>1 DEF Coherent, ReadyAgrees
  <2> QED BY <2>1, <2>2, <2>3 DEF ReadyAgrees
<1>4. NodesLinkedOnce(r)
  BY <1>1, <1>2 DEF Coherent, NodesLinkedOnce
<1>5. TimersArmed(r)
  BY <1>1, <1>2 DEF Coherent, TimersArmed
<1>6. Loose(r, t) /\ Touches(j, r, t)
  BY <1>1 DEF Loose, Touches
<1> QED BY <1>1, <1>3, <1>4, <1>5, <1>6 DEF Coherent, r

\* A thread that is not in the ready table may change its priority.
LEMMA SetPriority ==
    ASSUME NEW j \in KernelState, NEW off, Coherent(j, off), NEW t \in Thread,
           NEW pr \in Priority, j.stat[t] # "READY" \/ t \in off,
           \A p \in Priority : t \notin Range(j.ready[p])
    PROVE  LET r == [j EXCEPT !.prio[t] = pr]
           IN  /\ r \in KernelState /\ Coherent(r, off)
               /\ r.stat = j.stat /\ r.ready = j.ready /\ r.susp = j.susp /\ r.tmr = j.tmr
               /\ Touches(j, r, t)
<1> DEFINE r == [j EXCEPT !.prio[t] = pr]
<1>1. /\ r.stat = j.stat /\ r.ready = j.ready /\ r.group = j.group /\ r.susp = j.susp
      /\ r.tmr = j.tmr /\ r.cur = j.cur /\ r.nest = j.nest /\ r.isr = j.isr
      /\ \A u \in Thread : r.prio[u] = IF u = t THEN pr ELSE j.prio[u]
      /\ r \in KernelState
  BY ZenonT(30) DEF KernelState
<1> HIDE DEF r
<1>2. \A p \in Priority : Range(j.ready[p]) \subseteq Thread \ {t}
  BY ListsOfThreads
<1>3. ReadyAgrees(r, off)
  <2>1. \A p \in Priority : \A u \in Range(r.ready[p]) : r.stat[u] = "READY" /\ r.prio[u] = p
    BY <1>1, <1>2 DEF Coherent, ReadyAgrees
  <2>2. ASSUME NEW u \in Thread \ off, r.stat[u] = "READY"
        PROVE  u \in Range(r.ready[r.prio[u]])
    <3>1. u # t /\ u \in Range(j.ready[j.prio[u]])
      BY <1>1, <2>2 DEF Coherent, ReadyAgrees
    <3> QED BY <1>1, <3>1
  <2>3. r.group = {p \in Priority : r.ready[p] # <<>>}
    BY <1>1 DEF Coherent, ReadyAgrees
  <2> QED BY <2>1, <2>2, <2>3 DEF ReadyAgrees
<1>4. NodesLinkedOnce(r) /\ TimersArmed(r)
  BY <1>1 DEF Coherent, NodesLinkedOnce, TimersArmed
<1>5. Touches(j, r, t)
  BY <1>1 DEF Touches
<1> QED BY <1>1, <1>3, <1>4, <1>5 DEF Coherent, r

\* The section of rt_thread_suspend: the thread is suspended, on no list and
\* without timer.
LEMMA ThreadBlock ==
    ASSUME NEW j \in KernelState, NEW off, Coherent(j, off), NEW t \in Thread
    PROVE  LET r == rt_thread_block(j, t)
           IN  /\ r \in KernelState /\ Coherent(r, off \ {t}) /\ Loose(r, t)
               /\ r.stat[t] = "SUSPEND" /\ t \notin Range(r.tmr)
               /\ r.prio = j.prio /\ Touches(j, r, t)
<1> DEFINE i == rt_schedule_remove_thread(j, t)
           h == [i EXCEPT !.stat[t] = "SUSPEND"]
           r == rt_thread_block(j, t)
<1>1. /\ i \in KernelState /\ Coherent(i, off \union {t}) /\ Loose(i, t)
      /\ SameThreads(j, i) /\ Touches(j, i, t)
  BY ScheduleRemove
<1>2. rt_schedule_remove_thread([j EXCEPT !.stat[t] = "SUSPEND"], t) = h
  BY ZenonT(40) DEF rt_schedule_remove_thread, rt_list_remove, KernelState
<1>3. r = rt_timer_stop(h, t)
  BY <1>2 DEF rt_thread_block
<1> HIDE DEF i
<1>4. /\ h \in KernelState /\ Coherent(h, (off \union {t}) \ {t}) /\ Loose(h, t)
      /\ h.stat[t] = "SUSPEND" /\ Touches(i, h, t)
  <2>1. "SUSPEND" \in Status \ {"READY"}
    BY DEF Status
  <2> QED BY <1>1, <2>1, SetStatus
<1>5. h.prio = j.prio
  BY <1>1 DEF KernelState, SameThreads
<1> HIDE DEF h, r
<1>6. Coherent(h, off \ {t})
  BY <1>4
<1>7. /\ r \in KernelState /\ Coherent(r, off \ {t}) /\ SameLists(h, r)
      /\ t \notin Range(r.tmr) /\ Touches(h, r, t)
  BY <1>3, <1>4, <1>6, TimerStop
<1>8. Touches(j, r, t)
  BY <1>1, <1>4, <1>7, TouchesTwice
<1>9. Loose(r, t) /\ r.stat[t] = "SUSPEND" /\ r.prio = j.prio
  BY <1>4, <1>5, <1>7 DEF SameLists, Loose
<1> QED BY <1>7, <1>8, <1>9 DEF r

\* rt_list_remove of a thread that is not READY leaves the ready table alone.
LEMMA Unlink ==
    ASSUME NEW j \in KernelState, NEW off, Coherent(j, off), NEW t \in Thread,
           j.stat[t] # "READY"
    PROVE  LET i == rt_list_remove(j, t)
           IN  /\ i \in KernelState /\ Coherent(i, off) /\ Loose(i, t)
               /\ SameThreads(j, i) /\ Touches(j, i, t)
<1> DEFINE i == rt_list_remove(j, t)
<1>1. /\ i \in KernelState /\ SameThreads(j, i) /\ i.group = j.group
      /\ \A p \in Priority : /\ IsInjective(i.ready[p])
                             /\ Range(i.ready[p]) = Range(j.ready[p]) \ {t}
      /\ \A q \in SuspendList : /\ IsInjective(i.susp[q])
                                /\ Range(i.susp[q]) = Range(j.susp[q]) \ {t}
  BY ListRemove DEF Coherent
<1> HIDE DEF i
<1>2. \A p \in Priority : t \notin Range(j.ready[p])
  BY DEF Coherent, ReadyAgrees
<1>3. \A p \in Priority : Range(i.ready[p]) = Range(j.ready[p])
  BY <1>1, <1>2, ZenonT(30)
<1>4. \A p \in Priority : i.ready[p] # <<>> <=> j.ready[p] # <<>>
  <2> TAKE p \in Priority
  <2>1. i.ready[p] \in Seq(Thread) /\ j.ready[p] \in Seq(Thread)
    BY <1>1 DEF KernelState
  <2> QED BY <1>3, <2>1, EmptyElements
<1>5. ReadyAgrees(i, off)
  <2>1. \A p \in Priority : \A u \in Range(i.ready[p]) : i.stat[u] = "READY" /\ i.prio[u] = p
    BY <1>1, <1>3 DEF Coherent, ReadyAgrees, SameThreads
  <2>2. ASSUME NEW u \in Thread \ off, i.stat[u] = "READY"
        PROVE  u \in Range(i.ready[i.prio[u]])
    <3>1. j.prio[u] \in Priority /\ u \in Range(j.ready[j.prio[u]])
      BY <1>1, <2>2 DEF Coherent, ReadyAgrees, SameThreads, KernelState
    <3> QED BY <1>1, <1>3, <3>1 DEF SameThreads
  <2>3. i.group = {p \in Priority : i.ready[p] # <<>>}
    BY <1>1, <1>4 DEF Coherent, ReadyAgrees
  <2> QED BY <2>1, <2>2, <2>3 DEF ReadyAgrees
<1>6. NodesLinkedOnce(i) /\ TimersArmed(i)
  BY <1>1 DEF Coherent, NodesLinkedOnce, TimersArmed, SameThreads
<1>7. Loose(i, t) /\ Touches(j, i, t)
  BY <1>1, ZenonT(30) DEF Loose, Touches, SameThreads
<1> QED BY <1>1, <1>5, <1>6, <1>7 DEF Coherent, i

\* The first section of rt_thread_resume, on a thread that is not READY.
LEMMA ThreadUnsuspend ==
    ASSUME NEW j \in KernelState, NEW off, Coherent(j, off), NEW t \in Thread,
           j.stat[t] # "READY"
    PROVE  LET r == rt_thread_unsuspend(j, t)
           IN  /\ r \in KernelState /\ Coherent(r, off) /\ Loose(r, t)
               /\ t \notin Range(r.tmr) /\ r.stat = j.stat /\ Touches(j, r, t)
<1> DEFINE i == rt_list_remove(j, t)
           r == rt_timer_stop(i, t)
<1>1. /\ i \in KernelState /\ Coherent(i, off) /\ Loose(i, t)
      /\ SameThreads(j, i) /\ Touches(j, i, t)
  BY Unlink
<1> HIDE DEF i
<1>2. /\ r \in KernelState /\ Coherent(r, off) /\ SameLists(i, r)
      /\ t \notin Range(r.tmr) /\ Touches(i, r, t)
  BY <1>1, TimerStop
<1> HIDE DEF r
<1>3. Loose(r, t) /\ r.stat = j.stat
  BY <1>1, <1>2 DEF Loose, SameLists, SameThreads
<1>4. Touches(j, r, t)
  BY <1>1, <1>2, TouchesTwice
<1> QED BY <1>2, <1>3, <1>4 DEF r, i, rt_thread_unsuspend

\* rt_timer_check unlinks the first timer.
LEMMA PopTimer ==
    ASSUME NEW j \in KernelState, NEW off, Coherent(j, off), j.tmr # <<>>
    PROVE  LET r == [j EXCEPT !.tmr = Tail(@)]
               t == Head(j.tmr)
           IN  /\ t \in Thread /\ t \in Range(j.tmr) /\ j.stat[t] = "SUSPEND"
               /\ r \in KernelState /\ Coherent(r, off) /\ SameLists(j, r)
               /\ t \notin Range(r.tmr) /\ Touches(j, r, t)
<1> DEFINE r == [j EXCEPT !.tmr = Tail(@)]
           t == Head(j.tmr)
<1>1. j.tmr \in Seq(Thread) /\ IsInjective(j.tmr) /\ \A u \in Range(j.tmr) : j.stat[u] = "SUSPEND"
  BY DEF KernelState, Coherent, TimersArmed
<1>2. /\ t \in Thread /\ t \in Range(j.tmr) /\ Tail(j.tmr) \in Seq(Thread)
      /\ IsInjective(Tail(j.tmr)) /\ Range(Tail(j.tmr)) = Range(j.tmr) \ {t}
  BY <1>1, HeadTailElements
<1>3. r \in KernelState /\ SameLists(j, r) /\ r.tmr = Tail(j.tmr)
  BY <1>2, ZenonT(30) DEF KernelState, SameLists
<1> HIDE DEF r, t
<1>4. TimersArmed(r)
  BY <1>1, <1>2, <1>3 DEF TimersArmed, SameLists
<1>5. Coherent(r, off)
  BY <1>3, <1>4 DEF Coherent, ReadyAgrees, NodesLinkedOnce, SameLists
<1>6. Touches(j, r, t)
  BY <1>2, <1>3 DEF Touches, SameLists
<1> QED BY <1>1, <1>2, <1>3, <1>5, <1>6 DEF r, t

\* rt_list_insert_after of a thread that is not READY and on no list.
LEMMA PutOnList ==
    ASSUME NEW j \in KernelState, NEW off, Coherent(j, off), NEW t \in Thread,
           NEW q \in SuspendList, Loose(j, t), j.stat[t] # "READY"
    PROVE  LET r == rt_list_insert_after(j, q, t)
           IN  /\ r \in KernelState /\ Coherent(r, off)
               /\ r.stat = j.stat /\ r.tmr = j.tmr /\ r.ready = j.ready
               /\ Touches(j, r, t)
<1> DEFINE r == rt_list_insert_after(j, q, t)
           s == <<t>> \o j.susp[q]
<1>1. j.susp[q] \in Seq(Thread) /\ IsInjective(j.susp[q]) /\ t \notin Range(j.susp[q])
  BY DEF KernelState, Coherent, NodesLinkedOnce, Loose
<1>2. s \in Seq(Thread) /\ IsInjective(s) /\ Range(s) = Range(j.susp[q]) \union {t}
  BY <1>1, ConsElements
<1>3. r = [j EXCEPT !.susp = [j.susp EXCEPT ![q] = s]]
  BY DEF rt_list_insert_after, KernelState
<1> HIDE DEF r, s
<1>4. /\ r.stat = j.stat /\ r.prio = j.prio /\ r.ready = j.ready /\ r.group = j.group
      /\ r.tmr = j.tmr /\ r.cur = j.cur /\ r.nest = j.nest /\ r.isr = j.isr
      /\ r.susp = [j.susp EXCEPT ![q] = s]
  BY <1>3 DEF KernelState
<1>5. r \in KernelState
  <2>1. [j.susp EXCEPT ![q] = s] \in [SuspendList -> Seq(Thread)]
    BY <1>2 DEF KernelState
  <2> QED BY <1>3, <2>1, ZenonT(30) DEF KernelState
<1>6. \A x \in SuspendList : r.susp[x] = IF x = q THEN s ELSE j.susp[x]
  BY <1>4 DEF KernelState
<1>7. ReadyAgrees(r, off) /\ TimersArmed(r)
  BY <1>4 DEF Coherent, ReadyAgrees, TimersArmed
<1>8. NodesLinkedOnce(r)
  <2>1. \A x \in SuspendList : IsInjective(r.susp[x])
    BY <1>2, <1>6 DEF Coherent, NodesLinkedOnce
  <2>2. \A x \in SuspendList : \A u : u \in Range(r.susp[x]) <=>
           u \in Range(j.susp[x]) \/ (x = q /\ u = t)
    BY <1>2, <1>6
  <2>3. \A x \in SuspendList : t \notin Range(j.susp[x])
    BY DEF Loose
  <2>4. \A x \in SuspendList : \A u \in Range(r.susp[x]) : r.stat[u] # "READY"
    BY <1>4, <2>2 DEF Coherent, NodesLinkedOnce
  <2>5. \A x, y \in SuspendList : \A u \in Thread :
           u \in Range(r.susp[x]) /\ u \in Range(r.susp[y]) => x = y
    BY <2>2, <2>3 DEF Coherent, NodesLinkedOnce
  <2> QED BY <1>4, <2>1, <2>4, <2>5 DEF Coherent, NodesLinkedOnce
<1>9. Touches(j, r, t)
  BY <1>2, <1>4, <1>6 DEF Touches
<1> QED BY <1>4, <1>5, <1>7, <1>8, <1>9 DEF Coherent, r

\* rt_thread_control(CHANGE_PRIORITY), on a thread that nobody has taken off
\* the ready table.
LEMMA ThreadControl ==
    ASSUME NEW j \in KernelState, NEW off, Coherent(j, off), NEW t \in Thread,
           t \notin off, NEW pr \in Priority
    PROVE  LET r == rt_thread_control(j, t, pr)
           IN  /\ r \in KernelState /\ Coherent(r, off)
               /\ r.stat[t] = j.stat[t] /\ Touches(j, r, t)
               /\ \A q \in SuspendList : t \in Range(r.susp[q]) => t \in Range(j.susp[q])
               /\ j.stat[t] # "READY" => r.tmr = j.tmr /\ r.ready = j.ready
<1> DEFINE r == rt_thread_control(j, t, pr)
<1>1. CASE j.stat[t] = "READY"
  <2> DEFINE i == rt_schedule_remove_thread(j, t)
             h == [i EXCEPT !.prio[t] = pr]
  <2>1. /\ i \in KernelState /\ Coherent(i, off \union {t}) /\ Loose(i, t)
        /\ SameThreads(j, i) /\ Touches(j, i, t)
    BY ScheduleRemove
  <2>2. r = rt_schedule_insert_thread(h, t)
    BY <1>1 DEF rt_thread_control
  <2> HIDE DEF i
  <2>3. /\ h \in KernelState /\ Coherent(h, off \union {t})
        /\ h.stat = i.stat /\ h.ready = i.ready /\ h.susp = i.susp /\ h.tmr = i.tmr
        /\ Touches(i, h, t)
    <3>1. t \in off \union {t} /\ \A p \in Priority : t \notin Range(i.ready[p])
      BY <2>1 DEF Loose
    <3> QED BY <2>1, <3>1, SetPriority
  <2> HIDE DEF h, r
  <2>4. Loose(h, t) /\ t \notin Range(h.tmr)
    BY <1>1, <2>1, <2>3 DEF Loose, SameThreads, Coherent, TimersArmed
  <2>5. /\ r \in KernelState /\ Coherent(r, (off \union {t}) \ {t})
        /\ r.stat[t] = "READY" /\ Touches(h, r, t)
    BY <2>2, <2>3, <2>4, ScheduleInsert
  <2>6. (off \union {t}) \ {t} = off
    OBVIOUS
  <2>7. Touches(j, r, t)
    BY <2>1, <2>3, <2>5, TouchesTwice
  <2>8. \A q \in SuspendList : t \notin Range(r.susp[q])
    BY <2>5 DEF Coherent, NodesLinkedOnce
  <2> QED BY <1>1, <2>5, <2>6, <2>7, <2>8 DEF r
<1>2. CASE j.stat[t] # "READY"
  <2>1. r = [j EXCEPT !.prio[t] = pr]
    BY <1>2 DEF rt_thread_control
  <2>2. \A p \in Priority : t \notin Range(j.ready[p])
    BY <1>2 DEF Coherent, ReadyAgrees
  <2> QED BY <1>2, <2>1, <2>2, SetPriority
<1> QED BY <1>1, <1>2

-----------------------------------------------------------------------------

\* rt_thread_yield rotates a list: the same threads stay on it.
LEMMA RotateList ==
    ASSUME NEW j \in KernelState, NEW off, Coherent(j, off), Rotates(j), j.cur \notin off
    PROVE  LET r == Rotate(j)
           IN  /\ r \in KernelState /\ Coherent(r, off)
               /\ r.stat = j.stat /\ r.cur = j.cur /\ r.nest = j.nest /\ r.isr = j.isr
               /\ r.tmr = j.tmr /\ r.susp = j.susp
               /\ \A p \in Priority : Range(r.ready[p]) = Range(j.ready[p])
<1> DEFINE r == Rotate(j)
           t == j.cur
           pt == j.prio[t]
           f == Without(j.ready[pt], t)
           g == Append(f, t)
<1>1. /\ t \in Thread /\ pt \in Priority /\ j.ready[pt] \in Seq(Thread)
      /\ IsInjective(j.ready[pt]) /\ t \in Range(j.ready[pt])
  BY DEF KernelState, Coherent, NodesLinkedOnce, Rotates, ReadyAgrees
<1>2. f \in Seq(Thread) /\ IsInjective(f) /\ Range(f) = Range(j.ready[pt]) \ {t}
  BY <1>1, WithoutElements
<1>3. r = [j EXCEPT !.ready = [j.ready EXCEPT ![pt] = g]]
  BY DEF Rotate, KernelState
<1> HIDE DEF f, r
<1>4. g \in Seq(Thread) /\ g # <<>> /\ IsInjective(g) /\ Range(g) = Range(f) \union {t}
  BY <1>1, <1>2, AppendElements
<1>5. Range(g) = Range(j.ready[pt])
  BY <1>1, <1>2, <1>4
<1> HIDE DEF g
<1>6. /\ r.stat = j.stat /\ r.prio = j.prio /\ r.group = j.group /\ r.susp = j.susp
      /\ r.tmr = j.tmr /\ r.cur = j.cur /\ r.nest = j.nest /\ r.isr = j.isr
      /\ r.ready = [j.ready EXCEPT ![pt] = g]
  BY <1>3 DEF KernelState
<1> HIDE DEF t, pt
<1>7. r \in KernelState
  <2>1. [j.ready EXCEPT ![pt] = g] \in [Priority -> Seq(Thread)]
    BY <1>1, <1>4 DEF KernelState
  <2> QED BY <1>3, <2>1, ZenonT(30) DEF KernelState
<1>8. \A p \in Priority : r.ready[p] = IF p = pt THEN g ELSE j.ready[p]
  BY <1>6 DEF KernelState
<1>9. \A p \in Priority : Range(r.ready[p]) = Range(j.ready[p])
  BY <1>5, <1>8
<1>10. \A p \in Priority : IsInjective(r.ready[p])
  BY <1>4, <1>8 DEF Coherent, NodesLinkedOnce
<1>11. \A p \in Priority : r.ready[p] # <<>> <=> j.ready[p] # <<>>
  <2>1. j.ready[pt] # <<>>
    BY <1>1, EmptyElements
  <2> QED BY <1>4, <1>8, <2>1
<1>12. ReadyAgrees(r, off)
  <2>1. \A p \in Priority : \A u \in Range(r.ready[p]) : r.stat[u] = "READY" /\ r.prio[u] = p
    BY <1>6, <1>9 DEF Coherent, ReadyAgrees
  <2>2. ASSUME NEW u \in Thread \ off, r.stat[u] = "READY"
        PROVE  u \in Range(r.ready[r.prio[u]])
    <3>1. j.prio[u] \in Priority /\ u \in Range(j.ready[j.prio[u]])
      BY <1>6, <2>2 DEF Coherent, ReadyAgrees, KernelState
    <3> QED BY <1>6, <1>9, <3>1
  <2>3. r.group = {p \in Priority : r.ready[p] # <<>>}
    BY <1>6, <1>11 DEF Coherent, ReadyAgrees
  <2> QED BY <2>1, <2>2, <2>3 DEF ReadyAgrees
<1>13. NodesLinkedOnce(r) /\ TimersArmed(r)
  BY <1>6, <1>10 DEF Coherent, NodesLinkedOnce, TimersArmed
<1> QED BY <1>6, <1>7, <1>9, <1>12, <1>13 DEF Coherent, r
=============================================================================
