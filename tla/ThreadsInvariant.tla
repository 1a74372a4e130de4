-------------------------- MODULE ThreadsInvariant --------------------------
(***************************************************************************)
(* The thread API keeps the kernel coherent, for every number of threads,  *)
(* priorities and lock nestings, as long as the application keeps the      *)
(* rules of Threads (Disciplined): it holds the scheduler lock over a call *)
(* on another thread and does not block while it holds it.                 *)
(*                                                                         *)
(* The ready table alone is not inductive. rt_thread_resume, _delete and   *)
(* _suspend act on what an earlier section of theirs has seen, so the      *)
(* invariant says, for a thread inside one of them, that it holds the      *)
(* processor and the lock, and what is still true of the thread it acts on.*)
(***************************************************************************)
EXTENDS Threads, KernelProofs

\* Time limits of the leaves, in seconds, for the two provers in this order.
USE SMTT(30), ZenonT(30)

\* Dying, as a function of pc and arg.
DyingIn(c, a) == {a[u] : u \in {v \in Thread : c[v] \in {"delete", "close", "link", "free"}}}

\* Labels at which a thread names another one in arg, and at which it holds
\* the scheduler lock.
Naming == {"suspend", "resume", "insert", "startup", "delete", "close", "link", "free"}
Held   == {"suspend", "resume", "insert", "delete", "close", "link"}

\* What a thread that is inside a function may rely on.
PcOK(j, c, a, u) ==
    /\ c[u] \in Held => u = j.cur /\ j.nest > 0
    /\ c[u] = "suspend" =>
          j.stat[a[u]] = "READY" /\ a[u] \notin DyingIn(c, a) /\ a[u] # Idle
    /\ c[u] \in {"resume", "insert", "startup"} =>
          /\ j.stat[a[u]] = "SUSPEND" /\ a[u] \notin Range(j.tmr)
          /\ a[u] \notin DyingIn(c, a)
    /\ c[u] \in {"insert", "startup"} => Loose(j, a[u])
    /\ c[u] \in {"delete", "close"} =>
          /\ Loose(j, a[u]) /\ a[u] \notin Range(j.tmr) /\ a[u] # u
          /\ j.stat[a[u]] \in {"READY", "SUSPEND"}
    /\ c[u] \in {"link", "free"} => Loose(j, a[u]) /\ j.stat[a[u]] = "CLOSE"
    /\ c[u] \in {"reap", "free"} => u = Idle
    /\ c[u] \in {"exit", "exited"} => j.stat[u] = "CLOSE"

\* Two threads are not acting on the same thread.
OneActor(c, a) ==
    \A u, v \in Thread : c[u] \in Naming /\ c[v] \in Naming /\ a[u] = a[v] => u = v

Types(j, c, a) ==
    /\ j \in KernelState /\ j.nest <= MaxNest
    /\ c \in [Thread -> Label] /\ a \in [Thread -> Thread]

Core(j, c, a) ==
    /\ Types(j, c, a)
    /\ Coherent(j, DyingIn(c, a))
    /\ \A t \in Range(j.susp["defunct"]) : j.stat[t] = "CLOSE"
    /\ j.stat[Idle] = "READY" /\ Idle \notin DyingIn(c, a)
    /\ \A u \in Thread : PcOK(j, c, a, u)
    /\ OneActor(c, a)

\* The running thread is READY. It is suspended while the lock keeps it on the
\* processor, or before it gets to rt_schedule, and closed at the end of
\* rt_thread_exit.
CurOK(j, c) ==
    \/ j.stat[j.cur] = "READY"
    \/ j.stat[j.cur] = "SUSPEND" /\ (j.nest > 0 \/ c[j.cur] \in {"sched", "sleep"})
    \/ j.stat[j.cur] = "CLOSE" /\ c[j.cur] = "exit" /\ j.nest = 0

IInv == Core(k, pc, arg) /\ CurOK(k, pc)

-----------------------------------------------------------------------------

\* A step that touches thread t leaves another thread where it is.
LEMMA LooseKept ==
    ASSUME NEW j, NEW r, NEW t, NEW u \in Thread \ {t}, Touches(j, r, t)
    PROVE  Loose(r, u) <=> Loose(j, u)
  BY DEF Touches, Loose

\* A step that touches thread t and moves the threads of M only, while no
\* other thread is acting on t.
MovesOnly(j, c, a, r, d, b, t, M) ==
    /\ Touches(j, r, t)
    /\ \A u \in Thread \ M : d[u] = c[u] /\ b[u] = a[u]
    /\ \A u \in Thread \ M : c[u] \in Naming => a[u] # t
    /\ DyingIn(d, b) \subseteq DyingIn(c, a) \union {t}
    /\ t \notin M /\ c[t] \in {"exit", "exited"} => r.stat[t] = "CLOSE"

\* It keeps what the other threads rely on.
LEMMA OthersKept ==
    ASSUME NEW j, NEW c, NEW a, Core(j, c, a), NEW r, NEW d, NEW b, NEW t \in Thread,
           NEW M \in SUBSET Thread, MovesOnly(j, c, a, r, d, b, t, M)
    PROVE  \A u \in Thread \ M : PcOK(r, d, b, u)
<1> USE DEF MovesOnly
<1> SUFFICES ASSUME NEW u \in Thread \ M PROVE PcOK(r, d, b, u)
  OBVIOUS
<1>1. PcOK(j, c, a, u) /\ d[u] = c[u] /\ b[u] = a[u] /\ a[u] \in Thread
  BY DEF Core, Types
<1>2. ASSUME c[u] \in Naming
      PROVE  /\ a[u] # t /\ r.stat[a[u]] = j.stat[a[u]]
             /\ a[u] \in Range(r.tmr) <=> a[u] \in Range(j.tmr)
             /\ Loose(r, a[u]) <=> Loose(j, a[u])
             /\ a[u] \in DyingIn(d, b) => a[u] \in DyingIn(c, a)
  <2>1. a[u] \in Thread \ {t}
    BY <1>1, <1>2
  <2>2. Loose(r, a[u]) <=> Loose(j, a[u])
    BY <2>1, LooseKept
  <2>3. r.stat[a[u]] = j.stat[a[u]] /\ (a[u] \in Range(r.tmr) <=> a[u] \in Range(j.tmr))
    BY <2>1 DEF Touches
  <2>4. a[u] \in DyingIn(d, b) => a[u] \in DyingIn(c, a)
    BY <2>1
  <2> QED BY <2>1, <2>2, <2>3, <2>4
<1>3. c[u] \in {"exit", "exited"} => r.stat[u] = "CLOSE"
  <2>1. CASE u = t
    BY <2>1
  <2>2. CASE u # t
    BY <1>1, <2>2 DEF PcOK, Touches
  <2> QED BY <2>1, <2>2
<1>4. r.cur = j.cur /\ r.nest = j.nest
  BY DEF Touches
<1> HIDE DEF DyingIn
<1> QED BY <1>1, <1>2, <1>3, <1>4 DEF PcOK, Naming, Held

\* The threads of rt_thread_defunct stay dead.
LEMMA DefunctKept ==
    ASSUME NEW j \in KernelState, NEW r \in KernelState, NEW t \in Thread, Touches(j, r, t),
           \A u \in Range(j.susp["defunct"]) : j.stat[u] = "CLOSE",
           t \in Range(r.susp["defunct"]) => r.stat[t] = "CLOSE"
    PROVE  \A u \in Range(r.susp["defunct"]) : r.stat[u] = "CLOSE"
<1> SUFFICES ASSUME NEW u \in Range(r.susp["defunct"]) PROVE r.stat[u] = "CLOSE"
  OBVIOUS
<1>1. "defunct" \in SuspendList
  BY ThreadsAssumption
<1>2. u \in Thread
  BY <1>1, ListsOfThreads
<1>3. CASE u # t
  BY <1>1, <1>2, <1>3 DEF Touches
<1> QED BY <1>3

\* A thread that is neither READY nor dead is on no list.
LEMMA SuspendedLoose ==
    ASSUME NEW j, NEW off, Coherent(j, off), NEW t \in Thread,
           \A u \in Range(j.susp["defunct"]) : j.stat[u] = "CLOSE",
           j.stat[t] \in {"INIT", "SUSPEND"}
           \/ (j.stat[t] = "CLOSE" /\ t \notin Range(j.susp["defunct"]))
    PROVE  Loose(j, t)
  BY ThreadsAssumption DEF Coherent, ReadyAgrees, Loose

\* rt_schedule keeps the invariant and leaves a live thread running.
LEMMA ScheduleKeeps ==
    ASSUME NEW j, NEW c, NEW a, Core(j, c, a), j.nest = 0 \/ CurOK(j, c)
    PROVE  Core(rt_schedule(j), c, a) /\ CurOK(rt_schedule(j), c)
<1> DEFINE r == rt_schedule(j)
           off == DyingIn(c, a)
<1>0. j \in KernelState /\ Coherent(j, off) /\ Idle \notin off /\ j.stat[Idle] = "READY"
  BY DEF Core, Types
<1>1. /\ r \in KernelState /\ Coherent(r, off) /\ OnlyCur(j, r)
      /\ IF j.nest = 0 THEN /\ j.stat[r.cur] = "READY"
                            /\ r.cur \in Range(j.ready[j.prio[r.cur]])
                       ELSE r = j
  BY <1>0, Scheduled
<1> HIDE DEF r
<1>2. CASE j.nest # 0
  BY <1>1, <1>2 DEF r
<1>3. CASE j.nest = 0
  <2>1. ASSUME NEW u \in Thread PROVE PcOK(r, c, a, u)
    <3>1. PcOK(j, c, a, u) /\ c[u] \notin Held
      BY <1>0, <1>3 DEF Core, PcOK, KernelState
    <3>2. /\ r.stat = j.stat /\ r.tmr = j.tmr /\ r.ready = j.ready /\ r.susp = j.susp
      BY <1>1 DEF OnlyCur
    <3>3. \A x : Loose(r, x) <=> Loose(j, x)
      BY <3>2 DEF Loose
    <3> QED BY <3>1, <3>2, <3>3 DEF PcOK, Held
  <2>2. CurOK(r, c)
    BY <1>1, <1>3 DEF CurOK, OnlyCur
  <2>3. Types(r, c, a)
    BY <1>1 DEF Core, Types, OnlyCur
  <2> QED BY <1>1, <2>1, <2>2, <2>3 DEF Core, OnlyCur, r
<1> QED BY <1>2, <1>3

-----------------------------------------------------------------------------

\* Thread m has moved from one label to another.
Moved(c, a, d, b, m) ==
    /\ d \in [Thread -> Label] /\ b \in [Thread -> Thread]
    /\ \A u \in Thread \ {m} : d[u] = c[u] /\ b[u] = a[u]

\* The threads being deleted before and after: m may have stopped deleting one,
\* or begun to delete one.
LEMMA DyingMoves ==
    ASSUME NEW c, NEW a, NEW d, NEW b, NEW m \in Thread, Moved(c, a, d, b, m)
    PROVE  LET D == {"delete", "close", "link", "free"}
           IN  /\ DyingIn(d, b) \subseteq DyingIn(c, a) \union (IF d[m] \in D THEN {b[m]} ELSE {})
               /\ DyingIn(c, a) \subseteq DyingIn(d, b) \union (IF c[m] \in D THEN {a[m]} ELSE {})
               /\ d[m] \in D => b[m] \in DyingIn(d, b)
  BY DEF DyingIn, Moved

\* Between two labels at which no thread is dying, the dying threads stay.
LEMMA DyingStays ==
    ASSUME NEW c, NEW a, NEW d, NEW b, NEW m \in Thread, Moved(c, a, d, b, m),
           c[m] \notin {"delete", "close", "link", "free"}, d[m] \notin {"delete", "close", "link", "free"}
    PROVE  DyingIn(d, b) = DyingIn(c, a)
  BY DEF DyingIn, Moved

\* A step of thread m that touches thread t.
Moves(j, c, a, r, d, b, m, t) ==
    /\ Touches(j, r, t) /\ Moved(c, a, d, b, m)
    /\ \A u \in Thread \ {m} : c[u] \in Naming => a[u] # t
    /\ t # m /\ c[t] \in {"exit", "exited"} => r.stat[t] = "CLOSE"
    /\ t \in Range(r.susp["defunct"]) => r.stat[t] = "CLOSE"
    /\ t = Idle => r.stat[t] = "READY"
    /\ DyingIn(d, b) \subseteq DyingIn(c, a) \union ({t} \ {Idle})
    /\ d[m] \in Naming => \A u \in Thread \ {m} : c[u] \in Naming => a[u] # b[m]

\* The invariant holds again when it does for the label m has come to.
LEMMA StepKeeps ==
    ASSUME NEW j, NEW c, NEW a, Core(j, c, a), NEW r \in KernelState,
           NEW d, NEW b, NEW m \in Thread, NEW t \in Thread,
           Moves(j, c, a, r, d, b, m, t),
           Coherent(r, DyingIn(d, b)), PcOK(r, d, b, m)
    PROVE  Core(r, d, b)
<1> USE DEF Moves
<1>1. c \in [Thread -> Label] /\ j \in KernelState /\ j.nest <= MaxNest
  BY DEF Core, Types
<1>2. /\ d \in [Thread -> Label] /\ b \in [Thread -> Thread]
      /\ \A u \in Thread \ {m} : d[u] = c[u] /\ b[u] = a[u]
  BY DEF Moved
<1>3. \A u \in Thread \ {m} : PcOK(r, d, b, u)
  <2> DEFINE M == {m}
  <2>1. /\ \A u \in Thread \ M : d[u] = c[u] /\ b[u] = a[u]
        /\ \A u \in Thread \ M : c[u] \in Naming => a[u] # t
        /\ M \in SUBSET Thread
    BY <1>2
  <2>2. DyingIn(d, b) \subseteq DyingIn(c, a) \union {t}
    OBVIOUS
  <2>3. t \notin M /\ c[t] \in {"exit", "exited"} => r.stat[t] = "CLOSE"
    OBVIOUS
  <2> HIDE DEF M
  <2>4. \A u \in Thread \ M : PcOK(r, d, b, u)
    <3>1. MovesOnly(j, c, a, r, d, b, t, M)
      BY <2>1, <2>2, <2>3 DEF MovesOnly
    <3> HIDE DEF Moves
    <3> QED BY <2>1, <3>1, OthersKept
  <2> QED BY <2>4 DEF M
<1>4. \A u \in Thread : PcOK(r, d, b, u)
  BY <1>3
<1>5. \A u \in Range(r.susp["defunct"]) : r.stat[u] = "CLOSE"
  BY <1>1, DefunctKept DEF Core
<1>6. Idle \in Thread /\ r.stat[Idle] = "READY" /\ Idle \notin DyingIn(d, b)
  BY KernelAssumption DEF Core, Touches
<1>7. OneActor(d, b)
  <2>1. OneActor(c, a)
    BY DEF Core
  <2>2. d[m] \in Naming => \A u \in Thread \ {m} : d[u] \in Naming => b[u] # b[m]
    BY <1>2
  <2> SUFFICES ASSUME NEW u \in Thread, NEW v \in Thread, b[u] = b[v],
                      d[u] \in Naming, d[v] \in Naming
               PROVE  u = v
    BY DEF OneActor
  <2>3. CASE u = m \/ v = m
    BY <1>2, <2>2, <2>3
  <2>4. CASE u # m /\ v # m
    BY <1>2, <2>1, <2>4 DEF OneActor
  <2> QED BY <2>3, <2>4
<1>8. Types(r, d, b)
  BY <1>1, <1>2 DEF Types, Touches
<1> QED BY <1>4, <1>5, <1>6, <1>7, <1>8 DEF Core

\* At a label where a thread is not acting on another one it relies on nothing.
Plain == {"run", "sched", "sleep", "slept"}

\* PcOK holds at those labels.
LEMMA PlainOK ==
    ASSUME NEW r, NEW d, NEW b, NEW m, d[m] \in Plain
    PROVE  PcOK(r, d, b, m)
  BY DEF PcOK, Plain, Held

\* While the running thread is in its own code, the threads that are being
\* deleted are dead: deleting is done under the lock.
LEMMA DyingDead ==
    ASSUME Core(k, pc, arg), pc[k.cur] \notin Held, NEW x \in DyingIn(pc, arg)
    PROVE  k.stat[x] = "CLOSE"
<1>1. PICK u \in Thread : x = arg[u] /\ pc[u] \in {"delete", "close", "link", "free"}
  BY DEF DyingIn
<1>2. PcOK(k, pc, arg, u)
  BY DEF Core
<1> QED BY <1>1, <1>2 DEF PcOK, Held

\* No thread but the running one is acting on x, when x is READY or not yet
\* started, or nobody is deleting or starting it.
LEMMA NotNamed ==
    ASSUME Core(k, pc, arg), NEW x,
           k.stat[x] \in {"READY", "INIT"} \/ (x \notin Dying /\ x \notin Starting)
    PROVE  \A u \in Thread \ {k.cur} : pc[u] \in Naming => arg[u] # x
<1> SUFFICES ASSUME NEW u \in Thread \ {k.cur}, pc[u] \in Naming PROVE arg[u] # x
  OBVIOUS
<1>1. PcOK(k, pc, arg, u)
  BY DEF Core
<1>2. pc[u] \in {"startup", "free"}
  BY <1>1 DEF PcOK, Naming, Held
<1>3. k.stat[arg[u]] \in {"SUSPEND", "CLOSE"}
  BY <1>1, <1>2 DEF PcOK
<1> QED BY <1>2, <1>3 DEF Dying, Starting

\* Nobody else is acting on the thread that t acts on.
LEMMA OnlyActor ==
    ASSUME Core(k, pc, arg), NEW t \in Thread, pc[t] \in Naming
    PROVE  \A u \in Thread \ {t} : pc[u] \in Naming => arg[u] # arg[t]
  BY DEF Core, OneActor

\* What holds when thread t is at label l and takes a step.
LEMMA Acting ==
    ASSUME IInv, NEW t \in Thread, NEW l, At(t, l)
    PROVE  /\ Core(k, pc, arg) /\ CurOK(k, pc) /\ k \in KernelState /\ k.nest \in Nat
           /\ arg \in [Thread -> Thread] /\ k.cur = t /\ pc[t] = l
           /\ Coherent(k, DyingIn(pc, arg)) /\ PcOK(k, pc, arg, t)
           /\ \A u \in Range(k.susp["defunct"]) : k.stat[u] = "CLOSE"
           /\ Idle \in Thread /\ k.stat[Idle] = "READY"
           /\ Dying = DyingIn(pc, arg)
  BY KernelAssumption, Zenon DEF IInv, Core, Types, At, KernelState, Dying, DyingIn

\* Thread t moves to label l.
LEMMA GotoMoves ==
    ASSUME Core(k, pc, arg), NEW t \in Thread, NEW l \in Label, Goto(t, l),
           arg' \in [Thread -> Thread], \A u \in Thread \ {t} : arg'[u] = arg[u]
    PROVE  pc'[t] = l /\ Moved(pc, arg, pc', arg', t)
<1>1. pc \in [Thread -> Label]
  BY DEF Core, Types
<1>2. pc' \in [Thread -> Label] /\ pc'[t] = l /\ \A u \in Thread \ {t} : pc'[u] = pc[u]
  BY <1>1 DEF Goto
<1> QED BY <1>2 DEF Moved

\* A step of t that touches x and ends where t relies on nothing.
LEMMA PlainStep ==
    ASSUME Core(k, pc, arg), NEW t \in Thread, NEW x \in Thread, k' \in KernelState,
           Touches(k, k', x), Moved(pc, arg, pc', arg', t),
           pc[t] \notin {"delete", "close", "link", "free"}, pc'[t] \in Plain,
           Coherent(k', DyingIn(pc, arg)),
           \A u \in Thread \ {t} : pc[u] \in Naming => arg[u] # x,
           x # t /\ pc[x] \in {"exit", "exited"} => k'.stat[x] = "CLOSE",
           x \in Range(k'.susp["defunct"]) => k'.stat[x] = "CLOSE",
           x = Idle => k'.stat[x] = "READY"
    PROVE  Core(k', pc', arg')
<1>1. pc'[t] \notin {"delete", "close", "link", "free"} /\ pc'[t] \notin Naming
  BY DEF Plain, Naming
<1>2. DyingIn(pc', arg') = DyingIn(pc, arg)
  BY <1>1, DyingStays
<1>3. PcOK(k', pc', arg', t)
  BY PlainOK
<1>4. Moves(k, pc, arg, k', pc', arg', t, x)
  BY <1>1, <1>2 DEF Moves
<1> QED BY <1>2, <1>3, <1>4, StepKeeps

\* A step that leaves the kernel as it is.
LEMMA IdleTouched ==
    ASSUME Core(k, pc, arg)
    PROVE  /\ Touches(k, k, Idle) /\ Idle \in Thread
           /\ \A u \in Thread \ {k.cur} : pc[u] \in Naming => arg[u] # Idle
           /\ pc[Idle] \notin {"exit", "exited"}
           /\ Idle \notin Range(k.susp["defunct"]) /\ k.stat[Idle] = "READY"
<1>1. Idle \in Thread /\ k.stat[Idle] = "READY" /\ PcOK(k, pc, arg, Idle)
  BY KernelAssumption DEF Core
<1>2. pc[Idle] \notin {"exit", "exited"} /\ Idle \notin Range(k.susp["defunct"])
  BY <1>1 DEF Core, PcOK
<1>3. Touches(k, k, Idle)
  BY DEF Touches
<1> QED BY <1>1, <1>2, <1>3, NotNamed

\* A step that touches x and moves no thread.
LEMMA StillKeeps ==
    ASSUME NEW j, NEW c, NEW a, Core(j, c, a), NEW r \in KernelState, NEW x \in Thread,
           Touches(j, r, x), \A u \in Thread : c[u] \in Naming => a[u] # x,
           c[x] \in {"exit", "exited"} => r.stat[x] = "CLOSE",
           x \in Range(r.susp["defunct"]) => r.stat[x] = "CLOSE",
           x = Idle => r.stat[x] = "READY", Coherent(r, DyingIn(c, a))
    PROVE  Core(r, c, a)
<1>1. /\ c \in [Thread -> Label] /\ a \in [Thread -> Thread] /\ j \in KernelState
      /\ j.nest <= MaxNest /\ Idle \in Thread /\ j.stat[Idle] = "READY"
  BY KernelAssumption DEF Core, Types
<1>2. \A u \in Thread : PcOK(r, c, a, u)
  <2> DEFINE M == {}
  <2>1. MovesOnly(j, c, a, r, c, a, x, M)
    BY DEF MovesOnly
  <2>2. M \in SUBSET Thread /\ Thread \ M = Thread
    OBVIOUS
  <2> HIDE DEF M
  <2>3. \A u \in Thread \ M : PcOK(r, c, a, u)
    BY <2>1, <2>2, OthersKept
  <2> QED BY <2>2, <2>3
<1>3. \A u \in Range(r.susp["defunct"]) : r.stat[u] = "CLOSE"
  BY <1>1, DefunctKept DEF Core
<1>4. r.stat[Idle] = "READY" /\ Types(r, c, a)
  BY <1>1 DEF Types, Touches
<1> QED BY <1>2, <1>3, <1>4 DEF Core
=============================================================================
