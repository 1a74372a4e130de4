----------------------------- MODULE MCObjects -----------------------------
(* Small instances of the objects that threads wait for and of the heap.   *)
(* An application uses one of them: obj names it in each behaviour, and    *)
(* the variables of the others are None.  Three threads besides the idle   *)
(* one; two of them of the same priority, but for the mutex.               *)
EXTENDS Ipc, TLC

CONSTANTS a, b, c, idle, e1, e2, m1, NoThread, None

VARIABLES
    obj,                               \* the object of this behaviour
    live,                              \* all but the completion and the heap
    value, units,                      \* Semaphore and Shell; value also Mutex
    owner, orig, hold, want, depth,    \* Mutex
    set, eset, info, asked,            \* Event
    list, free, count, used,           \* MemPool
    flag,                              \* Completion
    h, owned, calls,                   \* Heap
    rx, taken, ind, at, sh, over, untold    \* Shell

mutex == <<owner, orig, hold, want, depth>>
event == <<set, eset, info, asked>>
pool  == <<list, free, count, used>>
heap  == <<h, owned, calls>>
shell == <<rx, taken, ind, at, sh, over, untold>>
vars  == <<k, pc, obj, live, value, units, mutex, event, pool, flag, heap, shell>>

MCPriority == (a :> 0) @@ (b :> 1) @@ (c :> 1) @@ (idle :> 3)
MCRanked   == (a :> 0) @@ (b :> 1) @@ (c :> 2) @@ (idle :> 3)
MCTick     == [t \in {a, b, c, idle} |-> 1]
MCTimes    == {RT_WAITING_FOREVER, 0, 1}

\* A semaphore that is detached and made anew, and one whose users also sleep.
Sem == INSTANCE Semaphore WITH
    Calls <- {"take", "release", "isr_release", "control", "detach", "init"},
    Times <- {RT_WAITING_FOREVER, 1, 2}, MaxTime <- 2,
    Flag <- "PRIO", SemMax <- 2, MaxUnits <- 2

Un == INSTANCE Semaphore WITH
    Calls <- {"take", "release", "isr_release", "sleep"},
    Times <- {RT_WAITING_FOREVER, 1, 2}, MaxTime <- 2,
    Flag <- "PRIO", SemMax <- 2, MaxUnits <- 2

Mtx == INSTANCE Mutex WITH
    Calls <- {"take", "release", "detach", "init", "sleep"},
    InitPriority <- MCRanked, Mtx <- {m1}, Flag <- "PRIO", MaxHold <- 2

Ev == INSTANCE Event WITH
    Calls <- {"send", "recv", "isr_send", "control", "detach", "init"},
    Booted <- {a, b, idle}, Bits <- {e1, e2}, Flag <- "PRIO"

\* Likewise for the memory pool.
Mp == INSTANCE MemPool WITH
    Calls <- {"alloc", "free", "isr_alloc", "isr_free", "detach", "init"},
    Total <- 2, CountMod <- 8, MaxPended <- 4

Bl == INSTANCE MemPool WITH
    Calls <- {"alloc", "free", "isr_alloc", "isr_free", "sleep"},
    Total <- 2, CountMod <- 8, MaxPended <- 3

Cp == INSTANCE Completion WITH
    Calls <- {"wait", "done", "isr_done", "init", "sleep"}

Hp == INSTANCE Heap WITH MemSize <- 21, Sizes <- {0, 1, 4, 10}, MaxCalls <- 1

\* A shell with all keys whose characters are alike, one whose input comes
\* faster than it reads, and one line with characters that differ.
Sh == INSTANCE Shell WITH
    Booted <- {a, idle}, Shell <- a, Letter <- {}, RxCapacity <- 1, Burst <- 1,
    Key <- {"ESC", "[", "A", "B", "C", "D", "CR", "LF", "TAB", "BS"},
    MaxUnits <- 1, FINSH_CMD_SIZE <- 3, FINSH_HISTORY_LINES <- 2,
    Names <- {<<"other", "other">>}

In == INSTANCE Shell WITH
    Booted <- {a, idle}, Shell <- a, Letter <- {}, RxCapacity <- 3, Burst <- 2,
    Key <- {"[", "CR", "LF"},
    MaxUnits <- 2, FINSH_CMD_SIZE <- 3, FINSH_HISTORY_LINES <- 2, Names <- {}

Ed == INSTANCE Shell WITH
    Booted <- {a, idle}, Shell <- a, Letter <- {"x"}, RxCapacity <- 1, Burst <- 1,
    Key <- {"x", "ESC", "[", "C", "D", "TAB", "BS"},
    MaxUnits <- 1, FINSH_CMD_SIZE <- 3, FINSH_HISTORY_LINES <- 2,
    Names <- {<<"x", "x">>, <<"other", "x">>, <<"other", "other">>}

ASSUME ObjectsAssumption ==
    /\ Sh!ShellAssumption /\ In!ShellAssumption /\ Ed!ShellAssumption
    /\ Sem!SemaphoreAssumption /\ Un!SemaphoreAssumption
    /\ Mtx!MutexAssumption /\ Ev!EventAssumption
    /\ Mp!MemPoolAssumption /\ Bl!MemPoolAssumption /\ Cp!CompletionAssumption /\ Hp!HeapAssumption

-----------------------------------------------------------------------------

NoMutex == /\ owner = None /\ orig = None /\ hold = None /\ want = None
           /\ depth = None
NoEvent == set = None /\ eset = None /\ info = None /\ asked = None
NoPool  == list = None /\ free = None /\ count = None /\ used = None
NoHeap  == h = None /\ owned = None /\ calls = None
NoShell == /\ rx = <<>> /\ taken = 0 /\ ind = None /\ at = None /\ untold = None
           /\ sh = Sh!Fresh /\ over = FALSE

\* The threads rest while the heap is used: its functions make no use of them
\* but for heap_sem.
Rests ==
    /\ k = rt_system_scheduler_start(CHOOSE r \in ReadyTables(Booted) : TRUE)
    /\ pc = [t \in Thread |-> "run"]

Init ==
    \/ /\ \/ obj = "sem" /\ Sem!Init
          \/ obj = "units" /\ Un!Init
       /\ NoMutex /\ NoEvent /\ NoPool /\ flag = None /\ NoHeap /\ NoShell
    \/ /\ obj = "mutex" /\ Mtx!Init
       /\ units = None /\ NoEvent /\ NoPool /\ flag = None /\ NoHeap /\ NoShell
    \/ /\ obj = "event" /\ Ev!Init
       /\ value = None /\ units = None /\ NoMutex /\ NoPool /\ flag = None /\ NoHeap /\ NoShell
    \/ /\ \/ obj = "mp" /\ Mp!Init
          \/ obj = "blocks" /\ Bl!Init
       /\ value = None /\ units = None /\ NoMutex /\ NoEvent /\ flag = None /\ NoHeap /\ NoShell
    \/ /\ obj = "completion" /\ Cp!Init
       /\ live = None /\ value = None /\ units = None
       /\ NoMutex /\ NoEvent /\ NoPool /\ NoHeap /\ NoShell
    \/ /\ obj = "heap" /\ Hp!Init /\ Rests
       /\ live = None /\ value = None /\ units = None
       /\ NoMutex /\ NoEvent /\ NoPool /\ flag = None /\ NoShell
    \/ /\ \/ obj = "shell" /\ Sh!Init
          \/ obj = "input" /\ In!Init
          \/ obj = "line" /\ Ed!Init
       /\ NoMutex /\ NoEvent /\ NoPool /\ flag = None /\ NoHeap

Next ==
    /\ \/ /\ \/ obj = "sem" /\ Sem!Next
             \/ obj = "units" /\ Un!Next
          /\ UNCHANGED <<mutex, event, pool, flag, heap, shell>>
       \/ /\ obj = "mutex" /\ Mtx!Next
          /\ UNCHANGED <<units, event, pool, flag, heap, shell>>
       \/ /\ obj = "event" /\ Ev!Next
          /\ UNCHANGED <<value, units, mutex, pool, flag, heap, shell>>
       \/ /\ \/ obj = "mp" /\ Mp!Next
             \/ obj = "blocks" /\ Bl!Next
          /\ UNCHANGED <<value, units, mutex, event, flag, heap, shell>>
       \/ /\ obj = "completion" /\ Cp!Next
          /\ UNCHANGED <<live, value, units, mutex, event, pool, heap, shell>>
       \/ /\ obj = "heap" /\ Hp!Next
          /\ UNCHANGED <<k, pc, live, value, units, mutex, event, pool, flag, shell>>
       \/ /\ \/ obj = "shell" /\ Sh!Next
             \/ obj = "input" /\ In!Next
             \/ obj = "line" /\ Ed!Next
          /\ UNCHANGED <<mutex, event, pool, flag, heap>>
    /\ UNCHANGED obj

Spec == Init /\ [][Next]_vars

\* The bits of an event can be exchanged.
MCSymmetry == Permutations({e1, e2})

-----------------------------------------------------------------------------
(* The properties of the modules, each of its object.                      *)

\* The variables of the object have their types.
TypeOK ==
    /\ obj = "sem" => Sem!TypeOK
    /\ obj = "units" => Un!TypeOK
    /\ obj = "mutex" => Mtx!TypeOK
    /\ obj = "event" => Ev!TypeOK
    /\ obj = "mp" => Mp!TypeOK
    /\ obj = "blocks" => Bl!TypeOK
    /\ obj = "completion" => Cp!TypeOK
    /\ obj = "heap" => Hp!TypeOK
    /\ obj = "shell" => Sh!TypeOK
    /\ obj = "input" => In!TypeOK
    /\ obj = "line" => Ed!TypeOK

\* rt_sem_take and rt_sem_release: no thread waits while a unit is free;
\* rt_mp_alloc and rt_mp_free: no block stays free while threads wait that
\* nobody was woken for.
NoneLeftFree ==
    /\ obj \in {"sem", "units"} => Sem!NoFreeUnitWhileWaiting
    /\ obj \in {"mp", "blocks"} => Mp!NoBlockLeft

\* Units released are in sem->value or on their way to a woken thread.
UnitsConserved == obj \in {"sem", "units"} => Sem!UnitsConserved

\* After rt_sem_detach has returned no thread waits on the semaphore.
NoneLeftBehind == obj = "sem" => Sem!NoneLeftBehind

\* With RT_IPC_FLAG_PRIO rt_sem_release wakes a waiter of the highest priority.
WakesHighest == [][(obj \in {"sem", "units"}) => Sem!WakesHighest]_vars

\* Mutual exclusion, and agreement of the counts of rt_mutex_take and
\* rt_mutex_release with what the application was told.
OwnerHolds == obj = "mutex" => Mtx!OwnerHolds

\* Threads wait only for a mutex that has an owner, and not for their own.
WaitersHaveOwner == obj = "mutex" => Mtx!WaitersHaveOwner

\* Priority inheritance of rt_mutex_take.
Inherits == obj = "mutex" => Mtx!Inherits

\* With one mutex, a thread without it has its own priority.
Restored == obj = "mutex" => Mtx!Restored

\* No thread of lower priority runs while the owner a thread waits for could.
NoInversion == obj = "mutex" => Mtx!NoInversion

\* rt_event_send leaves no thread that waits for bits that are set.
NoneSatisfiedWaits == obj = "event" => Ev!NoneSatisfiedWaits

\* A thread woken by rt_event_send returns what it asked for.
ReceivesAsked == obj = "event" => Ev!ReceivesAsked

\* A bit that rt_event_send clears was received by one thread.
DeliveredOnce == [][obj = "event" => Ev!DeliveredOnce]_vars

\* rt_mp_alloc and rt_mp_free lose no block and hand none out twice, and the
\* count of free blocks is wrong by the threads that found their block gone.
BlocksConserved == obj \in {"mp", "blocks"} => Mp!BlocksConserved

\* No thread is suspended on a completion whose flag is set, and the shell
\* does not wait for rx_sem while characters lie in the ring that it was told
\* of.
NotMissed ==
    /\ obj = "completion" => Cp!NotMissed
    /\ obj = "shell" => Sh!NoKeyLeft
    /\ obj = "input" => In!NoKeyLeft

\* The blocks of the heap lie behind each other, linked both ways, no two free
\* ones are neighbours, and rt_malloc starts from a free one or from heap_end.
Tiled == obj = "heap" => Hp!Tiled

\* What the application has of the heap is what is in use and what is counted.
OwnedFits == obj = "heap" => Hp!OwnedFits

\* What the keys of finsh_thread_entry do to the line and to the history is
\* what they do in an editor.
IsEditor == Ed!IsEditor
=============================================================================
