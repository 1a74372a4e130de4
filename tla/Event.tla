------------------------------- MODULE Event -------------------------------
(***************************************************************************)
(* The event object of src/src/ipc.c: a set of event bits and threads that *)
(* wait for all or for one of some bits.  rt_event_send (also from an      *)
(* interrupt), rt_event_recv, rt_event_control, rt_event_detach,           *)
(* rt_event_delete, rt_event_init and rt_event_create.                     *)
(***************************************************************************)
EXTENDS Ipc

CONSTANTS
    Bits,        \* the bits of an event set
    Flag         \* RT_IPC_FLAG_FIFO or RT_IPC_FLAG_PRIO

EventAssumption ==
    /\ {"event"} \subseteq SuspendList
    /\ Flag \in {"FIFO", "PRIO"}

VARIABLES
    set,         \* event->set
    eset,        \* thread->event_set
    info,        \* thread->event_info
    asked,       \* history: the bits the call of t asked for
    live         \* the application uses the event

vars == <<k, pc, set, eset, info, asked, live>>

\* RT_EVENT_FLAG_AND or RT_EVENT_FLAG_OR, with or without RT_EVENT_FLAG_CLEAR
Option == [mode : {"AND", "OR"}, clear : BOOLEAN]

\* A set of 0 is refused by both functions.
Sets == SUBSET Bits \ {{}}

Idling == [mode |-> "OR", clear |-> FALSE]

Inside(t) == pc[t] \in {"wait", "woken"}

\* The threads inside rt_event_recv that rt_event_send has woken.
Woken == Granted({t \in Thread : Inside(t)}, "event")

TypeOK ==
    /\ k \in KernelState
    /\ pc \in [Thread -> IpcLabel]
    /\ set \subseteq Bits
    /\ eset \in [Thread -> SUBSET Bits]
    /\ info \in [Thread -> Option]
    /\ asked \in [Thread -> SUBSET Bits]
    /\ live \in BOOLEAN

Init ==
    /\ IpcInit
    /\ set = {}
    /\ eset = [t \in Thread |-> {}]
    /\ info = [t \in Thread |-> Idling]
    /\ asked = [t \in Thread |-> {}]
    /\ live = TRUE

-----------------------------------------------------------------------------

\* The test of rt_event_send and rt_event_recv: set have satisfies a wait for
\* s with option o.
Satisfied(s, o, have) ==
    IF o.mode = "AND" THEN s \subseteq have ELSE s \intersect have # {}

\* Mutant: thread t receives all bits that are set.
GotAll(t, have) == have

\* The bits that thread t receives out of have.
Got(t, have) == have \intersect eset[t]

\* Mutant: the bits that a thread receives stay set.
LeftAll(s, o, have) == have

\* What a thread that receives s leaves of have.
Left(s, o, have) == IF o.clear THEN have \ s ELSE have

\* Mutant: the walk ends at the first thread.
SentToFirst(have) ==
    LET t == Head(k.susp["event"])
    IN  IF k.susp["event"] # <<>> /\ Satisfied(eset[t], info[t], have)
        THEN [kernel |-> rt_thread_resume(k, t),
              set    |-> Left(Got(t, have), info[t], have),
              eset   |-> [eset EXCEPT ![t] = Got(t, have)]]
        ELSE [kernel |-> k, set |-> have, eset |-> eset]

\* rt_event_send walks the list once. R[i] is what its first i threads leave:
\* the kernel, the event set and the sets the threads receive.
Sent(have) ==
    LET W == k.susp["event"]
        R[i \in 0 .. Len(W)] ==
            IF i = 0 THEN [kernel |-> k, set |-> have, eset |-> eset]
            ELSE LET r == R[i - 1]
                     t == W[i]
                     s == Got(t, r.set)
                 IN  IF Satisfied(eset[t], info[t], r.set)
                     THEN [kernel |-> rt_thread_resume(r.kernel, t),
                           set    |-> Left(s, info[t], r.set),
                           eset   |-> [r.eset EXCEPT ![t] = s]]
                     ELSE r
    IN  R[Len(W)]

rt_event_send(t, s) ==
    /\ CallsFrom(t, "send") /\ live
    /\ LET r == Sent(set \union s)
       IN  /\ set' = r.set /\ eset' = r.eset /\ k' = r.kernel
           /\ Goto(t, IF r.kernel = k THEN "run" ELSE "sched")
    /\ UNCHANGED <<info, asked, live>>

IsrSend(s) ==
    /\ IsrCalls("isr_send") /\ live
    /\ LET r == Sent(set \union s)
       IN  /\ set' = r.set /\ eset' = r.eset
           /\ k' = IF r.kernel = k THEN k ELSE rt_schedule(r.kernel)
    /\ UNCHANGED <<pc, info, asked, live>>

\* rt_event_recv for the bits s: they are there, or the call fails at once,
\* or the thread waits for them.
Recv(t, s, o) ==
    \/ /\ Satisfied(s, o, set)
       /\ set' = Left(s, o, set)
       /\ k' = [k EXCEPT !.err[t] = "EOK"]
       /\ UNCHANGED <<pc, eset, info, asked>>
    \/ /\ ~Satisfied(s, o, set) /\ 0 \in Times
       /\ k' = [k EXCEPT !.err[t] = "ETIMEOUT"]
       /\ UNCHANGED <<pc, set, eset, info, asked>>
    \/ /\ ~Satisfied(s, o, set)
       /\ \E n \in Times \ {0} : k' = Block(k, "event", t, Flag, n)
       /\ Goto(t, "wait")
       /\ eset' = [eset EXCEPT ![t] = s]
       /\ info' = [info EXCEPT ![t] = o]
       /\ asked' = [asked EXCEPT ![t] = s]
       /\ UNCHANGED set

rt_event_recv(t) ==
    /\ CallsFrom(t, "recv") /\ live
    /\ \E s \in Sets, o \in Option : Recv(t, s, o)
    /\ UNCHANGED live

\* Behind rt_schedule: an error, or the bits in thread->event_set. What the
\* fields hold after that is not used again.
RecvReturns(t) ==
    /\ At(t, "woken")
    /\ Goto(t, "run")
    /\ eset' = [eset EXCEPT ![t] = {}]
    /\ info' = [info EXCEPT ![t] = Idling]
    /\ asked' = [asked EXCEPT ![t] = {}]
    /\ UNCHANGED <<k, set, live>>

\* RT_IPC_CMD_RESET
rt_event_control(t) ==
    /\ CallsFrom(t, "control") /\ live
    /\ k' = rt_ipc_list_resume_all(k, "event")
    /\ set' = {}
    /\ Goto(t, "sched")
    /\ UNCHANGED <<eset, info, asked, live>>

\* rt_event_detach and rt_event_delete.
rt_event_detach(t) ==
    /\ CallsFrom(t, "detach") /\ live
    /\ live' = FALSE
    /\ Goto(t, "detach")
    /\ UNCHANGED <<k, set, eset, info, asked>>

DetachStep(t) ==
    /\ \/ WakesNext(t, "event")
       \/ At(t, "detach") /\ k.susp["event"] = <<>> /\ Goto(t, "run") /\ UNCHANGED k
    /\ UNCHANGED <<set, eset, info, asked, live>>

\* rt_event_init or rt_event_create.
rt_event_init(t) ==
    /\ CallsFrom(t, "init") /\ ~live
    /\ \A u \in Thread : ~Detaching(u)
    /\ set' = {}
    /\ live' = TRUE
    /\ UNCHANGED <<k, pc, eset, info, asked>>

Step(t) ==
    \/ (\E s \in Sets : rt_event_send(t, s)) \/ rt_event_recv(t) \/ RecvReturns(t)
    \/ rt_event_control(t) \/ rt_event_detach(t) \/ DetachStep(t) \/ rt_event_init(t)

Next ==
    \/ \E t \in Thread : Step(t)
    \/ \E s \in Sets : IsrSend(s)
    \/ Background /\ UNCHANGED <<set, eset, info, asked, live>>

Spec == Init /\ [][Next]_vars

-----------------------------------------------------------------------------
(* Properties.                                                             *)

\* No thread waits for bits that are set: rt_event_send looks at every thread
\* of the list once, while the threads before it clear bits.
NoneSatisfiedWaits ==
    \A t \in Range(k.susp["event"]) : ~Satisfied(eset[t], info[t], set)

\* A thread that was woken for its bits returns what it asked for: all of the
\* bits, or some of them, also when its time ran out or the event was reset
\* shortly before or after it was woken.
ReceivesAsked ==
    \A t \in Woken :
        /\ eset[t] # {} /\ eset[t] \subseteq asked[t]
        /\ info[t].mode = "AND" => eset[t] = asked[t]

\* An event is delivered, and once: the bits that were set, and the ones that
\* are sent now, stay set, but for those that a thread which clears receives,
\* and no two such threads receive the same bit.
DeliveredOnce ==
    \A s \in Sets :
        (\E t \in Thread : rt_event_send(t, s)) \/ IsrSend(s) =>
            LET C == {t \in Woken' \ Woken : info[t].clear}
            IN  /\ UNION {eset'[t] : t \in C} = (set \union s) \ set'
                /\ \A t, u \in C : t # u => eset'[t] \intersect eset'[u] = {}
=============================================================================
