---------------------------- MODULE MessageQueue ----------------------------
(***************************************************************************)
(* The message queue of src/src/ipc.c.  Messages live in nodes that are    *)
(* linked into a free list and into the queue; a message is copied into    *)
(* its node, and out of it, with interrupts enabled, while the node is on  *)
(* neither list.  rt_mq_send, rt_mq_urgent (both also from an interrupt),  *)
(* rt_mq_recv, rt_mq_control, rt_mq_detach, rt_mq_delete, rt_mq_init and   *)
(* rt_mq_create.                                                           *)
(***************************************************************************)
EXTENDS Ipc

CONSTANTS
    Message,     \* the contents of messages
    MaxMsgs,     \* mq->max_msgs
    Flag         \* RT_IPC_FLAG_FIFO or RT_IPC_FLAG_PRIO

MessageQueueAssumption ==
    /\ {"mq"} \subseteq SuspendList
    /\ MaxMsgs \in Nat \ {0}
    /\ Flag \in {"FIFO", "PRIO"}

VARIABLES
    next,        \* msg->next
    body,        \* what follows the link of a node
    head, tail,  \* mq->msg_queue_head, mq->msg_queue_tail
    free,        \* mq->msg_queue_free
    entry,       \* mq->entry
    msg,         \* the node that the call of thread t works on
    send,        \* the message that t sends, and whether it is urgent; for a
                 \* receiver a history: the message when its node was unlinked
    rem,         \* timeout of the call of t, as re-calculated
    since,       \* ticks since t started its timer
    live         \* the application uses the queue

queue == <<next, body, head, tail, free, entry>>
call  == <<msg, send, rem, since>>
vars  == <<k, pc, queue, call, live>>

Null == 0
Node == 1 .. MaxMsgs
Link == Node \union {Null}

Label == IpcLabel \union {"fill", "link", "copy", "give"}

Inside(t) == pc[t] \in {"wait", "woken"}
Woken     == Granted({t \in Thread : Inside(t)}, "mq")

NoSend == [body |-> CHOOSE v \in Message : TRUE, urgent |-> FALSE]

TypeOK ==
    /\ k \in KernelState
    /\ pc \in [Thread -> Label]
    /\ next \in [Node -> Link] /\ body \in [Node -> Message]
    /\ head \in Link /\ tail \in Link /\ free \in Link
    /\ entry \in 0 .. MaxMsgs
    /\ msg \in [Thread -> Link]
    /\ send \in [Thread -> [body : Message, urgent : BOOLEAN]]
    /\ rem \in [Thread -> Times \union 0 .. MaxTime]
    /\ since \in [Thread -> 0 .. MaxTime + 1]
    /\ live \in BOOLEAN

\* The free list as rt_mq_init builds it: the last node comes first.
AllFree == [n \in Node |-> n - 1]

Init ==
    /\ IpcInit
    /\ next = AllFree /\ free = MaxMsgs
    /\ body \in {[n \in Node |-> v] : v \in Message}
    /\ head = Null /\ tail = Null /\ entry = 0
    /\ msg = [t \in Thread |-> Null]
    /\ send = [t \in Thread |-> NoSend]
    /\ rem = [t \in Thread |-> 0] /\ since = [t \in Thread |-> 0]
    /\ live = TRUE

-----------------------------------------------------------------------------
(* The lists, as operators on links l = [next, head, tail].                *)

\* rt_mq_send: behind the tail. The link of n was set to Null when the
\* message was copied.
LinkedLast(l, n) ==
    [next |-> [m \in Node |-> IF m = l.tail THEN n ELSE l.next[m]],
     head |-> IF l.head = Null THEN n ELSE l.head,
     tail |-> n]

\* rt_mq_urgent: in front of the head.
LinkedFirst(l, n) ==
    [next |-> [l.next EXCEPT ![n] = l.head],
     head |-> n,
     tail |-> IF l.tail = Null THEN n ELSE l.tail]

\* Mutant: the tail still points at a node that has left.
UnlinkedKeepsTail == [next |-> next, head |-> next[head], tail |-> tail]

\* rt_mq_recv: the first node leaves.
Unlinked ==
    [next |-> next, head |-> next[head],
     tail |-> IF tail = head THEN Null ELSE tail]

Links == [next |-> next, head |-> head, tail |-> tail]

Become(l) == next' = l.next /\ head' = l.head /\ tail' = l.tail

\* The nodes of the list that starts at n, in order.
Nodes(n) ==
    LET walk[i \in 1 .. MaxMsgs + 1] ==
            IF i = 1 THEN n
            ELSE IF walk[i - 1] = Null THEN Null ELSE next[walk[i - 1]]
        len == Cardinality({i \in 1 .. MaxMsgs : walk[i] # Null})
    IN  [i \in 1 .. len |-> walk[i]]

-----------------------------------------------------------------------------

\* First section of rt_mq_send and rt_mq_urgent: a node leaves the free list.
\* A full queue returns -RT_EFULL at once.
rt_mq_send(t) ==
    /\ CallsFrom(t, "send") /\ live
    /\ free # Null
    /\ free' = next[free]
    /\ msg' = [msg EXCEPT ![t] = free]
    /\ \E v \in Message, u \in BOOLEAN :
          send' = [send EXCEPT ![t] = [body |-> v, urgent |-> u]]
    /\ Goto(t, "fill")
    /\ UNCHANGED <<k, next, body, head, tail, entry, rem, since, live>>

\* The copy, with interrupts enabled. Only rt_mq_send writes the link.
Fill(t) ==
    /\ At(t, "fill")
    /\ body' = [body EXCEPT ![msg[t]] = send[t].body]
    /\ next' = IF send[t].urgent THEN next ELSE [next EXCEPT ![msg[t]] = Null]
    /\ Goto(t, "link")
    /\ UNCHANGED <<k, head, tail, free, entry, call, live>>

Over(t) ==
    /\ msg' = [msg EXCEPT ![t] = Null]
    /\ send' = [send EXCEPT ![t] = NoSend]
    /\ rem' = [rem EXCEPT ![t] = 0] /\ since' = [since EXCEPT ![t] = 0]

Notified == IF k.susp["mq"] = <<>> THEN k ELSE rt_ipc_list_resume(k, "mq")

\* Second section: the node is linked, a waiting thread is resumed.
LinkNode(t) ==
    /\ At(t, "link")
    /\ Become(IF send[t].urgent THEN LinkedFirst(Links, msg[t])
                                ELSE LinkedLast(Links, msg[t]))
    /\ entry' = entry + 1
    /\ k' = Notified
    /\ Goto(t, IF k.susp["mq"] = <<>> THEN "run" ELSE "sched")
    /\ Over(t)
    /\ UNCHANGED <<body, free, live>>

\* A handler sends without being interrupted by a thread.
IsrSend ==
    /\ IsrCalls("isr_send") /\ live
    /\ free # Null
    /\ free' = next[free]
    /\ \E v \in Message, u \in BOOLEAN :
          /\ body' = [body EXCEPT ![free] = v]
          /\ Become(IF u THEN LinkedFirst(Links, free)
                    ELSE LinkedLast([Links EXCEPT !.next[free] = Null], free))
    /\ entry' = entry + 1
    /\ k' = IF k.susp["mq"] = <<>> THEN k ELSE rt_schedule(Notified)
    /\ UNCHANGED <<pc, call, live>>

\* The loop of rt_mq_recv with the timeout n that is left: a node is unlinked,
\* or the thread waits. A timeout of 0 returns -RT_ETIMEOUT.
Try(t, n) ==
    \/ /\ entry > 0
       /\ Become(Unlinked)
       /\ entry' = entry - 1
       /\ msg' = [msg EXCEPT ![t] = head]
       /\ send' = [send EXCEPT ![t].body = body[head]]
       /\ rem' = [rem EXCEPT ![t] = 0] /\ since' = [since EXCEPT ![t] = 0]
       /\ Goto(t, "copy")
       /\ UNCHANGED <<k, body, free>>
    \/ /\ entry = 0 /\ n # 0
       /\ k' = Block(k, "mq", t, Flag, n)
       /\ rem' = [rem EXCEPT ![t] = n] /\ since' = [since EXCEPT ![t] = 0]
       /\ Goto(t, "wait")
       /\ UNCHANGED <<queue, msg, send>>

rt_mq_recv(t) ==
    /\ CallsFrom(t, "recv") /\ live
    /\ \E n \in Times : Try(t, n)
    /\ UNCHANGED live

Recalculated(t) ==
    IF rem[t] > 0 THEN Max({rem[t] - since[t], 0}) ELSE rem[t]

\* Behind rt_schedule: an error ends the call, otherwise the loop goes on.
RecvGoesOn(t) ==
    /\ At(t, "woken")
    /\ \/ /\ k.err[t] # "EOK"
          /\ Goto(t, "run") /\ Over(t)
          /\ UNCHANGED <<k, queue>>
       \/ /\ k.err[t] = "EOK" /\ entry = 0 /\ Recalculated(t) = 0
          /\ k' = [k EXCEPT !.err[t] = "ETIMEOUT"]
          /\ Goto(t, "run") /\ Over(t)
          /\ UNCHANGED queue
       \/ k.err[t] = "EOK" /\ Try(t, Recalculated(t))
    /\ UNCHANGED live

\* Mutant: the node is on the free list while the message is copied.
CopyGivesFirst(t) ==
    /\ At(t, "copy")
    /\ free # msg[t]
    /\ next' = [next EXCEPT ![msg[t]] = free]
    /\ free' = msg[t]
    /\ UNCHANGED <<k, pc, body, head, tail, entry, call, live>>

\* The message is copied out with interrupts enabled.
Copy(t) ==
    /\ At(t, "copy")
    /\ Goto(t, "give")
    /\ UNCHANGED <<k, queue, call, live>>

\* Last section of rt_mq_recv.
Give(t) ==
    /\ At(t, "give")
    /\ next' = [next EXCEPT ![msg[t]] = free]
    /\ free' = msg[t]
    /\ Goto(t, "run") /\ Over(t)
    /\ UNCHANGED <<k, body, head, tail, entry, live>>

\* RT_IPC_CMD_RESET: the messages go to the free list, one after the other.
rt_mq_control(t) ==
    /\ CallsFrom(t, "control") /\ live
    /\ k' = rt_ipc_list_resume_all(k, "mq")
    /\ LET q == Nodes(head)
       IN  /\ next' = [n \in Node |->
                         IF n \notin Range(q) THEN next[n]
                         ELSE IF n = head THEN free
                         ELSE CHOOSE m \in Range(q) : next[m] = n]
           /\ free' = IF q = <<>> THEN free ELSE q[Len(q)]
           /\ tail' = IF tail \in Range(q) THEN Null ELSE tail
    /\ head' = Null /\ entry' = 0
    /\ Goto(t, "sched")
    /\ UNCHANGED <<body, call, live>>

\* rt_mq_detach and rt_mq_delete.
rt_mq_detach(t) ==
    /\ CallsFrom(t, "detach") /\ live
    /\ live' = FALSE
    /\ Goto(t, "detach")
    /\ UNCHANGED <<k, queue, call>>

DetachStep(t) ==
    /\ \/ WakesNext(t, "mq")
       \/ At(t, "detach") /\ k.susp["mq"] = <<>> /\ Goto(t, "run") /\ UNCHANGED k
    /\ UNCHANGED <<queue, call, live>>

\* rt_mq_init or rt_mq_create, once the calls on the old queue are over.
rt_mq_init(t) ==
    /\ CallsFrom(t, "init") /\ ~live
    /\ \A u \in Thread : ~Detaching(u) /\ ~Inside(u) /\ msg[u] = Null
    /\ next' = AllFree /\ free' = MaxMsgs
    /\ head' = Null /\ tail' = Null /\ entry' = 0
    /\ live' = TRUE
    /\ UNCHANGED <<k, pc, body, call>>

Ticks ==
    /\ Tick
    /\ since' = [t \in Thread |-> IF Inside(t) /\ rem[t] > 0 /\ since[t] <= MaxTime
                                  THEN since[t] + 1 ELSE since[t]]
    /\ UNCHANGED <<queue, msg, send, rem, live>>

Step(t) ==
    \/ rt_mq_send(t) \/ Fill(t) \/ LinkNode(t)
    \/ rt_mq_recv(t) \/ RecvGoesOn(t) \/ Copy(t) \/ Give(t)
    \/ rt_mq_control(t) \/ rt_mq_detach(t) \/ DetachStep(t) \/ rt_mq_init(t)

Other ==
    /\ \/ \E t \in Thread : Schedule(t) \/ Sleep(t) \/ Slept(t)
       \/ TimerCheck
    /\ UNCHANGED <<queue, call, live>>

Next == (\E t \in Thread : Step(t)) \/ IsrSend \/ Ticks \/ Other

Spec == Init /\ [][Next]_vars

-----------------------------------------------------------------------------
(* Properties.                                                             *)

\* The nodes the running calls work on.
Held == {msg[t] : t \in Thread} \ {Null}

\* Every node is in the queue, in the free list, or with one call that copies;
\* the queue has as many nodes as entry says, and ends at the tail. Two calls
\* that copy at the same time, and a reset in between, keep it that way.
NodesAccounted ==
    LET q == Nodes(head)
        f == Nodes(free)
    IN  /\ Len(q) = entry
        /\ IF q = <<>> THEN tail = Null ELSE tail = q[Len(q)] /\ next[tail] = Null
        /\ Node = Range(q) \union Range(f) \union Held
        /\ Len(q) + Len(f)
             + Cardinality({t \in Thread : msg[t] # Null}) = MaxMsgs

\* Nobody writes into a node while a call copies: the message that is linked
\* is the one that was filled in, and the one copied out is the one that was
\* at the head of the queue.
MessageIntact ==
    \A t \in Thread : pc[t] \in {"link", "copy"} => body[msg[t]] = send[t].body

\* No message lies in the queue while threads wait, but for messages that
\* threads woken for them are about to receive.
NoMessageLeft == live /\ k.susp["mq"] # <<>> => entry <= Cardinality(Woken)

\* The linked list is a queue: messages are received once, in the order in
\* which they were linked; urgent ones go to the front.
Abstract == INSTANCE FifoQueue WITH
    Item <- Message, Capacity <- MaxMsgs, Urgent <- TRUE, Lossy <- FALSE, Chunk <- 1,
    queue <- [i \in DOMAIN Nodes(head) |-> body[Nodes(head)[i]]]

IsQueue == Abstract!Spec
=============================================================================
