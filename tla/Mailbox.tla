------------------------------ MODULE Mailbox ------------------------------
(***************************************************************************)
(* The mailbox of src/src/ipc.c: a ring of Size mails, threads that wait   *)
(* for mail on one list and threads that wait for room on another.         *)
(* rt_mb_send_wait, rt_mb_send, rt_mb_recv (also from an interrupt),       *)
(* rt_mb_control, rt_mb_detach, rt_mb_delete, rt_mb_init, rt_mb_create.    *)
(***************************************************************************)
EXTENDS Ipc

CONSTANTS
    Mail,        \* the values that are sent
    Size,        \* mb->size
    Flag         \* RT_IPC_FLAG_FIFO or RT_IPC_FLAG_PRIO

MailboxAssumption ==
    /\ {"recv", "send"} \subseteq SuspendList
    /\ Size \in Nat \ {0}
    /\ Flag \in {"FIFO", "PRIO"}

VARIABLES
    pool,        \* mb->msg_pool
    entry,       \* mb->entry
    in,          \* mb->in_offset
    out,         \* mb->out_offset
    live,        \* the application uses the mailbox
    call,        \* the call t is in: its list of the mailbox, and its mail
    rem,         \* timeout of that call, as re-calculated
    since,       \* ticks since it started its timer
    spent,       \* history: ticks since the call was made
    limit        \* history: timeout it was made with

box   == <<pool, entry, in, out>>
times == <<rem, since, spent, limit>>
vars  == <<k, pc, box, live, call, times>>

NoCall == <<"recv", CHOOSE v \in Mail : TRUE>>

\* Counting ticks ends one behind the longest timeout.
Late == MaxTime + 1

TypeOK ==
    /\ k \in KernelState
    /\ pc \in [Thread -> IpcLabel]
    /\ pool \in [0 .. Size - 1 -> Mail]
    /\ entry \in 0 .. Size /\ in \in 0 .. Size - 1 /\ out \in 0 .. Size - 1
    /\ live \in BOOLEAN
    /\ call \in [Thread -> {"recv", "send"} \X Mail]
    /\ rem \in [Thread -> Times \union 0 .. MaxTime]
    /\ since \in [Thread -> 0 .. Late]
    /\ spent \in [Thread -> 0 .. Late]
    /\ limit \in [Thread -> Times \union {0}]

Empty == entry = 0 /\ in = 0 /\ out = 0

Init ==
    /\ IpcInit
    /\ pool \in {[i \in 0 .. Size - 1 |-> v] : v \in Mail}
    /\ call = [t \in Thread |-> NoCall]
    /\ Empty
    /\ live = TRUE
    /\ rem = [t \in Thread |-> 0] /\ since = [t \in Thread |-> 0]
    /\ spent = [t \in Thread |-> 0] /\ limit = [t \in Thread |-> 0]

-----------------------------------------------------------------------------

\* Thread t is inside a call that has suspended it.
Inside(t) == pc[t] \in {"wait", "woken"}

\* The calls inside which the mailbox has woken the thread.
Woken(q) == Granted({t \in Thread : Inside(t) /\ call[t][1] = q}, q)

\* Mutant: a thread is only woken when the mailbox was empty, or full.
ResumedAtEdge(j, q) ==
    IF j.susp[q] = <<>> \/ entry \in 1 .. Size - 1 THEN j ELSE rt_ipc_list_resume(j, q)

\* The other list is told about the mail or the room: its first thread, if
\* there is one, is resumed.
Resumed(j, q) == IF j.susp[q] = <<>> THEN j ELSE rt_ipc_list_resume(j, q)

\* Mutant: the offset wraps one too late.
DepositWrapsLate(v) ==
    /\ entry < Size
    /\ pool' = [pool EXCEPT ![in] = v]
    /\ in' = IF in + 1 > Size THEN 0 ELSE in + 1
    /\ entry' = entry + 1
    /\ UNCHANGED out

Deposit(v) ==
    /\ entry < Size
    /\ pool' = [pool EXCEPT ![in] = v]
    /\ in' = IF in + 1 >= Size THEN 0 ELSE in + 1
    /\ entry' = entry + 1
    /\ UNCHANGED out

Collect ==
    /\ entry > 0
    /\ out' = IF out + 1 >= Size THEN 0 ELSE out + 1
    /\ entry' = entry - 1
    /\ UNCHANGED <<pool, in>>

\* The values of a call that is over mean nothing any more.
Forget(t) ==
    /\ rem' = [rem EXCEPT ![t] = 0] /\ since' = [since EXCEPT ![t] = 0]
    /\ spent' = [spent EXCEPT ![t] = 0] /\ limit' = [limit EXCEPT ![t] = 0]
    /\ call' = [call EXCEPT ![t] = NoCall]

\* The call is done: rt_schedule follows if a thread was resumed.
Done(t, q) ==
    /\ k' = Resumed(k, q)
    /\ Goto(t, IF k.susp[q] = <<>> THEN "run" ELSE "sched")
    /\ Forget(t)

\* The call returns an error: its time is up, or the mailbox was reset.
Fails(t, j) ==
    /\ k' = j
    /\ Goto(t, "run")
    /\ Forget(t)
    /\ UNCHANGED box

\* Thread t waits, at most n ticks.
Waits(t, q, v, n) ==
    /\ n # 0
    /\ k' = Block(k, q, t, Flag, n)
    /\ Goto(t, "wait")
    /\ call' = [call EXCEPT ![t] = <<q, v>>]
    /\ rem' = [rem EXCEPT ![t] = n]
    /\ since' = [since EXCEPT ![t] = 0]
    /\ UNCHANGED box

\* The body of both functions, with the timeout n that is left. A call that
\* finds its time over after it was woken clears the error first; rt_mb_recv
\* then stores the timeout there.
Try(t, q, v, n) ==
    IF q = "send"
    THEN \/ Deposit(v) /\ Done(t, "recv")
         \/ entry = Size /\ Waits(t, q, v, n)
    ELSE \/ Collect /\ Done(t, "send")
         \/ entry = 0 /\ Waits(t, q, v, n)

\* rt_mb_send_wait, rt_mb_send and rt_mb_recv. A timeout of 0 on a full (an
\* empty) mailbox returns at once and changes nothing.
rt_mb_call(t) ==
    /\ live
    /\ \E q \in {"recv", "send"}, v \in Mail, n \in Times :
          /\ CallsFrom(t, q)
          /\ Try(t, q, v, n)
          /\ Inside(t)' => /\ limit' = [limit EXCEPT ![t] = n]
                           /\ spent' = [spent EXCEPT ![t] = 0]
    /\ UNCHANGED live

\* Mutant: the timeout is not re-calculated.
NotRecalculated(t) == rem[t]

Recalculated(t) ==
    IF rem[t] > 0 THEN Max({rem[t] - since[t], 0}) ELSE rem[t]

\* Behind rt_schedule: an error ends the call, otherwise the test of the loop
\* is made again with the time that is left.
CallGoesOn(t) ==
    /\ At(t, "woken")
    /\ LET q == call[t][1]
           n == Recalculated(t)
           full == IF q = "send" THEN entry = Size ELSE entry = 0
       IN  \/ k.err[t] # "EOK" /\ Fails(t, k)
           \/ /\ k.err[t] = "EOK" /\ full /\ n = 0
              /\ Fails(t, [k EXCEPT !.err[t] = IF q = "recv" THEN "ETIMEOUT" ELSE @])
           \/ /\ k.err[t] = "EOK"
              /\ Try(t, q, call[t][2], n)
              /\ Inside(t)' => UNCHANGED <<limit, spent>>
    /\ UNCHANGED live

\* The interrupt handler resumes a thread of list q and reschedules.
Told(q) ==
    k' = IF k.susp[q] = <<>> THEN k ELSE rt_schedule(Resumed(k, q))

\* rt_mb_send, or rt_mb_recv with the timeout 0, in an interrupt handler.
IsrCall ==
    /\ live
    /\ \/ IsrCalls("isr_send") /\ (\E v \in Mail : Deposit(v)) /\ Told("recv")
       \/ IsrCalls("isr_recv") /\ Collect /\ Told("send")
    /\ UNCHANGED <<pc, live, call, times>>

\* RT_IPC_CMD_RESET
rt_mb_control(t) ==
    /\ CallsFrom(t, "control") /\ live
    /\ k' = rt_ipc_list_resume_all(rt_ipc_list_resume_all(k, "recv"), "send")
    /\ entry' = 0 /\ in' = 0 /\ out' = 0
    /\ Goto(t, "sched")
    /\ UNCHANGED <<pool, live, call, times>>

\* rt_mb_detach and rt_mb_delete: first the receivers, then the senders.
rt_mb_detach(t) ==
    /\ CallsFrom(t, "detach") /\ live
    /\ live' = FALSE
    /\ call' = [call EXCEPT ![t][1] = "recv"]
    /\ Goto(t, "detach")
    /\ UNCHANGED <<k, box, times>>

DetachStep(t) ==
    /\ \/ WakesNext(t, call[t][1]) /\ UNCHANGED call
       \/ /\ At(t, "detach") /\ k.susp[call[t][1]] = <<>>
          /\ call' = [call EXCEPT ![t][1] = IF @ = "recv" THEN "send" ELSE "recv"]
          /\ IF call[t][1] = "recv" THEN UNCHANGED pc ELSE Goto(t, "run")
          /\ UNCHANGED k
    /\ UNCHANGED <<box, live, times>>

\* rt_mb_init or rt_mb_create, once the calls on the old mailbox are over.
rt_mb_init(t) ==
    /\ CallsFrom(t, "init") /\ ~live
    /\ \A u \in Thread : ~Detaching(u) /\ ~Inside(u)
    /\ entry' = 0 /\ in' = 0 /\ out' = 0
    /\ live' = TRUE
    /\ UNCHANGED <<k, pc, pool, call, times>>

\* The tick counts in every call that waits.
Ticks ==
    /\ Tick
    /\ since' = [t \in Thread |-> IF Inside(t) /\ rem[t] > 0 /\ since[t] < Late
                                  THEN since[t] + 1 ELSE since[t]]
    /\ spent' = [t \in Thread |-> IF Inside(t) /\ limit[t] > 0 /\ spent[t] < Late
                                  THEN spent[t] + 1 ELSE spent[t]]
    /\ UNCHANGED <<box, live, call, rem, limit>>

Step(t) ==
    \/ rt_mb_call(t) \/ CallGoesOn(t)
    \/ rt_mb_control(t) \/ rt_mb_detach(t) \/ DetachStep(t) \/ rt_mb_init(t)

Other ==
    /\ \/ \E t \in Thread : Schedule(t) \/ Sleep(t) \/ Slept(t)
       \/ TimerCheck
    /\ UNCHANGED <<box, live, call, times>>

Next == (\E t \in Thread : Step(t)) \/ IsrCall \/ Ticks \/ Other

Spec == Init /\ [][Next]_vars

-----------------------------------------------------------------------------
(* Properties.                                                             *)

\* No mail lies in the mailbox while threads wait for mail, but for mail that
\* threads woken for it are about to collect: rt_mb_send_wait wakes one
\* receiver for each mail, and one that finds its mail taken waits again.
NoMailLeft == k.susp["recv"] # <<>> => entry <= Cardinality(Woken("recv"))

\* No room is left while threads wait for room, but for the room that threads
\* woken for it are about to fill.
NoRoomLeft == k.susp["send"] # <<>> => Size - entry <= Cardinality(Woken("send"))

\* A call that is woken and has to wait again does not wait longer for it:
\* its timer ends with the timeout the call was made with (ipc.c:1486-1493).
DeadlineKept ==
    \A t \in Thread : Inside(t) /\ t \in Range(k.tmr) /\ limit[t] > 0
        => k.left[t] + spent[t] = limit[t]

\* The ring is a queue of Size mails: mail is received once, in the order it
\* was sent, whoever sends and receives in between.
Queue == INSTANCE FifoQueue WITH
    Item <- Mail, Capacity <- Size, Urgent <- FALSE, Lossy <- FALSE, Chunk <- 1,
    queue <- [i \in 1 .. entry |-> pool[(out + i - 1) % Size]]

IsQueue == Queue!Spec
=============================================================================
