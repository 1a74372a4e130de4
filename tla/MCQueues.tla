------------------------------ MODULE MCQueues ------------------------------
(* Small instances of the objects that pass data between threads and       *)
(* interrupt handlers.  An application uses one of them: obj names it in   *)
(* each behaviour, and the variables of the others are at rest.  Two       *)
(* threads besides the idle one; three for the readers and writers of a    *)
(* pipe, whose bytes are all the same, and for the writers of a serial     *)
(* device, and one for a pipe of two bytes and for a serial reader.        *)
EXTENDS Ipc, TLC

CONSTANTS a, b, c, idle, None

VARIABLES
    obj,                               \* the object of this behaviour
    live, rem, since,                  \* Mailbox and MessageQueue; live also Uart
    call,                              \* all but MessageQueue
    pool, entry, in, out, spent, limit,         \* Mailbox
    next, body, head, tail, free, linked, msg, send,    \* MessageQueue
    ring, put, get, lwm, masked,       \* DataQueue
    rb, flag,                          \* Pipe
    rx, tx, node, list, count, used    \* Uart; free also MessageQueue

shared  == <<live, rem, since>>
mailbox == <<pool, entry, in, out, spent, limit>>
mqueue  == <<next, body, head, tail, linked, msg, send>>
dqueue  == <<ring, put, get, lwm, masked>>
pipe    == <<rb, flag>>
uart    == <<rx, tx, node, list, count, used>>
vars    == <<k, pc, obj, shared, call, mailbox, mqueue, free, dqueue, pipe, uart>>

MCPriority == (a :> 0) @@ (b :> 1) @@ (c :> 1) @@ (idle :> 2)
MCTick     == [t \in {a, b, c, idle} |-> 1]
MCTimes    == {RT_WAITING_FOREVER, 0, 1}

\* A mailbox that is reset and detached, whose mails are all the same, and one
\* with mails that differ.
Mb == INSTANCE Mailbox WITH
    Calls <- {"send", "recv", "isr_send", "isr_recv", "control", "detach", "init"},
    Booted <- {a, b, idle}, Times <- {RT_WAITING_FOREVER, 2}, MaxTime <- 2,
    Mail <- {1}, Size <- 2, Flag <- "FIFO"

Ml == INSTANCE Mailbox WITH
    Calls <- {"send", "recv", "isr_send", "isr_recv"},
    Booted <- {a, b, idle}, Times <- {RT_WAITING_FOREVER, 1},
    Mail <- {1, 2}, Size <- 2, Flag <- "FIFO"

Mq == INSTANCE MessageQueue WITH
    Calls <- {"send", "recv", "isr_send", "control", "detach", "init", "sleep"},
    Booted <- {a, b, idle}, Times <- {RT_WAITING_FOREVER, 0, 2}, MaxTime <- 2,
    Message <- {1, 2}, MaxMsgs <- 2, Flag <- "FIFO", entry <- linked

Dq == INSTANCE DataQueue WITH
    Calls <- {"push", "pop", "isr_push", "isr_pop", "reset", "init"},
    Booted <- {a, b, idle}, Item <- {1, 2}, Size <- 2, Lwm <- 1,
    IndexMod <- 65536, MaxPut <- 4

PipeCalls == {"read", "write", "isr_read", "isr_write"}

\* A pipe whose forced writes have any length and whose readers do not wait,
\* and one where forced writes fit.
Pp == INSTANCE Pipe WITH
    Calls <- PipeCalls, Byte <- {0}, Size <- 4, Lengths <- {1, 3}, Overruns <- TRUE,
    Flags <- {{"BLOCK_RD", "BLOCK_WR"}, {"BLOCK_RD"}, {"BLOCK_WR"}, {"FORCE_WR"}}

By == INSTANCE Pipe WITH
    Calls <- PipeCalls, Booted <- {a, idle},
    Byte <- {0, 1}, Size <- 4, Lengths <- {1, 3}, Overruns <- FALSE,
    Flags <- {{"BLOCK_RD", "BLOCK_WR"}, {}, {"FORCE_WR"}, {"FORCE_WR", "BLOCK_RD"}}

\* Three writers for two data nodes, or one reader.
Tx == INSTANCE Uart WITH
    Calls <- {"write", "isr_tx"}, Char <- {0}, RxSize <- 2, Data <- {"d", "e"}, Nodes <- 2,
    CountMod <- 8

Rx == INSTANCE Uart WITH
    Calls <- {"read", "isr_rx"}, Booted <- {a, idle},
    Char <- {0, 1}, RxSize <- 4, Data <- {"d"}, Nodes <- 1, CountMod <- 8

ASSUME QueuesAssumption ==
    /\ Mb!MailboxAssumption /\ Ml!MailboxAssumption /\ Mq!MessageQueueAssumption
    /\ Dq!DataQueueAssumption /\ Pp!PipeAssumption /\ By!PipeAssumption
    /\ Tx!UartAssumption /\ Rx!UartAssumption

-----------------------------------------------------------------------------

NoShared  == live = None /\ rem = None /\ since = None
NoMailbox == /\ pool = None /\ entry = 0 /\ in = 0 /\ out = 0 /\ spent = None
             /\ limit = None
NoMqueue  == /\ next = None /\ body = None /\ head = 0 /\ tail = 0
             /\ linked = 0 /\ msg = None /\ send = None
NoDqueue  == ring = None /\ put = 0 /\ get = 0 /\ lwm = None /\ masked = None
NoPipe    == rb = Pp!rt_ringbuffer_init(None) /\ flag = None
NoUart    == /\ rx = [read |-> 0, save |-> 0] /\ tx = [head |-> 0] /\ node = None
             /\ list = None /\ count = None /\ used = None

Init ==
    \/ /\ \/ obj = "mb" /\ Mb!Init
          \/ obj = "mails" /\ Ml!Init
       /\ NoMqueue /\ free = 0 /\ NoDqueue /\ NoPipe /\ NoUart
    \/ /\ obj = "mq" /\ Mq!Init
       /\ call = None /\ NoMailbox /\ NoDqueue /\ NoPipe /\ NoUart
    \/ /\ obj = "dq" /\ Dq!Init
       /\ NoShared /\ NoMailbox /\ NoMqueue /\ free = 0 /\ NoPipe /\ NoUart
    \/ /\ \/ obj = "pipe" /\ Pp!Init
          \/ obj = "bytes" /\ By!Init
       /\ NoShared /\ NoMailbox /\ NoMqueue /\ free = 0 /\ NoDqueue /\ NoUart
    \/ /\ \/ obj = "tx" /\ Tx!Init
          \/ obj = "rx" /\ Rx!Init
       /\ rem = None /\ since = None /\ call = None
       /\ NoMailbox /\ NoMqueue /\ NoDqueue /\ NoPipe

Next ==
    /\ \/ /\ \/ obj = "mb" /\ Mb!Next
             \/ obj = "mails" /\ Ml!Next
          /\ UNCHANGED <<mqueue, free, dqueue, pipe, uart>>
       \/ obj = "mq" /\ Mq!Next /\ UNCHANGED <<call, mailbox, dqueue, pipe, uart>>
       \/ /\ obj = "dq" /\ Dq!Next
          /\ UNCHANGED <<shared, mailbox, mqueue, free, pipe, uart>>
       \/ /\ \/ obj = "pipe" /\ Pp!Next
             \/ obj = "bytes" /\ By!Next
          /\ UNCHANGED <<shared, mailbox, mqueue, free, dqueue, uart>>
       \/ /\ \/ obj = "tx" /\ Tx!Next
             \/ obj = "rx" /\ Rx!Next
          /\ UNCHANGED <<rem, since, call, mailbox, mqueue, dqueue, pipe>>
    /\ UNCHANGED obj

Spec == Init /\ [][Next]_vars

-----------------------------------------------------------------------------
(* The properties of the modules, each of its object.                      *)

\* The variables of the object have their types.
TypeOK ==
    /\ obj = "mb" => Mb!TypeOK
    /\ obj = "mails" => Ml!TypeOK
    /\ obj = "mq" => Mq!TypeOK
    /\ obj = "dq" => Dq!TypeOK
    /\ obj = "pipe" => Pp!TypeOK
    /\ obj = "bytes" => By!TypeOK
    /\ obj = "tx" => Tx!TypeOK
    /\ obj = "rx" => Rx!TypeOK

\* Nothing lies in a queue beside threads that wait for it, but for what was
\* put there for threads that were woken: rt_mb_send_wait, rt_mq_send and
\* rt_data_queue_push wake one receiver for each item. What rt_serial_write
\* queues does not lie there while the DMA rests.
NoItemLeft ==
    /\ obj \in {"mb", "mails"} => Mb!NoMailLeft
    /\ obj = "mq" => Mq!NoMessageLeft
    /\ obj = "dq" => Dq!NoItemLeft
    /\ obj = "tx" => Tx!NoDataLeft

\* rt_mb_recv, rt_hw_serial_dma_tx_isr: no room, or node, is left beside
\* senders that wait for it.
NoRoomLeft ==
    /\ obj \in {"mb", "mails"} => Mb!NoRoomLeft
    /\ obj = "tx" => Tx!NoNodeLeft

\* Waiting again does not extend the timeout of rt_mb_send_wait and rt_mb_recv.
DeadlineKept == obj = "mb" => Mb!DeadlineKept

\* rt_mq_send and rt_mq_recv lose no node, and share none; neither do
\* rt_serial_write and the interrupt of the DMA.
NodesAccounted ==
    /\ obj = "mq" => Mq!NodesAccounted
    /\ obj = "tx" => Tx!NodesAccounted

\* Nobody writes into a node of the message queue while a call copies.
MessageIntact == obj = "mq" => Mq!MessageIntact

\* The readers and the writers of a pipe do not wait for each other.
NoStandoff ==
    /\ obj = "pipe" => Pp!NoStandoff
    /\ obj = "bytes" => By!NoStandoff

\* The mailbox, the message queue, the data queue, the pipe and both sides of
\* the serial driver implement the abstract queue; of the pipe "pipe", whose
\* bytes are alike, this says how many there are.
IsQueue ==
    /\ Ml!IsQueue /\ Mq!IsQueue /\ Dq!IsQueue /\ By!IsQueue
    /\ Tx!TxQueue!Spec /\ Rx!RxQueue!Spec
=============================================================================
