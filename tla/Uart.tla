-------------------------------- MODULE Uart --------------------------------
(***************************************************************************)
(* The serial driver of the board (drivers/serial.c of the BSP).  The      *)
(* receive interrupt saves characters in a ring that rt_serial_read        *)
(* empties; a character that finds the ring full pushes out the oldest.    *)
(* In DMA mode rt_serial_write takes a data node from a memory pool, waits *)
(* for one if it must, and links it into a list; the DMA works on the head *)
(* of the list and its interrupt goes on to the next node.  Polling mode   *)
(* has no state besides the registers of the USART.                        *)
(***************************************************************************)
EXTENDS Ipc

CONSTANTS
    Char,        \* the characters received
    RxSize,      \* UART_RX_BUFFER_SIZE
    Data,        \* the data_ptr and data_size of a write
    Nodes,       \* UART_TX_DMA_NODE_SIZE
    CountMod     \* width of the pool's block_free_count

UartAssumption ==
    /\ {"mp"} \subseteq SuspendList
    /\ RxSize \in Nat \ {0, 1} /\ Nodes \in Nat \ {0}
    /\ CountMod \in Nat /\ CountMod > Nodes

VARIABLES
    rx,                         \* uart->int_rx
    tx,                         \* uart->dma_tx, and what the DMA transmits
    node,                       \* data_node of the call of t, once allocated
    list, free, count, used,    \* uart->dma_tx->data_node_mp
    live                        \* which is in use once it was initialised

pool == <<list, free, count, used, live>>
vars == <<k, pc, rx, tx, node, pool>>

\* The pool of the data nodes; a write waits for a node for ever.
Mp == INSTANCE MemPool WITH
    Total <- Nodes, MaxPended <- Cardinality(Thread),
    Calls <- {"alloc"}, Times <- {RT_WAITING_FOREVER}

Null  == 0
Node  == 1 .. Nodes
Link  == Node \union {Null}
Index == 0 .. RxSize - 1

\* Nothing to transmit: the DMA is disabled.
Off == "off"

TypeOK ==
    /\ Mp!TypeOK
    /\ rx \in [buffer : [Index -> Char], read : Index, save : Index]
    /\ tx \in [next : [Node -> Link], data : [Node -> Data],
               head : Link, tail : Link, dma : Data \union {Off}]
    /\ node \in [Thread -> Link]

\* rt_serial_init. What the ring and the nodes hold is not read before it is
\* written.
Init ==
    /\ Mp!Init
    /\ rx = [buffer |-> [i \in Index |-> CHOOSE c \in Char : TRUE],
             read |-> 0, save |-> 0]
    /\ tx = [next |-> [n \in Node |-> Null],
             data |-> [n \in Node |-> CHOOSE d \in Data : TRUE],
             head |-> Null, tail |-> Null, dma |-> Off]
    /\ node = [t \in Thread |-> Null]

-----------------------------------------------------------------------------
(* Receiving.                                                              *)

Behind(i) == IF i + 1 >= RxSize THEN 0 ELSE i + 1

\* One turn of the loop of rt_hw_serial_isr.
Saved(r, c) ==
    [buffer |-> [r.buffer EXCEPT ![r.save] = c],
     save   |-> Behind(r.save),
     read   |-> IF Behind(r.save) = r.read THEN Behind(r.read) ELSE r.read]

rt_hw_serial_isr ==
    /\ IsrCalls("isr_rx")
    /\ \E c \in Char : rx' = Saved(rx, c)
    /\ UNCHANGED <<k, pc, tx, node, pool>>

\* One turn of the loop of rt_serial_read that finds a character.
rt_serial_read(t) ==
    /\ CallsFrom(t, "read") /\ node[t] = Null
    /\ rx.read # rx.save
    /\ rx' = [rx EXCEPT !.read = Behind(@)]
    /\ UNCHANGED <<k, pc, tx, node, pool>>

-----------------------------------------------------------------------------
(* Transmitting with the DMA.                                              *)

\* rt_serial_write asks for a node; without one it returns -RT_ENOMEM.
rt_serial_write(t) ==
    /\ CallsFrom(t, "write") /\ node[t] = Null
    /\ Mp!rt_mp_alloc(t)
    /\ node' = [node EXCEPT ![t] = IF free > 0 THEN Head(list) ELSE Null]
    /\ UNCHANGED <<rx, tx>>

WriteGoesOn(t) ==
    /\ Mp!AllocReturns(t)
    /\ node' = [node EXCEPT ![t] = IF k.err[t] = "EOK" /\ list # <<>>
                                         THEN Head(list) ELSE Null]
    /\ UNCHANGED <<rx, tx>>

\* The node n goes to the end of the list; the first one starts the DMA.
Linked(x, n, d) ==
    [next |-> [m \in Node |-> IF m = n THEN Null ELSE IF m = x.tail THEN n ELSE x.next[m]],
     data |-> [x.data EXCEPT ![n] = d],
     tail |-> n,
     head |-> IF x.head = Null THEN n ELSE x.head,
     dma  |-> IF x.head = Null THEN d ELSE x.dma]

\* The section of rt_serial_write.
WriteLinks(t) ==
    /\ At(t, "run") /\ node[t] # Null
    /\ \E d \in Data : tx' = Linked(tx, node[t], d)
    /\ node' = [node EXCEPT ![t] = Null]
    /\ UNCHANGED <<k, pc, rx, pool>>

\* The head leaves the list, and the DMA goes on with the next node.
Unlinked(x) ==
    LET n == x.next[x.head]
    IN  [x EXCEPT !.head = n, !.tail = IF n = Null THEN Null ELSE @,
                  !.dma  = IF n = Null THEN Off ELSE x.data[n]]

\* rt_hw_serial_dma_tx_isr, when the DMA has transmitted its data. rt_mp_free
\* may make a waiting writer ready; it runs once the handler has ended.
rt_hw_serial_dma_tx_isr ==
    /\ IsrCalls("isr_tx") /\ tx.dma # Off /\ tx.head # Null
    /\ tx' = Unlinked(tx)
    /\ Mp!FreeBlock(tx.head)
    /\ k' = IF count = 0 THEN k ELSE rt_schedule(Mp!WakesFirst)
    /\ UNCHANGED <<pc, rx, node, live>>

Step(t) ==
    \/ rt_serial_read(t)
    \/ rt_serial_write(t) \/ WriteGoesOn(t) \/ WriteLinks(t)

Next ==
    \/ \E t \in Thread : Step(t)
    \/ rt_hw_serial_isr \/ rt_hw_serial_dma_tx_isr
    \/ Background /\ UNCHANGED <<rx, tx, node, pool>>

Spec == Init /\ [][Next]_vars

-----------------------------------------------------------------------------
(* Properties.                                                             *)

\* The nodes of the list, in order.
Queued ==
    LET walk[i \in 1 .. Nodes + 1] ==
            IF i = 1 THEN tx.head
            ELSE IF walk[i - 1] = Null THEN Null ELSE tx.next[walk[i - 1]]
    IN  [i \in 1 .. Cardinality({j \in 1 .. Nodes : walk[j] # Null}) |-> walk[i]]

\* What was written never lies in the list while the DMA rests or works on
\* something else: the section of rt_serial_write starts it for the first
\* node, rt_hw_serial_dma_tx_isr for each one behind it.
NoDataLeft == tx.dma = IF tx.head = Null THEN Off ELSE tx.data[tx.head]

\* Every node is free, in the list, or with one write that is going to link
\* it, and the list ends at its tail: the handler returns a node to the pool
\* while writes are between rt_mp_alloc and their section.
NodesAccounted ==
    LET held == {t \in Thread : node[t] # Null}
    IN  /\ used = Range(Queued) \union {node[t] : t \in held}
        /\ Cardinality(used) = Len(Queued) + Cardinality(held)
        /\ tx.tail = IF Queued = <<>> THEN Null ELSE Queued[Len(Queued)]

\* No node stays free while writes wait for one that nobody was woken for.
NoNodeLeft == Mp!NoBlockLeft

\* The ring is a queue that loses its oldest characters, and holds one less
\* than it has places; the list of nodes is a queue of what was written.
Received == [i \in 1 .. (rx.save - rx.read) % RxSize |->
                rx.buffer[(rx.read + i - 1) % RxSize]]

RxQueue == INSTANCE FifoQueue WITH
    Item <- Char, Capacity <- RxSize - 1, Urgent <- FALSE, Lossy <- TRUE,
    Chunk <- 1, queue <- Received

TxQueue == INSTANCE FifoQueue WITH
    Item <- Data, Capacity <- Nodes, Urgent <- FALSE, Lossy <- FALSE,
    Chunk <- 1, queue <- [i \in DOMAIN Queued |-> tx.data[Queued[i]]]

IsQueue == RxQueue!Spec /\ TxQueue!Spec
=============================================================================
