# RT-Thread on the NUCLEO-F401: a TLA+ model

This directory holds TLA+ modules that model the RT-Thread kernel of this
repository (`src/src`), the inter-process part of its device drivers
(`src/components/drivers/src`), the serial driver of the board and the input side
of the finsh shell; TLC configurations that check them on small instances,
and proofs that TLAPS checks for every instance. `PROJECT.json` lists the
components, the runs, the source lines behind every definition, the hazards and
the theorems.

## The system

RT-Thread is a preemptive real-time kernel for one processor. Everything it does
is done in one of three contexts.

* A **thread** calls a kernel function. The function does its work in sections
  with interrupts disabled (`rt_hw_interrupt_disable` ... `_enable`). Between two
  sections any interrupt, and so any thread of higher priority, may run.
* An **interrupt handler**: the tick (`SysTick_Handler`) counts the time slice of
  the running thread down and wakes the threads whose timer has expired; device
  handlers release semaphores, send mail, messages and events, free blocks.
* The **idle thread** runs when no other thread is ready and frees the threads
  that have ended.

| part | source | state | operations |
|---|---|---|---|
| scheduler | scheduler.c | ready lists, priority bitmap, current thread, lock nesting | schedule, insert, remove, enter/exit critical |
| threads | thread.c | status, priority, slice, error, list node, timer of each thread | create/init, startup, yield, sleep, suspend, resume, control, exit, delete/detach |
| idle | idle.c | list of dead threads | reap, free |
| tick, timers | clock.c, timer.c | tick count, sorted timer list | tick, init, start, stop, control, detach, check; timer functions |
| semaphore | ipc.c | value, suspend list | take, release, reset, detach |
| mutex | ipc.c | value, owner, original priority, hold, suspend list | take, release, detach |
| event | ipc.c | set of bits, waiters with bits and options | send, recv, reset, detach |
| mailbox | ipc.c | ring, offsets, two suspend lists | send, recv, reset, detach |
| message queue | ipc.c | free and queued nodes, suspend list | send, urgent, recv, reset, detach |
| memory pool | mempool.c | free blocks, counts, suspend list | alloc, free, detach |
| heap | mem.c (memheap.c, slab.c are not built) | block list, lowest free block, a semaphore | malloc, realloc, free |
| serial driver | the board's drivers/serial.c | receive ring, list of DMA nodes and their pool | read, write, receive interrupt, DMA interrupt |
| shell input | finsh/shell.c, cmd.c | command line, cursor, history, rx_sem | one step per key, receive indication |
| objects, devices | object.c, device.c | lists per class, flags and reference counts | register, open, close, find |
| completion, data queue, ring buffer, pipe | components/drivers/src | flag; indices; mirrors; suspend lists | wait/done, push/pop, put/get, read/write |
| the rest | kservice.c, module.c, finsh parser and compiler, driver frameworks, lwIP, board | | formatting, hardware, parsing, parts that are not built |

The parts meet in four places. Every blocking function suspends the calling
thread (thread.c), links it on the object's list, starts the thread's timer
(timer.c), and calls `rt_schedule`. Whoever wakes it (the object, its timer, a
reset, a detach, the deletion of the thread) unlinks it, stops the timer and puts
it in the ready table. And every wake-up has to end in `rt_schedule`, at once or
when the interrupt handler or the scheduler lock ends. Last, the console is a chain
of parts: the receive interrupt fills the driver's ring and calls the shell, which
releases a semaphore, on which the shell's thread waits before it reads the ring;
and the driver's writer waits on a memory pool that the DMA interrupt refills.

What makes this hard to test is the order of steps: a timeout between two
sections of a function; a thread that was woken and, before it runs, loses what
it was woken for; a function that acts on what it saw in an earlier section; a
detach or a reset while others wait. `PROJECT.json` lists these places as
hazards, with the properties that cover them.

## Modules

| module | models |
|---|---|
| `Lists` | operations on lists: removal, insertion in order |
| `Kernel` | the state of scheduler, threads and thread timers as one record, and the kernel functions as operators from state to state |
| `Threads` | the thread API, the scheduler lock, the tick and the idle thread, step by step |
| `ThreadsTime` | `Threads` with a history variable: the ticks each sleeping thread has yet to sleep |
| `Ipc` | what the IPC modules share: threads that sleep, block and are woken, the tick, `rt_ipc_list_resume_all` |
| `Semaphore`, `Mutex`, `Event`, `Mailbox`, `MessageQueue`, `MemPool`, `Completion`, `DataQueue` | one object each, composed with the kernel through `Ipc` |
| `RingBuffer`, `Pipe` | the ring buffer with mirror bits, as operators; the pipe over it, composed with `Ipc` |
| `Timer` | the timers of the application, with a tick counter that wraps |
| `Heap` | the system heap |
| `Uart` | the board's serial driver, over `MemPool` |
| `Shell` | the input loop and line editor of finsh, over `Semaphore` |
| `FifoQueue` | what a bounded queue promises; `Mailbox`, `MessageQueue`, `DataQueue`, `Pipe` and both directions of `Uart` implement it |
| `Countdown` | what a timer list promises; `Timer` implements it |
| `LineEditor` | what a command line promises; `Shell` implements it |
| `MCThreads`, `MCThreadsTime`, `MCTimer` | small instances for TLC |
| `MCObjects`, `MCQueues` | small instances of many modules in one specification: the variable `obj`, which never changes, says which of them a behaviour is one of |
| `MCSemaphore`, `MCMutex`, `MCMemPool`, `MCDataQueue` | instances for the findings |
| `ListLemmas`, `KernelProofs`, `ThreadsInvariant`, `ThreadsCalls`, `ThreadsProofs` | proofs about `Threads` |
| `RingBufferProofs`, `PipeProofs`, `HeapProofs` | proofs about `RingBuffer`, `Pipe` and `Heap` |

### State

`Kernel` keeps the kernel's state in one record `k`:

| field | code |
|---|---|
| `ready[p]` | `rt_thread_priority_table[p]`, the ready threads in order (the running one included) |
| `group` | `rt_thread_ready_priority_group`, as the set of its bits |
| `cur` | `rt_current_thread` |
| `nest` | `rt_scheduler_lock_nest` |
| `isr` | the tick handler is between `rt_tick_increase` and the end of `rt_timer_check` |
| `stat`, `prio`, `slice`, `err` | `stat`, `current_priority`, `remaining_tick`, `error` of a thread |
| `susp[q]` | the suspend list q, in order; `"defunct"` is `rt_thread_defunct` |
| `tmr`, `left` | the thread timers of `rt_timer_list` in order, and the ticks each has left |

A timer's `timeout_tick` is absolute and wraps in the code; `Kernel` keeps the
difference to the current tick. That this is the same is what `Timer` is about:
there ticks are absolute and of width `TickMod`, and `IsCountdown` shows that the
list behaves as if each timer counted down. `rt_timer_stop` refuses a timer without
its ACTIVATED flag; a thread timer has the flag while it is on the list, so in
`Kernel` stopping is taking off the list. `ThreadsTime` adds `rest`, the ticks a
thread has yet to sleep, counted from what it asked for and from the ticks since,
beside and without looking at the timer list.

The other modules add their own state beside `k`:

| module | variables and the code behind them |
|---|---|
| `Timer` | `tick` is `rt_tick`; `s` has `rt_timer_list`, and `timeout_tick` and the ACTIVATED flag of each timer, and a history `due` of the ticks that are left; `init`, `periodic` are `init_tick` and the PERIODIC flag; `kept` is the flag word `rt_timer_control` has read and not yet written back |
| `Completion` | `flag` |
| `DataQueue` | `ring`, `put`, `get`, `lwm` are `queue`, `put_index`, `get_index`, `waiting_lwm`; `masked`: a call has returned with interrupts disabled |
| `Pipe` | `rb` is the ring buffer (bytes, two indices, two mirror bits); `flag` is `pipe->flag` as a set of bits |
| `Heap` | `h` has the headers by address, `lfree` and `used_mem`; `owned` is what the application was given; `calls` are the calls of `rt_realloc` between two of their sections |
| `Uart` | `rx`, `tx` are `int_rx` and `dma_tx`, with what the DMA is transmitting; `node` is the local variable of a call of `rt_serial_write`; the variables of `MemPool` |
| `Shell` | `sh` is `struct finsh_shell`; `rx` is the driver's ring as the queue that `Uart` shows it to be; `ind`: `rx_indicate` is set; `at`: where the loop is; `taken`: characters the interrupt in progress has stored; the variables of `Semaphore` |

### Steps

A thread's step is one interrupt-disabled section, or one test that the code
makes outside a section. `pc[t]` says where thread t is inside a function:
`"run"` is its own code, `"sched"` is in front of `rt_schedule`, `"wait"` and
`"woken"` are in front of and behind the `rt_schedule` of a blocking call,
`"detach"` and `"resume"` (in the IPC modules) are in front of the test and of the
section of a turn of the loop that wakes all waiters. Only `k.cur` takes thread
steps, and only outside the tick handler. The tick handler takes several steps
(`Tick`, then `TimerCheck` for each due timer and once for the end). A device
interrupt is one step, its `rt_schedule` included.

`rt_schedule` pends a switch (PendSV) that is taken as soon as interrupts are
enabled, so the switch is part of the step. `rt_list_remove` on an unlinked node
does nothing, in the code and in the model. Sections nested in a section (a call
of `rt_thread_suspend` from `rt_sem_take`) belong to the outer one.

`Timer` has no scheduler: the thread of a timer takes its steps in any order with
those of other threads, and the tick interrupt comes between any two. In `Heap` a
step is a section under `heap_sem`; `rt_realloc` that moves a block has three.

Messages, mails and bits are members of small sets. The message queue copies a
message between two sections, so a node has a content that is written and read in
steps of their own. Addresses of
the heap are in words of `RT_ALIGN_SIZE` bytes. A character that no property tells
from others is `"other"` in the command line. Widths: `TickMod` is that of
`rt_tick`, `IndexMod` that of the indices of the data queue,
`CountMod` that of `block_free_count`; `SemMax` stands for the largest `sem->value`; hold
counts, nesting and units are bounded by `MaxHold`, `MaxNest` and `MaxUnits` in
guards. Two conversions are kept out of reach by assumptions: the 16 bits of a
length that is passed to the ring buffer (`LengthMax` of `Pipe`; a longer call would
be cut), and the width of a size passed to `rt_malloc` or multiplied by `rt_calloc`
(`SizeMax` of `Heap`; beyond it `RT_ALIGN` and the product wrap).

**Undefined accesses.** In some places the code can follow a pointer that is not
one: the list head taken for a thread in `rt_ipc_list_resume_all` and in
`rt_mp_free`, and in the shell `strlen` of a line that was discarded and has no NUL
any more. What follows is undefined, and the model has no step there: it says what
holds up to that access. A thread in `rt_mp_alloc` that takes the null pointer of an
empty list for a block does take that step, with what it does to the count
(`"null"`, `Robbed`); the pool, whose list is undefined from then on, is not used
again. Three runs show that such an access is reached (`sem_detach_race`,
`mempool_timeout`, `mempool_robbed`).

**Rules for the application.** `Threads` has a constant `Disciplined`. When it is
TRUE, a thread holds the scheduler lock over a call that suspends, resumes or deletes
a thread or changes a priority, its own included (startup excepted, which is called
once), does not block while it holds the lock, and does not resume or delete a thread
whose timer runs. Neither `rt_thread_resume` nor a change of priority calls
`rt_schedule`; with these rules `rt_exit_critical` does. The kernel's
functions test the status of the other thread before they disable interrupts, so
without these rules the ready table is not kept. The IPC modules do not depend
on them: there one object is used by threads that do not act on each other. An
object is initialised again only when nobody is inside a call on it. A timer is
used by one thread and by its own function; one of 0 ticks is neither periodic nor
started again by its function, which would keep the tick handler in its loop for
ever (`Repeatable`). One thread waits for a completion, as
the assertion in `rt_completion_wait` says. Without `Overruns`, a write to a pipe
with FORCE_WR fits or finds the buffer full. A block of the heap that `rt_realloc`
is moving is used by no other call.

## Runs

| run | states | shows |
|---|---|---|
| `threads_api` | 392 thousand | All thread functions, interleaved wherever interrupts are enabled: ready table, bitmap and status agree (`ReadyTable`), a node is linked once (`LinkedOnce`), the assertion of `rt_thread_timeout` holds (`TimersSuspended`), the right thread runs (`TopRuns`), dead threads stay dead (`DeadNeverRun`), a locked scheduler does not switch (`LockHolds`). |
| `threads_run` | 26 thousand | With the tick running: a sleeper is made ready by the very tick at which the time it asked for is over, not by an earlier or a later one (`SleepsItsTime`), every sleeper wakes (`SleeperWakes`), and threads of one priority take turns (`RoundRobin`). |
| `timer_api` | 729 thousand | The sorted list with a tick that wraps does what `Countdown` says (`IsCountdown`): a timer fires in the tick in which its time is over, the earliest first, whatever threads and timer functions start, stop, change and detach in between. `rt_timer_check` ends (`HandlerEnds`). |
| `objects_api` | 870 thousand | Seven kinds of object, below. |
| `queues_api` | 685 thousand | Five kinds of queue, below. |
| `delete_race`, `sem_detach_race`, `mutex_nested`, `mempool_timeout`, `mempool_robbed`, `dq_lwm`, `timer_flag` | | Findings, below: counterexamples of 14, 13, 17, 6, 13, 5 and 8 states. |

`objects_api` and `queues_api` are sums: a behaviour uses one object, and each
property speaks of the objects it names. One property often says the same of
several: nobody waits for what is there.

| object | properties in `objects_api` |
|---|---|
| semaphore | Units are neither lost nor handed out twice (`UnitsConserved`), nobody waits beside a free unit (`NoneLeftFree`), nobody is left behind by a detach (`NoneLeftBehind`), a release wakes the highest priority (`WakesHighest`). |
| mutex | Mutual exclusion and agreement of the counts (`OwnerHolds`), inheritance (`Inherits`), return of the priority (`Restored`), no inversion (`NoInversion`), with recursion, time limits and detach; `rt_mutex_take` never reads a missing owner (`WaitersHaveOwner`). |
| event | Nobody waits for bits that are set (`NoneSatisfiedWaits`), a receiver gets what it asked for (`ReceivesAsked`), a cleared bit is delivered once (`DeliveredOnce`). |
| memory pool | A block is free or has one user, and the count is that of the list, less what threads took from an empty one (`BlocksConserved`); no block stays free beside a waiter (`NoneLeftFree`). |
| completion | No thread stays suspended beside a set flag, although `done` tests the flag outside its section and a timeout clears it (`NotMissed`). |
| heap | Blocks tile the memory and `lfree` is usable (`Tiled`); what the application has is in use, large enough and counted (`OwnedFits`), also between the sections of `rt_realloc`. |
| shell | The shell does not sleep beside characters it was told of (`NotMissed`); keys do to line, cursor and history what `LineEditor` says (`IsEditor`). |
| all that use the kernel | Ready table, lists and timers stay sound (`KernelSound`). |

| object | properties in `queues_api`, besides `IsQueue`: it implements `FifoQueue` |
|---|---|
| mailbox | No mail and no room stays unused beside a waiter (`NoItemLeft`, `NoRoomLeft`), a call that waits again keeps its time limit (`DeadlineKept`). |
| message queue | Nodes are accounted for (`NodesAccounted`), messages arrive intact although they are copied with interrupts enabled (`MessageIntact`), none stays beside a waiter (`NoItemLeft`). |
| data queue | No item stays beside a popper (`NoItemLeft`). |
| pipe | Readers and writers do not both sleep (`NoStandoff`). |
| serial driver | The DMA does not rest beside queued data (`NoItemLeft`), nodes are in the pool, in the list or with one call (`NodesAccounted`), no node stays free beside a writer (`NoRoomLeft`). |

The shell is three instances. `"shell"` has all keys and the history, with
characters that are alike; `"input"` has interrupts that store several characters
and a shell that falls behind; `"line"` has characters that differ. `IsEditor` is
stated once, with the constants of `"line"`; its characters and names include those
of the other two, so it is a claim about all three. Semaphore and memory pool are
two instances each: `"sem"` and `"mp"` have reset, detach and initialisation,
`"units"` and `"blocks"` have users that also sleep. Mailbox and pipe are two
instances each as well, one with more calls or threads (`"mb"`, `"pipe"`) and one
with data that differ (`"mails"`, `"bytes"`); `IsQueue` is stated with the constants
of the second, whose items include those of the first. Forced writes that pass the
read index are only made in `"pipe"`, whose bytes are alike; there `IsQueue` speaks
of the number of bytes alone. The serial driver's two
instances are its two directions (`"tx"`, `"rx"`).

### Bounds

* Threads: two or three besides the idle thread. Two threads that wait and a third
  actor that wakes, resets or steals give every race between the sections of two
  functions. Where there are two threads, interrupt handlers are the third actor.
  The shell is one thread, its input an interrupt.
* Priorities: of the mutex all differ, so that a thread of middle priority can get
  between owner and waiter. Elsewhere two threads share one where there are three,
  so that time slices and the order of a list matter.
* Times: for ever, none, and 1 or 2 ticks (`MaxTime`): a timer expires before, with
  or after another one, and a wait can be continued with less time.
* Sizes: two mails, messages, items, blocks, nodes, units (`SemMax`, `MaxUnits`) and
  bits. With one, a ring never wraps while it is not empty and a list has no second
  node. The pipe has 4 bytes and calls of 1 and 3: calls meet a buffer with too
  little, and the index wraps inside a call. The receive ring has 4 places.
* Timers: two; `TickMod` 12 with times of 0, 1 and 2 ticks and a thread held up
  for up to `MaxDelay` = 1 tick inside `rt_timer_start`. `RT_TICK_MAX/2` is 5, so
  that every comparison happens on both sides of the wrap.
* Heap: `MemSize` 21 words with headers of 3, and requests of 0, 1, 4 and 10 words:
  up to four blocks, splits that leave just enough and just too little, and requests
  that fail. One call of `rt_realloc` moves a block at a time (`MaxCalls`), among
  any calls of the other functions.
* Shell: `FINSH_CMD_SIZE` 3 and `FINSH_HISTORY_LINES` 2 (80 and 5 in the code): an
  insertion in the middle, a full line, and a history that is moved.
* `MaxPut` 4 stops the data queue after two rounds of its ring, long before its 16
  bit indices wrap. `MaxUnits` bounds the releases the shell is behind.
* `MaxNest` and `MaxHold` are 2 where nesting matters: the inner call differs from
  the outer one.
* `MaxPended` bounds `suspend_thread_count`, which timeouts leave too high.
* Symmetry is used for the event bits, which no definition tells apart, in a run
  without liveness.

### Fairness

`threads_run` and `timer_api` use fairness. `Tick` and the steps of
`rt_timer_check` are weakly fair: SysTick is periodic and its handler is executed.
That the handler's loop ends is not assumed; it is `HandlerEnds`. In `threads_run`
`Schedule(t)` is strongly fair: a thread inside the kernel that gets the processor
again and again gets to the end of the function. In `timer_api` the last section of
`rt_timer_start` is weakly fair: it is what the bound `MaxDelay` says, that a thread
is not held up there for ever. Nothing is assumed of a thread's own code; it may run
for ever.

### Mutants

Each property of a passing run has a mutant: a variant of one definition with the
kind of bug the property is there to catch (`PROJECT.json`, `mutants`). The
variants stand in front of the definition they replace, and no run uses them.

## Findings

* `delete_race`: `rt_thread_detach` and `rt_thread_delete` take a thread off its
  list, then detach its timer, then close it, with interrupts enabled in between.
  A timer that expires after the first step puts the thread back in the ready
  table, where it is closed.
* `sem_detach_race`: `rt_ipc_list_resume_all` tests the list with interrupts
  enabled and does not test it again in the section. The idle thread's loop over
  dead threads has the same shape and does.
* `mutex_nested`: a thread that takes a second mutex while it has inherited a
  priority, and releases the first one first, keeps the inherited priority.
* `mempool_timeout`: a wait for a block that times out is not taken off
  `suspend_thread_count`; the next `rt_mp_free` resumes the list head.
* `mempool_robbed`: a thread that `rt_mp_free` has woken takes a block without testing
  that there still is one. When another caller has taken it, `block_free_count` wraps
  below 0 and the null pointer of the empty list is read and written as a block.
* `dq_lwm`: a push into a full queue sets `waiting_lwm` even if it does not wait. The
  pop that then reaches the low water mark finds no pusher and returns with
  interrupts disabled.
* `timer_flag`: a one-shot timer that its own function starts again is in the list
  with its ACTIVATED flag cleared, so that `rt_timer_stop` refuses it.

Met on the way, without a run: `rt_realloc` that shrinks a block leaves a free block
below `lfree`, which `mem.c` calls the lowest one, so that `rt_malloc` overlooks it for
a while; and a reader of a pipe can wait beside a buffer that seems full once a
forced write has passed the read index.

## Proofs

### Threads

`ThreadsProofs` proves, for any finite set of threads, any number of
priorities, any time slices and any depth of lock nesting (`KernelAssumption`,
`ThreadsAssumption`), and with `Disciplined`:

| theorem | property |
|---|---|
| `TypeCorrect` | `TypeOK` |
| `ReadyTableAgrees` | `ReadyTable`: a thread is in the list of its priority iff it is READY, and a bit is set iff its list is not empty, so `rt_schedule` finds a thread |
| `NodeLinkedOnce` | `LinkedOnce`: no thread is on two lists or twice on one |
| `TimeoutAssertion` | `TimersSuspended`: the assertion in `rt_thread_timeout` holds |
| `ExitIsFinal` | `DeadNeverRun`: a thread that has exited is never scheduled again |

None of these is inductive. A function that acts on another thread has looked at
it in an earlier section, and the ready table survives its next section only if
what it saw is still true. The inductive invariant `IInv` (`ThreadsInvariant`)
therefore has three parts: the coherence of the lists (`Coherent`); for each
thread inside a function, that it holds the processor and the scheduler lock, and
what is still true of the thread it acts on (`PcOK`), with no two
acting on the same one (`OneActor`); and the status
of the running thread (`CurOK`). The argument runs in four layers.

1. `ListLemmas`: what removing from, appending to and inserting into a sequence
   does to its range and to the absence of duplicates.
2. `KernelProofs`: each kernel operator keeps the types and the coherence of the
   lists, and touches only the thread it is applied to (`Touches`).
3. `ThreadsInvariant`: a step that touches one thread which no other thread is
   acting on keeps what all others rely on (`OthersKept`).
4. `ThreadsCalls` and `ThreadsProofs`: one lemma for each action;
   `NextKeeps`, `InitOK`, `Inductive`; and the five theorems.

### Ring buffer and pipe

`RingBufferProofs` proves what the functions of the ring buffer do to its content,
for every size, content and length. `Content` is the bytes from the read index on,
through the wrap, as `rt_ringbuffer_get` would copy them. `Valid` says that indices,
mirror bits and the number of bytes fit each other.

| theorem | says |
|---|---|
| `PutAppends` | `put` appends what fits |
| `GetRemoves` | `get` takes off the front what it returns |
| `ForceReplaces` | `put_force` into a full buffer takes the place of the oldest bytes; into another one that has the room it appends; with more bytes than there is room for it passes the read index, and leaves a buffer that is not `Valid` and reads as the bytes past the room |
| `OneCharacter` | `putchar`, `putchar_force` and `getchar` are these with one byte |

`PipeProofs` proves `PipeIsQueue`: for any threads, sizes, lengths and flags, with
forced writes that fit or find the buffer full (`~Overruns`), `Pipe` implements `FifoQueue`.
The inductive invariant is `PipeInv`: the buffer is `Valid`, and a call that waits
keeps its bytes. Every step does one of four things to the buffer
(`StepsOfTheBuffer`), and the theorems above turn each into a step of the queue.

### Heap

`HeapProofs` proves, for every size of the heap, all requests and any number of calls
of `rt_realloc` in progress (`HeapAssumption`):

| theorem | property |
|---|---|
| `HeapTiled` | `Tiled` |
| `HeapOwned` | `OwnsUsed`, which is `OwnedFits` without the statistics |

Neither is inductive. `HeapInv` adds that the first header has no block in front of
it and `prev` leads back to a block whose `next` is this one (`plug_holes` follows
`prev`), that what the application has is exactly what is in use, and that calls in
progress work on different blocks. One lemma each shows what setting a `prev`,
dropping a header, splitting and combining do to the links (`Linked`), which
neighbours may both be free meanwhile (`Separated`), and to `lfree`; `plug_holes`,
`rt_malloc`, `rt_free` and the shrinking `rt_realloc` are put together from them.

### What is only model-checked

The liveness properties (fairness and ENABLED are out of the prover's reach); the
action property `LockHolds` and `TopRuns`; everything about the objects in `ipc.c`,
`mempool.c`, completion, data queue, timers, serial driver and shell, refinement of
`FifoQueue`, `Countdown` and `LineEditor` included, except that of `Pipe`; the sum in
`OwnedFits`, which is an induction over a set.

A leaf is left to the SMT solver and then to Zenon, with 30 seconds each (the `USE`
at the head of each module), or to the prover it names. The theorems about threads
say nothing of an application that breaks the rules: `delete_race` shows what happens
then.

## Not modelled

* Registers, stacks and the assembler of the context switch; nested interrupt
  handlers (handlers run one after the other); hardware access; formatting, strings
  and the console's output.
* What is not built for this board: memheap, slab, application modules, the soft
  timer thread, skip lists of more than one level, the serial framework and most
  other driver frameworks, lwIP. By far the most lines of the repository are these,
  the ST peripheral library and the files of other boards.
* `object.c`: the lists of objects by class; modules use an object by its identity.
* `device.c`: open, close and the reference count hold no lock. Two callers at a time
  can leave flags and count in any combination, and with callers that take turns each
  function is a plain assignment.
* The parser, compiler and virtual machine of finsh: a language implementation in one
  thread. Of the shell itself echo and `finsh_set_device` are left out.
* Of the serial driver, polling mode and the callback `tx_complete`; suspend and
  resume, which only write registers.
* The idle thread frees stacks under `heap_sem`; `Threads` frees them in a step and
  `Heap` takes each section under the semaphore as a step, so a wait of the idle
  thread for the heap is in neither.

## Plan

1. Proofs: `TopRuns` and `LockHolds` from `IInv`; an inductive invariant for
   `Semaphore` (`UnitsConserved`, `NoneLeftFree`) and for `Mutex`
   (`OwnerHolds`, `Inherits`) on top of the lemmas of `KernelProofs`; the step
   simulation of `FifoQueue` by `Mailbox`, along the lines of `PipeProofs`.
2. A composition of `Semaphore` with `Threads` and `Heap`, so that a thread is
   deleted while it waits and the idle thread waits for `heap_sem`.
3. The soft timer thread, if it is ever built for this board.
