---------------------------- MODULE MCSemaphore ----------------------------
(* Small instances of Semaphore: three threads besides the idle one, two of *)
(* them of the same priority.                                              *)
EXTENDS Semaphore, TLC

CONSTANTS a, b, c, idle

MCPriority == (a :> 0) @@ (b :> 1) @@ (c :> 1) @@ (idle :> 2)
MCTick     == [t \in {a, b, c, idle} |-> 1]
MCTimes    == {RT_WAITING_FOREVER, 1, 2}
=============================================================================
