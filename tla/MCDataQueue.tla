---------------------------- MODULE MCDataQueue ----------------------------
(* Small instances of DataQueue: two threads besides the idle one, and     *)
(* interrupt handlers.                                                     *)
EXTENDS DataQueue, TLC

CONSTANTS a, b, idle

MCPriority == (a :> 0) @@ (b :> 1) @@ (idle :> 2)
MCTick     == [t \in {a, b, idle} |-> 1]
MCTimes    == {RT_WAITING_FOREVER, 0, 1}
=============================================================================
