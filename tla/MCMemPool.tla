---------------------------- MODULE MCMemPool ----------------------------
(* Small instances of MemPool: three threads besides the idle one.         *)
EXTENDS MemPool, TLC

CONSTANTS a, b, c, idle

MCPriority == (a :> 0) @@ (b :> 1) @@ (c :> 1) @@ (idle :> 2)
MCTick     == [t \in {a, b, c, idle} |-> 1]
MCTimes    == {RT_WAITING_FOREVER, 0, 1}
==========================================================================
