----------------------------- MODULE MCThreads -----------------------------
(* Small instances of Threads: two or three threads besides the idle one.  *)
EXTENDS Threads, TLC

CONSTANTS a, b, c, idle

MCPriority == (a :> 0) @@ (b :> 1) @@ (c :> 1) @@ (idle :> 2)
MCPriority3 == (a :> 0) @@ (b :> 1) @@ (idle :> 1)
MCTick     == [t \in {a, b, c, idle} |-> IF t = b THEN 2 ELSE 1]
MCTick3    == [t \in {a, b, idle} |-> IF t = b THEN 2 ELSE 1]
=============================================================================
