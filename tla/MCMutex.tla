------------------------------ MODULE MCMutex ------------------------------
(* Small instances of Mutex: three threads of different priorities.        *)
EXTENDS Mutex, TLC

CONSTANTS a, b, c, idle, m1, m2

MCPriority == (a :> 0) @@ (b :> 1) @@ (c :> 2) @@ (idle :> 3)
MCTick     == [t \in {a, b, c, idle} |-> 1]
MCTimes    == {RT_WAITING_FOREVER, 0, 1}
MCForever  == {RT_WAITING_FOREVER}
=============================================================================
