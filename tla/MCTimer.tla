------------------------------ MODULE MCTimer ------------------------------
(* Small instances of Timer: two timers, and a tick counter that wraps.    *)
EXTENDS Timer, TLC

CONSTANTS t1, t2

MCInitTicks == {0, 1, 2}
=============================================================================
