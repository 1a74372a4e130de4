---------------------------- MODULE MCThreadsTime ----------------------------
(* The instances of MCThreads, with the clock of the sleeping threads.     *)
EXTENDS MCThreads, ThreadsTime
=============================================================================
