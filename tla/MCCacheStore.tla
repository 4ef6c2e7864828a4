---------------------------- MODULE MCCacheStore ----------------------------
(* CacheStore for TLC: one process under a byte cap.                       *)
EXTENDS CacheStore

CONSTANTS a, a1

MCProcOf == [t \in Threads |-> a]

MCConfig == [p \in Procs |->
    [high |-> 2, low |-> 1, minFree |-> 0, resume |-> 0, protect |-> 1, check |-> 1]]
=============================================================================
