------------------------------ MODULE MCCalls ------------------------------
(* A handle's calls, for TLC: the handle itself (Handle) and the read-ahead *)
(* its fills and its Close talk to (Prefetch).  Handle sees of read-ahead   *)
(* only the requests it sends, so a behaviour is one of one part, chosen by *)
(* Init, and the other stays as it began.                                   *)
EXTENDS Prefetch, TLC

CONSTANTS s1, h1, h2, t1, t2, a,    \* a shard, handles, their threads, a branch
          c1, c2, a1                \* clients of a handle, and its read-ahead

VARIABLES part,
          inner, innerState, innerOps, innerValid, files, how, opening, answers,
          cacheOnly, innerOpened, lazyFailed, cooling, innerOpenMu,
          entry, setupDone, setupMu, closed, tripped, errors, relayed, op, calls, faults

-----------------------------------------------------------------------------
(* Read-ahead: two handles of one file, one of them used by two threads.   *)

MCShardOf == h1 :> s1 @@ h2 :> s1
MCThreadsOf == h1 :> {t1, t2} @@ h2 :> {t1}
MCBaskets == {<<a, 1>>, <<a, 2>>, <<a, 3>>}
MCFills == {{}, {<<a, 1>>}, {<<a, 2>>, <<a, 3>>}}

\* One reader with several fills, two threads on one handle, two handles.
Budgets(m, n, k) == h1 :> (t1 :> m @@ t2 :> n) @@ h2 :> (t1 :> k)
MCCasts == {Budgets(3, 0, 0), Budgets(2, 1, 0), Budgets(1, 0, 1)}

Unused == INSTANCE Prefetch WITH Casts <- {Budgets(0, 0, 0)}

(* One handle, two threads that use it and one of its read-ahead.          *)
H == INSTANCE Handle WITH
        Clients <- {c1, c2}, Helpers <- {a1}, OpenRetries <- 1, MaxErrors <- 2,
        MaxCalls <- 3, MaxFaults <- 2

HVars == <<inner, innerState, innerOps, innerValid, files, how, opening, answers,
           cacheOnly, innerOpened, lazyFailed, cooling, innerOpenMu,
           entry, setupDone, setupMu, closed, tripped, errors, relayed, op, calls, faults>>

-----------------------------------------------------------------------------
PartsInit ==
    /\ part \in {"handle", "prefetch"}
    /\ IF part = "prefetch" THEN Init ELSE Unused!Init /\ ~confirmed
    /\ H!Init

PartsNext ==
    /\ UNCHANGED part
    /\ \/ part = "prefetch" /\ Next /\ UNCHANGED HVars
       \/ part = "handle" /\ H!Next /\ UNCHANGED vars

\* The fairness of Handle and of Prefetch.
PartsFairness ==
    /\ WF_HVars(part = "handle" /\ H!OpenProceeds)
    /\ \A t \in {c1, c2} : WF_HVars(part = "handle" /\ H!Proceeds(t))
    /\ WF_HVars(part = "handle" /\ H!AheadDone(a1))
    /\ \A s \in Shards : WF_vars(part = "prefetch" /\ Works(s))

PartsSpec == PartsInit /\ [][PartsNext]_<<part, vars, HVars>> /\ PartsFairness

-----------------------------------------------------------------------------
(* The properties of the handle.                                           *)


\* "A never-opened XrdCl::File must never receive I/O" (relayToInner): no read of the
\* handle is sent to an inner file that never opened: Handle.
NeverOnUnopened == H!NeverOnUnopened

\* An inner file that opened is kept until Close or the destructor
\* (ensureInnerOpen: "success latches").
OpenFileKept == H!OpenFileKept

\* Every request, Close and destruction of the handle returns, and so does every
\* Close and destruction that waits for a prediction thread (shutdownInner, onClose).
CallsReturn == H!CallsReturn /\ ClosesReturn
=============================================================================
