------------------------------- MODULE Handle -------------------------------
(***************************************************************************)
(* A file handle (UCacheFile, HandleState): opening with retries on fresh  *)
(* inner files, the trusted open that postpones the origin, the lazy open  *)
(* and its cool-down, the setup of the entry, requests that go to the      *)
(* origin through acquireInner and releaseInner, Close and destruction.    *)
(*                                                                         *)
(* Inner files are numbered as they are made; innerState is that of the    *)
(* current one.  What a request carries, the gate and the persists are in  *)
(* FetchGate; which layout is shown is in Layouts.                         *)
(***************************************************************************)
EXTENDS Integers, FiniteSets

CONSTANTS
    Clients,      \* the application's threads
    Helpers,      \* read-ahead's threads
    OpenRetries,
    MaxErrors,
    MaxCalls,     \* bound on requests
    MaxFaults     \* bound on failures of the origin

Threads == Clients \cup Helpers
Free == "free"

VARIABLES
    inner, innerState, innerOps, innerValid, files,
    how,          \* what the handle was opened for
    opening,      \* RetryingOpenHandler: where it is and its attempts
    answers,      \* history: completions of the application's open
    cacheOnly, innerOpened, lazyFailed, cooling, innerOpenMu,
    entry, setupDone, setupMu, closed, tripped, errors, relayed,
    op,           \* op[t]: the request of thread t
    calls, faults

innerVars == <<inner, innerState, innerOps, innerValid, files>>
openVars == <<how, opening, answers>>
lazyVars == <<cacheOnly, innerOpened, lazyFailed, cooling, innerOpenMu>>
setupVars == <<entry, setupDone, setupMu, closed, tripped, errors, relayed>>
bounds == <<calls, faults>>
vars == <<innerVars, openVars, lazyVars, setupVars, op, bounds>>

Idle == [pc |-> "idle", kind |-> "none", file |-> 0, relay |-> FALSE,
         entry |-> FALSE, setup |-> FALSE, try |-> 0]

Init ==
    /\ inner = 1 /\ innerState = "new" /\ innerOps = 0 /\ innerValid = TRUE /\ files = 1
    /\ how = "none" /\ opening = [pc |-> "closed", attempt |-> 0] /\ answers = 0
    /\ cacheOnly = FALSE /\ innerOpened = FALSE
    /\ lazyFailed = FALSE /\ cooling = FALSE /\ innerOpenMu = Free
    /\ entry = FALSE /\ setupDone = FALSE /\ setupMu = Free
    /\ closed = FALSE /\ tripped = FALSE /\ errors = 0 /\ relayed = FALSE
    /\ op = [t \in Threads |-> Idle]
    /\ calls = 0 /\ faults = 0

At(t, place) == op[t].pc = place
Goto(t, place) == op' = [op EXCEPT ![t].pc = place]
Answer(t) == op' = [op EXCEPT ![t] = Idle]

\* resetInner: the failed file is replaced by a fresh one.
ResetInner == inner' = files + 1 /\ files' = files + 1 /\ innerState' = "new"

Fault == faults < MaxFaults /\ faults' = faults + 1

-----------------------------------------------------------------------------
(* Open, and RetryingOpenHandler.                                          *)

\* The cache is trusted and the origin is not touched.
OpenTrusted ==
    /\ opening.pc = "closed"
    /\ how' = "cached" /\ cacheOnly' = TRUE
    /\ opening' = [opening EXCEPT !.pc = "opened"] /\ answers' = answers + 1
    /\ UNCHANGED <<innerVars, innerOpened, lazyFailed, cooling, innerOpenMu, setupVars, op, bounds>>

\* The origin is opened: for a cached handle, or for a copy or a writer,
\* which pass through.
Open ==
    /\ opening.pc = "closed"
    /\ how' \in {"cached", "copy", "write"}
    /\ opening' = [pc |-> "issued", attempt |-> 1]
    /\ UNCHANGED <<innerVars, answers, lazyVars, setupVars, op, bounds>>

OpenDone ==
    /\ opening.pc = "issued"
    /\ innerState' = "open"
    /\ opening' = [opening EXCEPT !.pc = "opened"] /\ answers' = answers + 1
    /\ UNCHANGED <<inner, innerOps, innerValid, files, how, lazyVars, setupVars, op, bounds>>

\* decideRetryOrForward: another attempt later, or the failure is forwarded.
\* A writer's open is not wrapped.
Decide(transient, attempt) ==
    IF transient /\ attempt <= OpenRetries /\ how # "write"
    THEN opening' = [pc |-> "backoff", attempt |-> attempt] /\ UNCHANGED answers
    ELSE opening' = [pc |-> "failed", attempt |-> attempt] /\ answers' = answers + 1

\* The attempt fails, at once or in its callback.
OpenFails(transient) ==
    /\ opening.pc = "issued"
    /\ Fault
    /\ innerState' = "failed"
    /\ Decide(transient, opening.attempt)
    /\ UNCHANGED <<inner, innerOps, innerValid, files, how, lazyVars, setupVars, op, calls>>

\* doRetry looks whether the handle was shut down, then lets go of the lock.
RetryLook ==
    /\ opening.pc = "backoff"
    /\ IF innerValid
       THEN opening' = [opening EXCEPT !.pc = "retry"] /\ UNCHANGED answers
       ELSE opening' = [opening EXCEPT !.pc = "failed"] /\ answers' = answers + 1
    /\ UNCHANGED <<innerVars, how, lazyVars, setupVars, op, bounds>>

Retry ==
    /\ opening.pc = "retry"
    /\ ResetInner
    /\ opening' = [pc |-> "issued", attempt |-> opening.attempt + 1]
    /\ UNCHANGED <<innerOps, innerValid, how, answers, lazyVars, setupVars, op, bounds>>

-----------------------------------------------------------------------------
(* ensureInnerOpen: the lazy open of a trusted handle.                     *)

\* The caller goes on: the setup in any case, a request only if it may use
\* the inner file.
Return(t, ok) ==
    Goto(t, CASE op[t].setup -> "origin" [] ~op[t].setup /\ ok -> "take" [] OTHER -> "refused")

LazyLook(t) ==
    /\ At(t, "lazy") /\ innerOpenMu = Free
    /\ IF innerOpened \/ (lazyFailed /\ cooling)
       THEN Return(t, innerOpened) /\ UNCHANGED innerOpenMu
       ELSE /\ innerOpenMu' = t
            /\ op' = [op EXCEPT ![t].pc = "lazy open", ![t].try = 1]
    /\ UNCHANGED <<innerVars, openVars, cacheOnly, innerOpened, lazyFailed, cooling, setupVars, bounds>>

LazyOpenedUnlatched(t) ==
    /\ At(t, "lazy open") /\ innerState = "new"
    /\ innerState' = "open"
    /\ lazyFailed' = FALSE /\ innerOpenMu' = Free
    /\ Return(t, TRUE)
    /\ UNCHANGED <<inner, innerOps, innerValid, files, openVars, cacheOnly, innerOpened, cooling,
                   setupVars, bounds>>

LazyOpened(t) ==
    /\ At(t, "lazy open") /\ innerState = "new"
    /\ innerState' = "open" /\ innerOpened' = TRUE
    /\ lazyFailed' = FALSE /\ innerOpenMu' = Free
    /\ Return(t, TRUE)
    /\ UNCHANGED <<inner, innerOps, innerValid, files, openVars, cacheOnly, cooling, setupVars, bounds>>

\* A transient failure, with retries left: a fresh file after the backoff.
LazyRetry(t) ==
    /\ At(t, "lazy open") /\ op[t].try <= OpenRetries
    /\ Fault
    /\ ResetInner
    /\ op' = [op EXCEPT ![t].try = @ + 1]
    /\ UNCHANGED <<innerOps, innerValid, openVars, lazyVars, setupVars, calls>>

\* The failure is kept and arms the cool-down; the file is replaced unless
\* somebody uses it.  Opening a file that is not new fails at once.
LazyFails(t) ==
    /\ At(t, "lazy open")
    /\ IF innerState = "new" THEN Fault ELSE UNCHANGED faults
    /\ lazyFailed' = TRUE /\ cooling' = TRUE /\ innerOpenMu' = Free
    /\ IF innerOps = 0 THEN ResetInner ELSE innerState' = "failed" /\ UNCHANGED <<inner, files>>
    /\ Return(t, FALSE)
    /\ UNCHANGED <<innerOps, innerValid, openVars, cacheOnly, innerOpened, setupVars, calls>>

CoolDown ==
    /\ cooling
    /\ cooling' = FALSE
    /\ UNCHANGED <<innerVars, openVars, cacheOnly, innerOpened, lazyFailed, innerOpenMu, setupVars,
                   op, bounds>>

-----------------------------------------------------------------------------
(* ensureEntry, by the first request.                                      *)

\* A read, a page read or a stat of the application.
Call(c, kind) ==
    /\ At(c, "idle") /\ calls < MaxCalls
    /\ opening.pc = "opened" /\ ~closed
    /\ op' = [op EXCEPT ![c] = [Idle EXCEPT !.pc = "setup", !.kind = kind]]
    /\ calls' = calls + 1
    /\ UNCHANGED <<innerVars, openVars, lazyVars, setupVars, faults>>

\* Nothing to set up, or it has been done.
HasEntry(c) ==
    /\ At(c, "setup") /\ (how # "cached" \/ setupDone)
    /\ op' = [op EXCEPT ![c].pc = "serve",
                        ![c].entry = how = "cached" /\ ~closed /\ ~tripped /\ entry]
    /\ UNCHANGED <<innerVars, openVars, lazyVars, setupVars, bounds>>

\* The first one sets up, while the others wait for setupMu.
SetUp(c) ==
    /\ At(c, "setup") /\ how = "cached" /\ ~setupDone /\ setupMu = Free
    /\ setupMu' = c
    /\ op' = [op EXCEPT ![c].pc = IF cacheOnly THEN "trusted" ELSE "origin", ![c].setup = TRUE]
    /\ UNCHANGED <<innerVars, openVars, lazyVars, entry, setupDone, closed, tripped, errors,
                   relayed, bounds>>

\* From the local sidecar; if that is gone, the handle degrades and opens the
\* origin.
SetUpTrusted(c) ==
    /\ At(c, "trusted")
    /\ \/ op' = [op EXCEPT ![c].pc = "attach", ![c].entry = TRUE] /\ UNCHANGED cacheOnly
       \/ Goto(c, "lazy") /\ cacheOnly' = FALSE
    /\ UNCHANGED <<innerVars, openVars, innerOpened, lazyFailed, cooling, innerOpenMu, setupVars,
                   bounds>>

\* The origin's stat may fail, and the store decline.
SetUpOrigin(c) ==
    /\ At(c, "origin")
    /\ \E found \in BOOLEAN :
        /\ found => innerState = "open"
        /\ op' = [op EXCEPT ![c].pc = "attach", ![c].entry = found]
    /\ UNCHANGED <<innerVars, openVars, lazyVars, setupVars, bounds>>

\* The entry is attached unless the handle was closed meanwhile.
Attach(c) ==
    /\ At(c, "attach")
    /\ setupDone' = TRUE /\ setupMu' = Free
    /\ entry' = IF closed \/ tripped THEN entry ELSE op[c].entry
    /\ op' = [op EXCEPT ![c].pc = "serve", ![c].entry = entry', ![c].setup = FALSE]
    /\ UNCHANGED <<innerVars, openVars, lazyVars, closed, tripped, errors, relayed, bounds>>

-----------------------------------------------------------------------------
(* Requests.                                                               *)

\* Answered from the cache: a hit, or the size a set-up handle shows.
ServeLocal(c) ==
    /\ At(c, "serve") /\ op[c].entry /\ op[c].kind \in {"read", "stat"}
    /\ Answer(c)
    /\ errors' = IF op[c].kind = "read" THEN 0 ELSE errors
    /\ UNCHANGED <<innerVars, openVars, lazyVars, entry, setupDone, setupMu, closed, tripped,
                   relayed, bounds>>

\* A miss, or a request the cache does not serve.  A stat that is not
\* answered locally goes to the inner file as it is.
ServeOrigin(c) ==
    /\ At(c, "serve")
    /\ LET relay == ~op[c].entry \/ op[c].kind = "pgread" IN
       IF op[c].kind = "stat" THEN ~op[c].entry /\ Answer(c) /\ UNCHANGED relayed
       ELSE /\ op' = [op EXCEPT ![c].pc = "acquire", ![c].relay = relay]
            /\ relayed' = (relayed \/ relay)
    /\ UNCHANGED <<innerVars, openVars, lazyVars, entry, setupDone, setupMu, closed, tripped, errors,
                   bounds>>

\* acquireInner: a trusted handle opens the origin first.
Acquire(c) ==
    /\ At(c, "acquire")
    /\ Goto(c, IF cacheOnly /\ ~innerOpened THEN "lazy" ELSE "take")
    /\ UNCHANGED <<innerVars, openVars, lazyVars, setupVars, bounds>>

Take(c) ==
    /\ At(c, "take")
    /\ IF innerValid
       THEN /\ innerOps' = innerOps + 1
            /\ op' = [op EXCEPT ![c].pc = "wire", ![c].file = inner]
       ELSE Goto(c, "refused") /\ UNCHANGED innerOps
    /\ UNCHANGED <<inner, innerState, innerValid, files, openVars, lazyVars, setupVars, bounds>>

RefusedAsksAgain(c) ==
    /\ At(c, "refused")
    /\ Goto(c, "acquire")
    /\ UNCHANGED <<innerVars, openVars, lazyVars, setupVars, bounds>>

\* missError, or a close that learns no size.
Refused(c) ==
    /\ At(c, "refused")
    /\ IF op[c].kind \in {"close", "destroy"} THEN Goto(c, op[c].kind) ELSE Answer(c)
    /\ UNCHANGED <<innerVars, openVars, lazyVars, setupVars, bounds>>

\* The request's answer is there, and releaseInner.
WireDone(c) ==
    /\ At(c, "wire") /\ innerState = "open"
    /\ innerOps' = innerOps - 1
    /\ errors' = IF op[c].relay THEN errors ELSE 0
    /\ IF op[c].kind \in {"close", "destroy"} THEN op' = [op EXCEPT ![c].pc = op[c].kind, ![c].file = 0]
       ELSE Answer(c)
    /\ UNCHANGED <<inner, innerState, innerValid, files, openVars, lazyVars, entry, setupDone, setupMu,
                   closed, tripped, relayed, bounds>>

\* noteCacheError trips the handle at MaxErrors in a row; a miss that fails
\* is asked again as a relay, a relay answers with its error.
WireFails(c) ==
    /\ At(c, "wire") /\ c \in Clients
    /\ IF innerState = "open" THEN Fault ELSE UNCHANGED faults
    /\ innerOps' = innerOps - 1
    /\ IF op[c].relay
       THEN /\ IF op[c].kind \in {"close", "destroy"}
               THEN op' = [op EXCEPT ![c].pc = op[c].kind, ![c].file = 0] ELSE Answer(c)
            /\ UNCHANGED <<errors, tripped>>
       ELSE /\ op' = [op EXCEPT ![c].pc = "acquire", ![c].relay = TRUE, ![c].file = 0]
            /\ errors' = errors + 1
            /\ tripped' = (tripped \/ errors' >= MaxErrors)
    /\ UNCHANGED <<inner, innerState, innerValid, files, openVars, lazyVars, entry, setupDone, setupMu,
                   closed, relayed, calls>>

\* acquireInnerIfOpen: read-ahead never opens the origin.
ReadAhead(a) ==
    /\ At(a, "idle") /\ calls < MaxCalls
    /\ setupDone /\ ~(cacheOnly /\ ~innerOpened) /\ innerValid /\ innerState = "open"
    /\ calls' = calls + 1
    /\ innerOps' = innerOps + 1
    /\ op' = [op EXCEPT ![a] = [Idle EXCEPT !.pc = "wire", !.kind = "ahead", !.file = inner,
                                            !.relay = TRUE]]
    /\ UNCHANGED <<inner, innerState, innerValid, files, openVars, lazyVars, setupVars, faults>>

\* A request of read-ahead ends, whatever became of the file.
AheadDone(a) ==
    /\ At(a, "wire")
    /\ innerOps' = innerOps - 1
    /\ Answer(a)
    /\ UNCHANGED <<inner, innerState, innerValid, files, openVars, lazyVars, setupVars, bounds>>

\* invalidateOnWrite.
Write(c) ==
    /\ At(c, "idle") /\ calls < MaxCalls
    /\ opening.pc = "opened" /\ ~closed
    /\ calls' = calls + 1
    /\ entry' = FALSE /\ tripped' = TRUE
    /\ UNCHANGED <<innerVars, openVars, lazyVars, setupDone, setupMu, closed, errors, relayed, op, faults>>

-----------------------------------------------------------------------------
(* Close and the destructor.                                               *)

\* Both detach the entry; a handle that relayed and had none asks the origin
\* for the size once, unless it knows it (emitRelayObs).
Detach(c, kind) ==
    /\ closed' = TRUE /\ entry' = FALSE
    /\ \E asks \in BOOLEAN :
        /\ asks => relayed /\ ~entry /\ ~closed
        /\ op' = [op EXCEPT ![c] = [Idle EXCEPT !.pc = IF asks THEN "acquire" ELSE kind,
                                                !.kind = kind, !.relay = TRUE]]
    /\ UNCHANGED <<innerVars, openVars, lazyVars, setupDone, setupMu, tripped, errors, relayed, bounds>>

Close(c) ==
    /\ At(c, "idle") /\ opening.pc \in {"opened", "failed"} /\ ~closed /\ innerValid
    /\ Detach(c, "close")

\* waitInnerIdle is bounded; XrdCl does not close a file with requests in
\* flight.
CloseInner(c) ==
    /\ At(c, "close")
    /\ innerState' = IF innerState = "open" /\ innerOps = 0 THEN "closed" ELSE innerState
    /\ Answer(c)
    /\ UNCHANGED <<inner, innerOps, innerValid, files, openVars, lazyVars, setupVars, bounds>>

\* The application is in no call of the handle; requests may be in flight.
Destroy(c) ==
    /\ At(c, "idle") /\ opening.pc # "issued" /\ innerValid
    /\ \A d \in Clients : op[d].pc \in {"idle", "wire"} /\ op[d].kind \notin {"close", "destroy"}
    /\ Detach(c, "destroy")

\* shutdownInner: no request is let in, those in flight are waited for.
Shut(c) ==
    /\ At(c, "destroy")
    /\ innerValid' = FALSE
    /\ Goto(c, "drain")
    /\ UNCHANGED <<inner, innerState, innerOps, files, openVars, lazyVars, setupVars, bounds>>


Shutdown(c) ==
    /\ At(c, "drain") /\ innerOps = 0
    /\ inner' = 0 /\ innerState' = "gone"
    /\ Goto(c, "destroyed")
    /\ UNCHANGED <<innerOps, innerValid, files, openVars, lazyVars, setupVars, bounds>>

-----------------------------------------------------------------------------

\* What the executor and the origin do about the open.
OpenProceeds ==
    \/ OpenDone
    \/ \E transient \in BOOLEAN : OpenFails(transient)
    \/ RetryLook \/ Retry

\* What a thread does with its request.
Proceeds(c) ==
    \/ LazyLook(c) \/ LazyOpened(c) \/ LazyRetry(c) \/ LazyFails(c)
    \/ HasEntry(c) \/ SetUp(c) \/ SetUpTrusted(c) \/ SetUpOrigin(c) \/ Attach(c)
    \/ ServeLocal(c) \/ ServeOrigin(c) \/ Acquire(c) \/ Take(c) \/ Refused(c)
    \/ WireDone(c) \/ WireFails(c) \/ CloseInner(c) \/ Shut(c) \/ Shutdown(c)

Next ==
    \/ OpenTrusted \/ Open \/ OpenProceeds \/ CoolDown
    \/ \E c \in Clients :
        \/ \E kind \in {"read", "pgread", "stat"} : Call(c, kind)
        \/ Write(c) \/ Close(c) \/ Destroy(c) \/ Proceeds(c)
    \/ \E a \in Helpers : ReadAhead(a) \/ AheadDone(a)

Spec == Init /\ [][Next]_vars

\* Threads run, the executor's timers fire, and the origin answers every
\* request or XrdCl times it out.
Fairness ==
    /\ WF_vars(OpenProceeds)
    /\ \A c \in Clients : WF_vars(Proceeds(c))
    /\ \A a \in Helpers : WF_vars(AheadDone(a))

FairSpec == Spec /\ Fairness

-----------------------------------------------------------------------------
(* Properties.                                                             *)

Using == {t \in Threads : op[t].pc = "wire"}

\* innerOps counts the requests in flight, and each of them is on the inner
\* file as it is now: neither a retry (resetInner) nor the destructor
\* (shutdownInner) takes the file away from under one.
InFlightOnInner ==
    /\ innerOps = Cardinality(Using)
    /\ \A t \in Using : op[t].file = inner

\* A closed handle holds no entry, also when it was closed while another
\* thread set the entry up (ensureEntry, Close).
ClosedHoldsNoEntry == closed => ~entry

\* The application's open is completed once, after at most OpenRetries + 1
\* attempts, and one that succeeded without the origin is of a trusted handle
\* (RetryingOpenHandler: "Forwards EXACTLY ONE final completion").
OpenedOnce ==
    /\ answers = IF opening.pc \in {"opened", "failed"} THEN 1 ELSE 0
    /\ opening.attempt <= OpenRetries + 1
    /\ opening.pc = "opened" /\ ~cacheOnly /\ ~setupDone /\ setupMu = Free
         => innerState \in {"open", "closed", "gone"}

\* An inner file that opened is kept until Close or the destructor, whatever
\* other threads' lazy opens do (ensureInnerOpen: "success latches").
OpenFileKept ==
    [][innerState = "open" =>
         \/ inner' = inner /\ innerState' \in {"open", "closed"}
         \/ ~innerValid]_vars

\* Every request, Close and destruction returns, although setup waits for
\* setupMu, lazy opens for innerOpenMu and the destructor for the requests.
CallsReturn ==
    \A c \in Clients : op[c].pc # "idle" ~> op[c].pc \in {"idle", "destroyed"}

\* A read never goes to a file that was never opened (relayToInner: "A
\* never-opened XrdCl::File must never receive I/O").
NeverOnUnopened ==
    \A t \in Using : op[t].kind \in {"read", "pgread"} => innerState \notin {"new", "failed"}
=============================================================================
