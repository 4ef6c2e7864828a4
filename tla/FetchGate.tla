----------------------------- MODULE FetchGate -----------------------------
(***************************************************************************)
(* How reads that miss share a fetch of one cached file.  A single read    *)
(* that misses owns the fetch of its exact range, or parks behind the      *)
(* owner (FileEntry::beginFetch / endFetch).  A vector read whose absent   *)
(* pages are all being read ahead parks behind those fetches               *)
(* (waitForInFlight / clearFetchInFlight).  A parked read is sent round    *)
(* again when the fetch ends, or by a timer kept as insurance; a latch     *)
(* made at each parking lets only the first of the two act.                *)
(*                                                                         *)
(* A miss completes the reader before it keeps the pages, so Close waits   *)
(* for the persists its handle has reserved.                               *)
(*                                                                         *)
(* Whether the origin file can be acquired, and what the origin answers,   *)
(* is nondeterministic here; the pages' bytes belong to FileEntry.         *)
(***************************************************************************)
EXTENDS Integers, FiniteSets

CONSTANTS
    Reads,      \* single reads
    VReads,     \* vector reads
    Fills,      \* read-ahead requests
    Pages,
    Handles,
    Want,       \* Want[r]: the pages of the rounded request
    HandleOf,   \* the handle a read or a read-ahead belongs to
    MaxParks,   \* bound on parkings a timer may bring about
    MaxDrops    \* bound on pages that go away (demoted, dropped, released)

Requests == Reads \cup VReads

ASSUME FetchGateAssumption ==
    /\ Reads \cap VReads = {}
    /\ Want \in [Requests \cup Fills -> SUBSET Pages]
    /\ HandleOf \in [Requests \cup Fills -> Handles]
    /\ {MaxParks, MaxDrops} \subseteq Nat

VARIABLES
    here,      \* pages present: bit set, staged or being flushed
    inflight,  \* ranges some single read is fetching
    waiters,   \* waiters[k]: tickets parked behind range k
    flight,    \* read-ahead requests whose ranges are announced
    fwaiters,  \* tickets parked behind read-ahead
    timers,    \* tickets whose insurance timer has not fired
    fired,     \* tickets whose latch is set
    parks,     \* how often the request has parked
    queued,    \* re-dispatches of the request in the executor's queue
    pc,        \* where the request is
    gated,     \* the request owns the gate of its range
    answers,   \* how often the reader's handler was completed
    keep,      \* the persist of the request's pages
    pending,   \* pending[h]: HandleState::pendingPersists
    handle,    \* "open", "draining" or "closed"
    ahead,     \* "idle", "planned", "wire", "landed" or "over"
    plan,      \* pages the read-ahead asks for
    drops

cache == <<here, inflight, waiters, flight, fwaiters>>
wakeups == <<timers, fired, parks, queued>>
progress == <<pc, gated, answers, keep>>
closes == <<pending, handle>>
fills == <<ahead, plan>>
vars == <<cache, wakeups, progress, closes, fills, drops>>

\* The ranges a gate can be about.
Keys == {Want[r] : r \in Reads}

Init ==
    /\ here = {}
    /\ inflight = {}
    /\ waiters = [k \in Keys |-> {}]
    /\ flight = {} /\ fwaiters = {}
    /\ timers = {} /\ fired = {}
    /\ parks = [r \in Requests |-> 0]
    /\ queued = [r \in Requests |-> 0]
    /\ pc = [r \in Requests |-> "new"]
    /\ gated = [r \in Requests |-> FALSE]
    /\ answers = [r \in Requests |-> 0]
    /\ keep = [r \in Requests |-> "none"]
    /\ pending = [h \in Handles |-> 0]
    /\ handle = [h \in Handles |-> "open"]
    /\ ahead = [f \in Fills |-> "idle"]
    /\ plan = [f \in Fills |-> {}]
    /\ drops = 0

-----------------------------------------------------------------------------

Goto(r, l) == pc' = [pc EXCEPT ![r] = l]

\* complete(handler, ...): the reader has its answer.
Answer(r) ==
    /\ answers' = [answers EXCEPT ![r] = @ + 1]
    /\ Goto(r, "answered")


Acting(T) == T \ fired

\* Calling the callbacks of T posts a re-dispatch for each that acts.
Fire(T) ==
    /\ fired' = fired \cup T
    /\ queued' = [r \in Requests |->
                    queued[r] + Cardinality({n \in 1 .. parks[r] : <<r, n>> \in Acting(T)})]

\* endFetch on the request's range, if it owns the gate.
EndFetch(r) ==
    IF gated[r]
    THEN /\ inflight' = inflight \ {Want[r]}
         /\ Fire(waiters[Want[r]])
         /\ waiters' = [waiters EXCEPT ![Want[r]] = {}]
         /\ gated' = [gated EXCEPT ![r] = FALSE]
    ELSE UNCHANGED <<inflight, waiters, gated, fired, queued>>

\* A parking's callback, with its own latch.
Ticket(r) == <<r, parks[r] + 1>>

\* The request parks: its callback waits with the fetch and with a timer.
Park(r) ==
    /\ parks' = [parks EXCEPT ![r] = @ + 1]
    /\ timers' = timers \cup {Ticket(r)}
    /\ Goto(r, "parked")

-----------------------------------------------------------------------------
(* A read, from the application's call to its answer.                      *)

\* UCacheFile::Read and the first pass of servePlainVectorRead: classify.
Read(r) ==
    /\ pc[r] = "new"
    /\ handle[HandleOf[r]] = "open"
    /\ Goto(r, IF Want[r] \subseteq here THEN "hit" ELSE IF r \in Reads THEN "gate" ELSE "join")
    /\ UNCHANGED <<cache, wakeups, gated, answers, keep, closes, fills, drops>>


Hit(r) ==
    /\ pc[r] = "hit"
    /\ IF Want[r] \subseteq here THEN Answer(r) ELSE Goto(r, "issue") /\ UNCHANGED answers
    /\ UNCHANGED <<cache, wakeups, gated, keep, closes, fills, drops>>

\* beginFetch: own the range or park behind its owner.
BeginFetch(r) ==
    /\ pc[r] = "gate"
    /\ IF Want[r] \in inflight
       THEN /\ waiters' = [waiters EXCEPT ![Want[r]] = @ \cup {Ticket(r)}]
            /\ Park(r)
            /\ UNCHANGED <<inflight, gated>>
       ELSE /\ inflight' = inflight \cup {Want[r]}
            /\ gated' = [gated EXCEPT ![r] = TRUE]
            /\ Goto(r, "issue")
            /\ UNCHANGED <<waiters, timers, parks>>
    /\ UNCHANGED <<here, flight, fwaiters, fired, queued, answers, keep, closes, fills, drops>>

\* The pages being read ahead.
Coming == UNION {plan[f] : f \in flight}

\* waitForInFlight: park only when something is absent and all of it is
\* coming; otherwise go to the origin.
WaitForInFlight(r) ==
    LET absent == Want[r] \ here
    IN  /\ pc[r] = "join"
        /\ IF absent # {} /\ absent \subseteq Coming
           THEN /\ fwaiters' = fwaiters \cup {Ticket(r)}
                /\ Park(r)
           ELSE Goto(r, "issue") /\ UNCHANGED <<fwaiters, timers, parks>>
        /\ UNCHANGED <<here, inflight, waiters, flight, fired, queued, gated, answers, keep,
                       closes, fills, drops>>

\* The executor runs a re-dispatch: a single read is served or meets the gate
\* again, a vector read does not park twice.
Redispatch(r) ==
    /\ queued[r] > 0
    /\ pc[r] \in {"parked", "answered"}
    /\ queued' = [queued EXCEPT ![r] = @ - 1]
    /\ IF Want[r] \subseteq here
       THEN IF r \in Reads THEN Answer(r) ELSE Goto(r, "hit") /\ UNCHANGED answers
       ELSE Goto(r, IF r \in Reads THEN "gate" ELSE "issue") /\ UNCHANGED answers
    /\ UNCHANGED <<cache, timers, fired, parks, gated, keep, closes, fills, drops>>

\* The insurance timer fires, before the fetch has ended or after.
TimerFires(k) ==
    /\ k \in timers
    /\ k \in fired \/ parks[k[1]] < MaxParks
    /\ timers' = timers \ {k}
    /\ Fire({k})
    /\ UNCHANGED <<cache, parks, progress, closes, fills, drops>>

\* The rounded wire read goes out.
Issue(r) ==
    /\ pc[r] = "issue"
    /\ Goto(r, "wire")
    /\ UNCHANGED <<cache, wakeups, gated, answers, keep, closes, fills, drops>>

\* The origin file cannot be acquired, or refuses the request.
IssueFails(r) ==
    /\ pc[r] = "issue"
    /\ EndFetch(r)
    /\ Answer(r)
    /\ UNCHANGED <<here, flight, fwaiters, timers, parks, keep, closes, fills, drops>>

\* The wire read covers the request: reserve the persist, then complete.
WireLands(r) ==
    /\ pc[r] = "wire"
    /\ pending' = [pending EXCEPT ![HandleOf[r]] = @ + 1]
    /\ keep' = [keep EXCEPT ![r] = "reserved"]
    /\ Goto(r, "landed")
    /\ UNCHANGED <<cache, wakeups, gated, answers, handle, fills, drops>>

Deliver(r) ==
    /\ pc[r] = "landed"
    /\ Answer(r)
    /\ UNCHANGED <<cache, wakeups, gated, keep, closes, fills, drops>>


WireFails(r) ==
    /\ pc[r] = "wire"
    /\ EndFetch(r)
    /\ Goto(r, "retry")
    /\ UNCHANGED <<here, flight, fwaiters, timers, parks, answers, keep, closes, fills, drops>>

\* The pass-through goes out and is answered, or is refused.
Retry(r) ==
    /\ pc[r] = "retry"
    /\ Goto(r, "relay")
    /\ UNCHANGED <<cache, wakeups, gated, answers, keep, closes, fills, drops>>

RetryFails(r) ==
    /\ pc[r] = "retry"
    /\ Answer(r)
    /\ UNCHANGED <<cache, wakeups, gated, keep, closes, fills, drops>>

RelayLands(r) ==
    /\ pc[r] = "relay"
    /\ Answer(r)
    /\ UNCHANGED <<cache, wakeups, gated, keep, closes, fills, drops>>

-----------------------------------------------------------------------------
(* Keeping the pages, and Close.                                           *)

\* The persist task: stage the pages, let the parked reads go, and tell Close.
PersistStage(r) ==
    /\ keep[r] = "reserved" /\ pc[r] = "answered"
    /\ here' = here \cup Want[r]
    /\ keep' = [keep EXCEPT ![r] = "staged"]
    /\ UNCHANGED <<inflight, waiters, flight, fwaiters, wakeups, pc, gated, answers, closes,
                   fills, drops>>

PersistRelease(r) ==
    /\ keep[r] = "staged"
    /\ EndFetch(r)
    /\ keep' = [keep EXCEPT ![r] = "released"]
    /\ UNCHANGED <<here, flight, fwaiters, timers, parks, pc, answers, closes, fills, drops>>

PersistEnd(r) ==
    /\ keep[r] = "released"
    /\ keep' = [keep EXCEPT ![r] = "done"]
    /\ pending' = [pending EXCEPT ![HandleOf[r]] = @ - 1]
    /\ UNCHANGED <<cache, wakeups, pc, gated, answers, handle, fills, drops>>

\* The application closes a handle when its reads have been answered.
Close(h) ==
    /\ handle[h] = "open"
    /\ \A r \in Requests : HandleOf[r] = h => pc[r] \in {"new", "answered"}
    /\ handle' = [handle EXCEPT ![h] = "draining"]
    /\ UNCHANGED <<cache, wakeups, progress, pending, fills, drops>>

\* drainPersists, then flushAll writes what is staged.
CloseFlushUndrained(h) ==
    /\ handle[h] = "draining"
    /\ handle' = [handle EXCEPT ![h] = "closed"]
    /\ UNCHANGED <<cache, wakeups, progress, pending, fills, drops>>

CloseFlush(h) ==
    /\ handle[h] = "draining"
    /\ pending[h] = 0
    /\ handle' = [handle EXCEPT ![h] = "closed"]
    /\ UNCHANGED <<cache, wakeups, progress, pending, fills, drops>>

-----------------------------------------------------------------------------
(* Read-ahead.                                                             *)

\* What is absent and not already coming is worth asking for.
PlanFill(f) ==
    LET absent == (Want[f] \ here) \ Coming
    IN  /\ ahead[f] = "idle"
        /\ handle[HandleOf[f]] = "open"
        /\ absent # {}
        /\ ahead' = [ahead EXCEPT ![f] = "planned"]
        /\ plan' = [plan EXCEPT ![f] = absent]
        /\ UNCHANGED <<cache, wakeups, progress, closes, drops>>

\* The origin is not open, so nothing is announced.
FillSkipped(f) ==
    /\ ahead[f] = "planned"
    /\ ahead' = [ahead EXCEPT ![f] = "over"]
    /\ UNCHANGED <<cache, wakeups, progress, closes, plan, drops>>

\* The ranges are announced before the request goes out.
AnnounceFill(f) ==
    /\ ahead[f] = "planned"
    /\ flight' = flight \cup {f}
    /\ ahead' = [ahead EXCEPT ![f] = "wire"]
    /\ UNCHANGED <<here, inflight, waiters, fwaiters, wakeups, progress, closes, plan, drops>>

\* The answer is staged, unless the handle has closed.
FillLands(f) ==
    /\ ahead[f] = "wire"
    /\ here' = IF handle[HandleOf[f]] = "open" THEN here \cup plan[f] ELSE here
    /\ ahead' = [ahead EXCEPT ![f] = "landed"]
    /\ UNCHANGED <<inflight, waiters, flight, fwaiters, wakeups, progress, closes, plan, drops>>

\* The request is refused or fails.
FillFails(f) ==
    /\ ahead[f] = "wire"
    /\ ahead' = [ahead EXCEPT ![f] = "landed"]
    /\ UNCHANGED <<cache, wakeups, progress, closes, plan, drops>>

\* The handler's destructor, on every path: all of its ranges are withdrawn
\* and everyone parked is sent round again.
Withdraw(f) ==
    /\ ahead[f] = "landed"
    /\ flight' = flight \ {f}
    /\ Fire(fwaiters)
    /\ fwaiters' = {}
    /\ ahead' = [ahead EXCEPT ![f] = "over"]
    /\ UNCHANGED <<here, inflight, waiters, timers, parks, progress, closes, plan, drops>>

\* A page goes away: a failed checksum, a failed flush, a dropped prediction
\* or a release.
DropPage(p) ==
    /\ p \in here
    /\ drops < MaxDrops
    /\ drops' = drops + 1
    /\ here' = here \ {p}
    /\ UNCHANGED <<inflight, waiters, flight, fwaiters, wakeups, progress, closes, fills>>

-----------------------------------------------------------------------------

\* What the cache itself does for a request once it has been made.
Serve(r) ==
    \/ Hit(r) \/ BeginFetch(r) \/ WaitForInFlight(r) \/ Redispatch(r)
    \/ Issue(r) \/ IssueFails(r) \/ WireLands(r) \/ Deliver(r)
    \/ WireFails(r) \/ Retry(r) \/ RetryFails(r) \/ RelayLands(r)

Persist(r) == PersistStage(r) \/ PersistRelease(r) \/ PersistEnd(r)

Prefetch(f) ==
    \/ FillSkipped(f) \/ AnnounceFill(f) \/ FillLands(f) \/ FillFails(f) \/ Withdraw(f)

Next ==
    \/ \E r \in Requests : Read(r) \/ Serve(r) \/ Persist(r)
    \/ \E h \in Handles : Close(h) \/ CloseFlush(h)
    \/ \E f \in Fills : PlanFill(f) \/ Prefetch(f)
    \/ \E k \in timers : TimerFires(k)
    \/ \E p \in Pages : DropPage(p)

Spec == Init /\ [][Next]_vars

\* Executor tasks run, the origin answers or times out, and a Close that has
\* begun goes on.  The insurance timers are given no fairness: nothing may
\* depend on them.
FairSpec ==
    /\ Spec
    /\ \A r \in Requests : WF_vars(Serve(r)) /\ WF_vars(Persist(r))
    /\ \A f \in Fills : WF_vars(Prefetch(f))
    /\ \A h \in Handles : WF_vars(CloseFlush(h))

-----------------------------------------------------------------------------
(* Properties.                                                             *)

TypeOK ==
    /\ here \in SUBSET Pages
    /\ inflight \in SUBSET Keys
    /\ waiters \in [Keys -> SUBSET (Reads \X Nat)]
    /\ flight \in SUBSET Fills
    /\ fwaiters \in SUBSET (VReads \X Nat)
    /\ timers \in SUBSET (Requests \X Nat)
    /\ fired \in SUBSET (Requests \X Nat)
    /\ parks \in [Requests -> Nat]
    /\ queued \in [Requests -> Nat]
    /\ pc \in [Requests -> {"new", "hit", "gate", "join", "parked", "issue", "wire", "landed",
                            "retry", "relay", "answered"}]
    /\ gated \in [Requests -> BOOLEAN]
    /\ answers \in [Requests -> Nat]
    /\ keep \in [Requests -> {"none", "reserved", "staged", "released", "done"}]
    /\ pending \in [Handles -> Nat]
    /\ handle \in [Handles -> {"open", "draining", "closed"}]
    /\ ahead \in [Fills -> {"idle", "planned", "wire", "landed", "over"}]
    /\ plan \in [Fills -> SUBSET Pages]
    /\ drops \in Nat


\* A read never waits on a fetch that is not happening: an unwoken read is
\* on the list of a range that is in flight, or of read-ahead that is.
ParkedBehindFetch ==
    \A r \in Requests :
        pc[r] = "parked" /\ queued[r] = 0 =>
            \/ /\ Want[r] \in inflight
               /\ <<r, parks[r]>> \in waiters[Want[r]]
            \/ /\ flight # {}
               /\ <<r, parks[r]>> \in fwaiters

\* A range in flight has one owner that still has to release it, so the gate
\* neither leaks nor is released by a read that never held it.
GateOwned ==
    \A k \in Keys :
        Cardinality({r \in Reads : gated[r] /\ Want[r] = k}) = IF k \in inflight THEN 1 ELSE 0


\* When Close has returned, everything its handle fetched had been staged
\* before the flush, although the readers were completed first.
CloseKeepsFetched ==
    \A r \in Requests :
        handle[HandleOf[r]] = "closed" => keep[r] \in {"none", "done"}

\* Every read is answered, with no help from the insurance timers.
ReadsAnswered ==
    \A r \in Requests : pc[r] = "hit" \/ pc[r] = "gate" \/ pc[r] = "join" ~> pc[r] = "answered"

\* A Close that has begun returns.
CloseReturns ==
    \A h \in Handles : handle[h] = "draining" ~> handle[h] = "closed"


=============================================================================
