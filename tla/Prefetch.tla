------------------------------ MODULE Prefetch ------------------------------
(***************************************************************************)
(* Read-ahead (Prefetcher, Shard): fills and closes of handles queued to a *)
(* prediction thread, the prediction from the basket map, the requests it  *)
(* issues, their completions on other threads, and the breaker.            *)
(*                                                                         *)
(* All handles read one file, whose map gives each branch a row of baskets *)
(* of one unit each; a fill is a set of baskets, and the empty one stands  *)
(* for the reads of the file's metadata.  Page rounding, the bridging of   *)
(* gaps and the parking of reads behind a request are left out (FetchGate  *)
(* has the last).                                                          *)
(***************************************************************************)
EXTENDS Integers, Sequences, FiniteSets, FiniteSetsExt

CONSTANTS
    Shards,        \* prediction threads
    ShardOf,       \* the handles, each with its shard
    ThreadsOf,     \* the application's threads that use each handle
    Baskets,       \* <<branch, index>>, index 1, 2, ... in entry order
    Fills,         \* the sets of baskets a reader may ask for at once
    ParseTries, BarrenFills, Depth, RamCap, GateMinIssued, MaxElems,
    Casts,         \* bounds on each handle's fills and closes, by thread
    None

Handles == DOMAIN ShardOf
Branches == {g[1] : g \in Baskets}
Row(b) == {g \in Baskets : g[1] = b}

ASSUME PrefetchAssumption ==
    /\ Fills \subseteq SUBSET Baskets
    /\ \A h \in Handles : ShardOf[h] \in Shards
    /\ {ParseTries, BarrenFills, Depth, RamCap, GateMinIssued, MaxElems} \subseteq Nat \ {0}
    /\ \A k \in Casts : \A h \in Handles : k[h] \in [ThreadsOf[h] -> Nat]

VARIABLES
    pc,            \* pc[h][t]: what thread t does with handle h
    asked,         \* asked[h][t]: the fill it is being served
    seen,          \* seen[h]: prefetchSeen
    destroyed,     \* destroyed[h]: the destructor has returned
    callsLeft,     \* bound
    order, pending,\* the queue of each shard, and the job of each handle in it
    worker,        \* worker[s]: what the prediction thread does
    state,         \* state[h]: PrefetchHandle, or None
    table,         \* the file's basket map: "unknown", "known" or "none"
    confirmed, disabled, issued, dropped,
    shareOf,       \* shareOf[b]: the largest share of the branch in a fill
    wires,         \* the requests in flight
    spec,          \* baskets staged and not asked for yet
    present        \* baskets a reader brought in

readerVars == <<pc, asked, seen, destroyed, callsLeft>>
queueVars == <<order, pending>>
sharedVars == <<table, confirmed, disabled, shareOf>>
vars == <<readerVars, queueVars, worker, state, sharedVars, issued, dropped, wires, spec, present>>

Idle == [pc |-> "idle", job |-> None, cand |-> {}, sent |-> {}]

\* What the prediction keeps of a handle.
Fresh == [closed |-> FALSE, table |-> FALSE, noTable |-> FALSE, tries |-> 0, fills |-> 0, barren |-> 0,
          frontier |-> [b \in Branches |-> 0], share |-> [b \in Branches |-> 0],
          shadow |-> {}, issued |-> {}]

\* Handles of other files may have confirmed the prediction.
Init ==
    /\ pc = [h \in Handles |-> [t \in ThreadsOf[h] |-> "idle"]]
    /\ asked = [h \in Handles |-> [t \in ThreadsOf[h] |-> {}]]
    /\ seen = [h \in Handles |-> FALSE] /\ destroyed = [h \in Handles |-> FALSE]
    /\ callsLeft \in Casts
    /\ order = [s \in Shards |-> <<>>] /\ pending = [h \in Handles |-> None]
    /\ worker = [s \in Shards |-> Idle]
    /\ state = [h \in Handles |-> None]
    /\ table = "unknown" /\ confirmed \in BOOLEAN /\ disabled = FALSE
    /\ issued = 0 /\ dropped = 0 /\ shareOf = [b \in Branches |-> 0]
    /\ wires = {} /\ spec = {} /\ present = {}

-----------------------------------------------------------------------------
(* The application's threads: onFill and onClose.                          *)

Without(seq, h) == SelectSeq(seq, LAMBDA x : x # h)

\* Waiters whose close is done, by handle and thread.
Wake(h, t) ==
    [pc EXCEPT ![h][t] = IF @ = "destroying" THEN "destroyed" ELSE "idle"]

\* post: a handle has one job queued.  A close goes first, supersedes a fill
\* and takes the place of another close, whose waiter is woken; a fill
\* supersedes a fill.  paths is the state of the threads with the poster's
\* already set.
Post(h, job, paths) ==
    LET s == ShardOf[h]
        orphaned == job.close /\ pending[h] # None /\ pending[h].close
    IN
    /\ order' = [order EXCEPT ![s] =
         IF job.close THEN <<h>> \o Without(@, h)
         ELSE IF pending[h] = None THEN Append(@, h) ELSE @]
    /\ pending' = [pending EXCEPT ![h] = IF @ # None /\ @.close /\ ~job.close THEN @ ELSE job]
    /\ pc' = IF orphaned THEN [paths EXCEPT ![h][pending[h].sync] = "idle"] ELSE paths

\* onFill marks the handle before the job is queued.
SeenFillByWorker(h) == seen' = [seen EXCEPT ![h] = state[h] # None]

SeenFill(h) == seen' = [seen EXCEPT ![h] = TRUE]

\* A vector read arrives: its fill is posted, and then it is served.
Ask(h, t, fill) ==
    LET miss == ~(fill \subseteq present \cup spec)
        serving == [pc EXCEPT ![h][t] = "serving"]
    IN
    /\ pc[h][t] = "idle" /\ callsLeft[h][t] > 0
    /\ \A u \in ThreadsOf[h] : pc[h][u] \notin {"destroying", "destroyed"}
    /\ callsLeft' = [callsLeft EXCEPT ![h][t] = @ - 1]
    /\ asked' = [asked EXCEPT ![h][t] = fill]
    /\ IF disabled \/ (~miss /\ ~seen[h])
       THEN pc' = serving /\ UNCHANGED <<seen, queueVars>>
       ELSE /\ SeenFill(h)
            /\ Post(h, [h |-> h, close |-> FALSE, fill |-> fill, sync |-> None], serving)
    /\ UNCHANGED <<destroyed, worker, state, sharedVars, issued, dropped, wires, spec, present>>

\* What is staged loses its speculative mark; the rest is fetched.
Serve(h, t) ==
    /\ pc[h][t] = "serving"
    /\ present' = present \cup asked[h][t]
    /\ spec' = spec \ asked[h][t]
    /\ pc' = [pc EXCEPT ![h][t] = "idle"]
    /\ asked' = [asked EXCEPT ![h][t] = {}]
    /\ UNCHANGED <<seen, destroyed, callsLeft, queueVars, worker, state, sharedVars, issued, dropped, wires>>

\* Close and the destructor wait for their job; the destructor runs when
\* nobody uses the handle.
Close(h, t, destroys) ==
    LET waits == IF destroys THEN "destroying" ELSE "closing" IN
    /\ pc[h][t] = "idle" /\ ~destroyed[h]
    /\ destroys \/ (seen[h] /\ callsLeft[h][t] > 0)
    /\ callsLeft' = [callsLeft EXCEPT ![h][t] = IF destroys THEN @ ELSE @ - 1]
    /\ \A u \in ThreadsOf[h] : pc[h][u] # "destroying" /\ (destroys => pc[h][u] = "idle")
    /\ IF seen[h]
       THEN /\ Post(h, [h |-> h, close |-> TRUE, fill |-> {}, sync |-> t], [pc EXCEPT ![h][t] = waits])
            /\ UNCHANGED destroyed
       ELSE /\ destroyed' = [destroyed EXCEPT ![h] = TRUE]
            /\ pc' = [pc EXCEPT ![h][t] = "destroyed"]
            /\ UNCHANGED queueVars
    /\ UNCHANGED <<asked, seen, worker, state, sharedVars, issued, dropped, wires, spec, present>>

-----------------------------------------------------------------------------
(* The prediction thread.                                                  *)

\* dropSpeculative: what nobody asked for is given up and counted.
Drop(set) ==
    /\ spec' = spec \ set
    /\ dropped' = dropped + Cardinality(spec \cap set)

Take(s) ==
    /\ worker[s].pc = "idle" /\ order[s] # <<>>
    /\ LET h == Head(order[s]) IN
       /\ worker' = [worker EXCEPT ![s] = [Idle EXCEPT !.pc = "job", !.job = pending[h]]]
       /\ pending' = [pending EXCEPT ![h] = None]
    /\ order' = [order EXCEPT ![s] = Tail(@)]
    /\ UNCHANGED <<readerVars, state, sharedVars, issued, dropped, wires, spec, present>>

Ends(s) == worker' = [worker EXCEPT ![s].pc = "ends"]

\* The job is destroyed, then its waiter is woken.
JobEnds(s) ==
    LET job == worker[s].job IN
    /\ worker[s].pc = "ends"
    /\ worker' = [worker EXCEPT ![s] = Idle]
    /\ IF job.sync = None THEN UNCHANGED <<pc, destroyed>>
       ELSE /\ pc' = Wake(job.h, job.sync)
            /\ destroyed' = [destroyed EXCEPT ![job.h] = pc[job.h][job.sync] = "destroying"]
    /\ UNCHANGED <<asked, seen, callsLeft, queueVars, state, sharedVars, issued, dropped, wires, spec, present>>

\* Anything thrown in a job switches read-ahead off.
JobThrows(s) ==
    /\ worker[s].pc = "job" /\ ~worker[s].job.close /\ ~disabled
    /\ disabled' = TRUE
    /\ Ends(s)
    /\ UNCHANGED <<readerVars, queueVars, state, table, confirmed, shareOf, issued, dropped, wires,
                   spec, present>>

\* handleClose leaves a tombstone.
HandleClose(s) ==
    LET h == worker[s].job.h IN
    /\ worker[s].pc = "job" /\ worker[s].job.close
    /\ IF state[h] = None THEN UNCHANGED <<state, spec, dropped>>
       ELSE /\ Drop(state[h].issued)
            /\ state' = [state EXCEPT ![h] = [Fresh EXCEPT !.closed = TRUE, !.noTable = state[h].noTable]]
    /\ Ends(s)
    /\ UNCHANGED <<readerVars, queueVars, sharedVars, issued, wires, present>>

\* sweepDeadHandles, every so many jobs.
Sweep(s) ==
    /\ worker[s].pc = "job"
    /\ \E h \in Handles :
        /\ ShardOf[h] = s /\ destroyed[h] /\ state[h] # None
        /\ Drop(state[h].issued)
        /\ state' = [state EXCEPT ![h] = None]
    /\ UNCHANGED <<readerVars, queueVars, worker, sharedVars, issued, wires, present>>

\* The handle's state as a fill finds it, with the fill counted.
Found(h) == [(IF state[h] = None THEN Fresh ELSE state[h]) EXCEPT !.fills = IF @ < 2 THEN @ + 1 ELSE @]

\* handleFill looks no further: off, closed, no map, or too early for one.
FillIgnored(s) ==
    LET h == worker[s].job.h
        p == Found(h)
    IN
    /\ worker[s].pc = "job" /\ ~worker[s].job.close
    /\ \/ disabled /\ UNCHANGED state
       \/ ~disabled /\ p.closed /\ UNCHANGED state
       \/ /\ ~disabled /\ ~p.closed
          /\ p.noTable \/ (~p.table /\ ~confirmed /\ p.fills < 2)
          /\ state' = [state EXCEPT ![h] = p]
    /\ Ends(s)
    /\ UNCHANGED <<readerVars, queueVars, sharedVars, issued, dropped, wires, spec, present>>

Wanted(s) ==
    LET p == Found(worker[s].job.h) IN
    /\ worker[s].pc = "job" /\ ~worker[s].job.close
    /\ ~disabled /\ ~p.closed /\ ~p.noTable
    /\ p.table \/ confirmed \/ p.fills = 2

\* The header is not there yet, or the map does not parse; after ParseTries
\* the file is remembered as having none.
ParseFails(s) ==
    LET h == worker[s].job.h
        p == Found(h)
    IN
    /\ Wanted(s) /\ ~p.table /\ table # "known"
    /\ \/ state' = [state EXCEPT ![h] = p] /\ UNCHANGED table
       \/ LET gone == p.tries + 1 >= ParseTries IN
          /\ state' = [state EXCEPT ![h] = [p EXCEPT !.tries = @ + 1, !.noTable = gone]]
          /\ table' = IF gone THEN "none" ELSE table
    /\ Ends(s)
    /\ UNCHANGED <<readerVars, queueVars, confirmed, disabled, shareOf, issued, dropped, wires, spec,
                   present>>

\* The map is there: parsed now, or by an earlier handle.
Mapped(s) ==
    LET p == Found(worker[s].job.h) IN
    /\ Wanted(s) /\ (p.table \/ table # "none")
    /\ table' = IF p.table THEN table ELSE "known"

\* A fill that is no basket of the map: given up after BarrenFills.
FillBarren(s) ==
    LET h == worker[s].job.h
        p == Found(h)
        gone == p.barren + 1 >= BarrenFills
    IN
    /\ Mapped(s) /\ worker[s].job.fill = {}
    /\ state' = [state EXCEPT ![h] = [p EXCEPT !.table = ~gone, !.noTable = gone, !.barren = @ + 1]]
    /\ Ends(s)
    /\ UNCHANGED <<readerVars, queueVars, confirmed, disabled, shareOf, issued, dropped, wires, spec,
                   present>>

Reached(front, fill) ==
    [b \in Branches |-> Max({front[b]} \cup {g[2] : g \in fill \cap Row(b)})]

Drawn(share, fill) ==
    [b \in Branches |-> Max({share[b], Cardinality(fill \cap Row(b))})]

\* An earlier prediction that covered nine tenths of this fill confirms.
Covers(shadow, fill) == shadow # {} /\ 10 * Cardinality(fill \cap shadow) >= 9 * Cardinality(fill)

\* The frontier moves; what earlier fills went past is dropped.
Judge(s) ==
    LET h == worker[s].job.h
        fill == worker[s].job.fill
        p == Found(h)
        passed == {g \in p.issued : g[2] <= p.frontier[g[1]]}
    IN
    /\ Mapped(s) /\ fill # {}
    /\ state' = [state EXCEPT ![h] = [p EXCEPT !.table = TRUE, !.barren = 0,
                                               !.frontier = Reached(@, fill), !.share = Drawn(@, fill),
                                               !.issued = @ \ passed]]
    /\ shareOf' = Drawn(shareOf, fill)
    /\ confirmed' = (confirmed \/ Covers(p.shadow, fill))
    /\ Drop(passed)
    /\ worker' = [worker EXCEPT ![s].pc = "judged"]
    /\ UNCHANGED <<readerVars, queueVars, disabled, issued, wires, present>>

\* The breaker: more than a quarter of what was issued was never used.
Break(s) ==
    LET h == worker[s].job.h IN
    /\ worker[s].pc = "judged"
    /\ issued >= GateMinIssued /\ 4 * dropped > issued
    /\ disabled' = TRUE
    /\ Drop(state[h].issued)
    /\ state' = [state EXCEPT ![h].issued = {}]
    /\ Ends(s)
    /\ UNCHANGED <<readerVars, queueVars, table, confirmed, shareOf, issued, wires, present>>

\* Each branch's next baskets, as many as Depth of its fills have drawn.
Ahead(h) ==
    LET budget(b) == Depth * Max({state[h].share[b], shareOf[b]})
        front(b) == state[h].frontier[b]
    IN {g \in Baskets : g[2] > front(g[1]) /\ g[2] <= front(g[1]) + budget(g[1])}

OnWire == FoldSet(LAMBDA w, n : n + Cardinality(w.stage), 0, wires)

\* predictAndIssue: in entry order, as far as the cap allows.
Predict(s) ==
    LET h == worker[s].job.h
        held == Cardinality(spec) + OnWire
        room == IF RamCap > held THEN RamCap - held ELSE 0
    IN
    /\ worker[s].pc = "judged"
    /\ ~(issued >= GateMinIssued /\ 4 * dropped > issued)
    /\ \E cand \in SUBSET Ahead(h) :
        /\ Cardinality(cand) = Min({room, Cardinality(Ahead(h))})
        /\ \A g \in cand, k \in Ahead(h) \ cand : g[2] <= k[2]
        /\ state' = [state EXCEPT ![h].shadow = cand]
        /\ worker' = [worker EXCEPT ![s].pc = IF cand = {} \/ ~confirmed THEN "ends" ELSE "issue",
                                    ![s].cand = IF confirmed THEN cand ELSE {}]
    /\ UNCHANGED <<readerVars, queueVars, sharedVars, issued, dropped, wires, spec, present>>

\* What is neither there nor on its way.
Absent(s) ==
    (worker[s].cand \ worker[s].sent) \ (present \cup spec \cup UNION {w.stage : w \in wires})

\* issue: one request of at most MaxElems; the handle has the origin open.
Send(s) ==
    /\ worker[s].pc = "issue"
    /\ \E part \in SUBSET Absent(s) :
        /\ part # {} /\ Cardinality(part) = Min({MaxElems, Cardinality(Absent(s))})
        /\ wires' = wires \cup {[h |-> worker[s].job.h, stage |-> part, landing |-> FALSE]}
        /\ worker' = [worker EXCEPT ![s].sent = @ \cup part]
    /\ UNCHANGED <<readerVars, queueVars, state, sharedVars, issued, dropped, spec, present>>

\* No more to send, the origin is not open, or a request is refused: what was
\* sent is counted, and the prediction remembered.
AccountUnlessRefused(s) ==
    LET h == worker[s].job.h IN
    /\ worker[s].pc = "issue"
    /\ issued' = IF Absent(s) = {} THEN issued + Cardinality(worker[s].sent) ELSE issued
    /\ state' = IF worker[s].sent = {} THEN state
                ELSE [state EXCEPT ![h].issued = @ \cup worker[s].cand]
    /\ worker' = [worker EXCEPT ![s].pc = "ends", ![s].cand = {}, ![s].sent = {}]
    /\ UNCHANGED <<readerVars, queueVars, sharedVars, dropped, wires, spec, present>>

Account(s) ==
    LET h == worker[s].job.h IN
    /\ worker[s].pc = "issue"
    /\ issued' = issued + Cardinality(worker[s].sent)
    /\ state' = IF worker[s].sent = {} THEN state
                ELSE [state EXCEPT ![h].issued = @ \cup worker[s].cand]
    /\ worker' = [worker EXCEPT ![s].pc = "ends", ![s].cand = {}, ![s].sent = {}]
    /\ UNCHANGED <<readerVars, queueVars, sharedVars, dropped, wires, spec, present>>

-----------------------------------------------------------------------------
(* Completions, on other threads (WireHandler).                            *)

Closed(h) == state[h] # None /\ state[h].closed

WireFails(w) ==
    /\ ~w.landing
    /\ wires' = wires \ {w}
    /\ UNCHANGED <<readerVars, queueVars, worker, state, sharedVars, issued, dropped, spec, present>>

\* If the handle is closed the bytes count as never used.
WireLands(w) ==
    /\ ~w.landing
    /\ IF Closed(w.h)
       THEN wires' = wires \ {w} /\ dropped' = dropped + Cardinality(w.stage)
       ELSE wires' = (wires \ {w}) \cup {[w EXCEPT !.landing = TRUE]} /\ UNCHANGED dropped
    /\ UNCHANGED <<readerVars, queueVars, worker, state, sharedVars, issued, spec, present>>

\* stageSpeculative keeps what no reader brought in meanwhile; then the
\* request is withdrawn.
WireStages(w) ==
    /\ w.landing
    /\ spec' = spec \cup (w.stage \ present)
    /\ wires' = wires \ {w}
    /\ UNCHANGED <<readerVars, queueVars, worker, state, sharedVars, issued, dropped, present>>

-----------------------------------------------------------------------------

Works(s) ==
    \/ Take(s) \/ JobEnds(s) \/ JobThrows(s) \/ HandleClose(s) \/ Sweep(s)
    \/ FillIgnored(s) \/ ParseFails(s) \/ FillBarren(s) \/ Judge(s) \/ Break(s)
    \/ Predict(s) \/ Send(s) \/ Account(s)

Next ==
    \/ \E h \in Handles : \E t \in ThreadsOf[h] :
        \/ \E fill \in Fills : Ask(h, t, fill)
        \/ \E destroys \in BOOLEAN : Close(h, t, destroys)
        \/ Serve(h, t)
    \/ \E s \in Shards : Works(s)
    \/ \E w \in wires : WireFails(w) \/ WireLands(w) \/ WireStages(w)

Spec == Init /\ [][Next]_vars

\* The prediction threads run for ever.
Fairness == \A s \in Shards : WF_vars(Works(s))
FairSpec == Spec /\ Fairness

-----------------------------------------------------------------------------
(* Properties.                                                             *)

\* Once a handle's destructor has returned nothing is queued, predicted or
\* kept for it, whichever fills were queued or in work when it was closed
\* (onFill marks the handle, a close supersedes, handleClose's tombstone).
DestroyedIsForgotten ==
    \A h \in Handles : destroyed[h] =>
        /\ pending[h] = None
        /\ \A s \in Shards : worker[s].pc # "idle" => worker[s].job.h # h
        /\ state[h] # None => state[h].closed /\ state[h].issued = {}

\* The breaker weighs what was never used against what was issued: a byte
\* dropped, staged or on the wire was issued, also when a request lands
\* before its issue is counted or after its handle is closed (neverUsed,
\* issue, WireHandler).
BreakerBalance ==
    dropped + Cardinality(spec) + OnWire
      <= issued + FoldSet(LAMBDA s, n : n + Cardinality(worker[s].sent), 0, Shards)

\* Close and the destructor return, although they wait for the prediction
\* thread, and also when two threads close one handle (post, onClose).
ClosesReturn ==
    \A h \in Handles : \A t \in ThreadsOf[h] :
        pc[h][t] \in {"closing", "destroying"} ~> pc[h][t] \in {"idle", "destroyed"}
=============================================================================
