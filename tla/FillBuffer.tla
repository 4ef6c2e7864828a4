----------------------------- MODULE FillBuffer -----------------------------
(***************************************************************************)
(* The write-behind stage of the entries of one process (FileEntry::buf_,  *)
(* flushing_ and the two process-wide pools).  Fetched pages are staged in *)
(* RAM; a flush takes the demanded ones into flushing_, writes them        *)
(* without a lock, publishes their bits and frees them.  Predicted         *)
(* (speculative) pages share the stage but belong to the other pool until  *)
(* a reader confirms them.                                                 *)
(*                                                                         *)
(* What happens under FileEntry::mu_ is one step.  The process-wide totals *)
(* are atomics updated outside mu_, so each update is a step of its own.   *)
(* A page counts for one byte.  What a page's bytes are, and the sidecar   *)
(* that flushMeta writes, belong to FileEntry.                             *)
(***************************************************************************)
EXTENDS Integers, FiniteSets, FiniteSetsExt

CONSTANTS
    Entries,     \* the entries open in the process
    Threads,     \* reader, prefetch, checkpoint and destructor threads
    NPages,      \* the pages of a file are 1 .. NPages
    Cap,         \* fill_buffer_mb: staged bytes of one entry that force a drain
    TotalCap,    \* fill_buffer_total_mb: the same for the process
    Wrap,        \* the pools are unsigned counters modulo Wrap
    MaxOps,      \* bound on the operations started
    MaxFaults,   \* bound on failed writes and damaged pages
    MaxExtras,   \* bound on predictions and pages adopted from siblings
    MaxReleases, \* bound on releases
    None         \* no thread

ASSUME FillBufferAssumption ==
    /\ NPages \in Nat
    /\ Cap \in Nat /\ TotalCap \in Nat
    /\ Wrap \in Nat \ {0}
    /\ None \notin Threads

Pages == 1 .. NPages

VARIABLES
    buf,         \* buf[e][p]: "none", or staged as "real" or "spec"
    flushing,    \* the snapshot being written, readable meanwhile
    bits,        \* the in-memory presence bitmap
    bufBytes,    \* counter of the real bytes staged
    specBytes,   \* counter of the speculative bytes staged
    inProgress,  \* flushInProgress_
    gBuf,        \* g_bufTotal_
    gSpec,       \* g_specTotal_
    pc,          \* what the thread does next
    at,          \* the entry it works on
    force,       \* the argument of flushBuffer
    todo,        \* pages the thread works on (disk runs, snapshot, published)
    move,        \* bytes still to move from the speculative to the fill pool
    credit,      \* bytes still to add to (or take from) a pool
    closing,     \* the thread runs the entry's destructor
    evictor,     \* the thread that holds the cache LOCK, or None
    left,        \* live entries the evictor has yet to flush
    asked,       \* pages a reader has asked for (history)
    ops, faults, extras, releases

stage == <<buf, flushing, bits, bufBytes, specBytes, inProgress>>
pools == <<gBuf, gSpec>>
task == <<at, force, todo, move, credit, closing>>
evict == <<evictor, left>>
bounds == <<ops, faults, extras, releases>>
vars == <<stage, pools, pc, task, evict, asked, bounds>>

-----------------------------------------------------------------------------

Staged(e, kind) == {p \in Pages : buf[e][p] = kind}

\* FileEntry::pageHere.
Here(e) == Staged(e, "real") \cup Staged(e, "spec") \cup flushing[e] \cup bits[e]

\* buf_ with the pages of S marked kind ("none" erases them).
Mark(e, S, kind) ==
    buf' = [buf EXCEPT ![e] = [p \in Pages |-> IF p \in S THEN kind ELSE @[p]]]

Init ==
    /\ buf = [e \in Entries |-> [p \in Pages |-> "none"]]
    /\ flushing = [e \in Entries |-> {}]
    /\ bits = [e \in Entries |-> {}]
    /\ bufBytes = [e \in Entries |-> 0]
    /\ specBytes = [e \in Entries |-> 0]
    /\ inProgress = [e \in Entries |-> FALSE]
    /\ gBuf = 0 /\ gSpec = 0
    /\ pc = [t \in Threads |-> "idle"]
    /\ at = [t \in Threads |-> None]
    /\ force = [t \in Threads |-> FALSE]
    /\ todo = [t \in Threads |-> {}]
    /\ move = [t \in Threads |-> 0]
    /\ credit = [t \in Threads |-> 0]
    /\ closing = [t \in Threads |-> FALSE]
    /\ evictor = None
    /\ left = {}
    /\ asked = [e \in Entries |-> {}]
    /\ ops = 0 /\ faults = 0 /\ extras = 0 /\ releases = 0

\* An entry whose destructor runs has no other user.
Dying(e) == \E t \in Threads : closing[t] /\ at[t] = e

Free(t, e) ==
    /\ pc[t] = "idle"
    /\ ~Dying(e)
    /\ ops < MaxOps
    /\ ops' = ops + 1

Start(t, e) == Free(t, e) /\ at' = [at EXCEPT ![t] = e]

Goto(t, l) == pc' = [pc EXCEPT ![t] = l]

\* The thread is done with its entry.
Leave(t) ==
    /\ Goto(t, "idle")
    /\ at' = [at EXCEPT ![t] = None]
    /\ force' = [force EXCEPT ![t] = FALSE]
    /\ todo' = [todo EXCEPT ![t] = {}]
    /\ closing' = [closing EXCEPT ![t] = FALSE]

-----------------------------------------------------------------------------
(* Staging.                                                                *)

\* What a covered prediction takes from the entry's speculative counter.
UncountedNothing(covered) == 0

Uncounted(covered) == Cardinality(covered)

\* A demand read's pages arrive.  Predicted pages among them become real.
WritePages(t, e, S) ==
    LET covered == S \cap Staged(e, "spec")
        staged == S \ Here(e)
    IN  /\ Start(t, e)
        /\ Mark(e, covered \cup staged, "real")
        /\ bufBytes' = [bufBytes EXCEPT ![e] = @ + Cardinality(covered \cup staged)]
        /\ specBytes' = [specBytes EXCEPT ![e] = @ - Uncounted(covered)]
        /\ move' = [move EXCEPT ![t] = Cardinality(covered)]
        /\ credit' = [credit EXCEPT ![t] = Cardinality(staged)]
        /\ asked' = [asked EXCEPT ![e] = @ \cup S]
        /\ Goto(t, "moveSpec")
        /\ UNCHANGED <<flushing, bits, inProgress, pools, force, todo, closing, evict,
                       faults, extras, releases>>

\* The process-wide pools follow, one atomic operation at a time; a fill
\* that staged something then offers the entry to flushBuffer(false).
MoveSpec(t) ==
    /\ pc[t] = "moveSpec"
    /\ gSpec' = (gSpec - move[t]) % Wrap
    /\ Goto(t, "moveBuf")
    /\ UNCHANGED <<stage, gBuf, task, evict, asked, bounds>>

MoveBuf(t) ==
    /\ pc[t] = "moveBuf"
    /\ gBuf' = (gBuf + move[t]) % Wrap
    /\ move' = [move EXCEPT ![t] = 0]
    /\ IF credit[t] > 0
       THEN Goto(t, "credit") /\ UNCHANGED <<at, force, todo, closing>>
       ELSE Leave(t)
    /\ UNCHANGED <<stage, gSpec, credit, evict, asked, bounds>>

Credit(t) ==
    /\ pc[t] = "credit"
    /\ gBuf' = (gBuf + credit[t]) % Wrap
    /\ credit' = [credit EXCEPT ![t] = 0]
    /\ Goto(t, "flush")
    /\ UNCHANGED <<stage, gSpec, at, force, todo, move, closing, evict, asked, bounds>>

\* A prediction's pages arrive: only absent pages are taken.
StageSpeculative(t, e, S) ==
    LET staged == S \ Here(e)
    IN  /\ extras < MaxExtras
        /\ extras' = extras + 1
        /\ staged # {}
        /\ Start(t, e)
        /\ Mark(e, staged, "spec")
        /\ specBytes' = [specBytes EXCEPT ![e] = @ + Cardinality(staged)]
        /\ credit' = [credit EXCEPT ![t] = Cardinality(staged)]
        /\ Goto(t, "settleSpec")
        /\ UNCHANGED <<flushing, bits, bufBytes, inProgress, pools, force, todo, move,
                       closing, evict, asked, faults, releases>>

\* The pages a drop takes.
Droppable(e) == Staged(e, "spec")

\* The reader's frontier passed the pages (dropSpeculative), or the cache
\* itself used them (consumeSpeculative): still marked pages leave the stage.
DropSpeculative(t, e, S) ==
    LET gone == S \cap Droppable(e)
    IN  /\ gone # {}
        /\ Start(t, e)
        /\ Mark(e, gone, "none")
        /\ specBytes' = [specBytes EXCEPT ![e] = @ - Cardinality(gone)]
        /\ credit' = [credit EXCEPT ![t] = 0 - Cardinality(gone)]
        /\ Goto(t, "settleSpec")
        /\ UNCHANGED <<flushing, bits, bufBytes, inProgress, pools, force, todo, move,
                       closing, evict, asked, faults, extras, releases>>

SettleSpec(t) ==
    /\ pc[t] = "settleSpec"
    /\ gSpec' = (gSpec + credit[t]) % Wrap
    /\ credit' = [credit EXCEPT ![t] = 0]
    /\ IF closing[t]
       THEN Goto(t, "flush") /\ UNCHANGED <<at, force, todo, closing>>
       ELSE Leave(t)
    /\ UNCHANGED <<stage, gBuf, move, evict, asked, bounds>>

-----------------------------------------------------------------------------
(* Reading and releasing.                                                  *)

\* The predictions a read confirms: none when the cache reads its own stage.
ConfirmedAlways(e, S, account) == S \cap Staged(e, "spec")

Confirmed(e, S, account) == IF account THEN S \cap Staged(e, "spec") ELSE {}

\* readCached: the plan, under one lock.  The walk stops at the first page
\* that is not here; the predicted pages before it are confirmed.
ReadPlan(t, e, S, account) ==
    LET absent == S \ Here(e)
        walked == {p \in S : \A q \in absent : p < q}
        confirmed == Confirmed(e, walked, account)
        disk == walked \ (Staged(e, "real") \cup Staged(e, "spec") \cup flushing[e])
    IN  /\ Start(t, e)
        /\ Mark(e, confirmed, "real")
        /\ bufBytes' = [bufBytes EXCEPT ![e] = @ + Cardinality(confirmed)]
        /\ specBytes' = [specBytes EXCEPT ![e] = @ - Cardinality(confirmed)]
        /\ move' = [move EXCEPT ![t] = Cardinality(confirmed)]
        /\ asked' = [asked EXCEPT ![e] = IF account THEN @ \cup S ELSE @]
        /\ IF absent = {} /\ disk # {}
           THEN Goto(t, "disk") /\ todo' = [todo EXCEPT ![t] = disk]
           ELSE Goto(t, "moveSpec") /\ UNCHANGED todo
        /\ UNCHANGED <<flushing, bits, inProgress, pools, force, credit, closing, evict,
                       faults, extras, releases>>

\* The disk runs verify.
ReadDisk(t) ==
    /\ pc[t] = "disk"
    /\ todo' = [todo EXCEPT ![t] = {}]
    /\ Goto(t, "moveSpec")
    /\ UNCHANGED <<stage, pools, at, force, move, credit, closing, evict, asked, bounds>>

\* A short read or a CRC mismatch: the bad page is retracted and the request
\* fails, but the pools move at this exit too.
ReadDamaged(t, p) ==
    /\ pc[t] = "disk"
    /\ p \in todo[t]
    /\ faults < MaxFaults
    /\ faults' = faults + 1
    /\ bits' = [bits EXCEPT ![at[t]] = @ \ {p}]
    /\ todo' = [todo EXCEPT ![t] = {}]
    /\ Goto(t, "moveSpec")
    /\ UNCHANGED <<buf, flushing, bufBytes, specBytes, inProgress, pools, at, force, move,
                   credit, closing, evict, asked, ops, extras, releases>>

\* The staged pages of a release whose bytes are in the fill pool.
FillPoolShare(e, S) == S \cap Staged(e, "real")

\* releaseRanges, up to its flushMeta and punchHole: staged pages go from
\* their own pool, bits are cleared; a page mid-flush is left to the flush.
ReleaseRanges(t, e, S) ==
    LET real == FillPoolShare(e, S)
        spec == S \cap Staged(e, "spec")
    IN  /\ releases < MaxReleases
        /\ releases' = releases + 1
        /\ Free(t, e)
        /\ Mark(e, S, "none")
        /\ bits' = [bits EXCEPT ![e] = @ \ S]
        /\ bufBytes' = [bufBytes EXCEPT ![e] = @ - Cardinality(real)]
        /\ specBytes' = [specBytes EXCEPT ![e] = @ - Cardinality(spec)]
        /\ gBuf' = (gBuf - Cardinality(real)) % Wrap
        /\ gSpec' = (gSpec - Cardinality(spec)) % Wrap
        /\ UNCHANGED <<flushing, inProgress, pc, task, evict, asked, faults, extras>>

\* A commit of the sidecar brought in a page a sibling process published.
AdoptSibling(e, p) ==
    /\ extras < MaxExtras
    /\ extras' = extras + 1
    /\ ~Dying(e)
    /\ p \notin bits[e]
    /\ bits' = [bits EXCEPT ![e] = @ \cup {p}]
    /\ asked' = [asked EXCEPT ![e] = @ \cup {p}]
    /\ UNCHANGED <<buf, flushing, bufBytes, specBytes, inProgress, pools, pc, task, evict,
                   ops, faults, releases>>

-----------------------------------------------------------------------------
(* Flushing.                                                               *)

\* flushAll at a handle's Close, or a checkpoint that finds the drain due.
ForceFlush(t, e) ==
    /\ Start(t, e)
    /\ force' = [force EXCEPT ![t] = TRUE]
    /\ Goto(t, "flush")
    /\ UNCHANGED <<stage, pools, todo, move, credit, closing, evict, asked, faults, extras, releases>>

\* The last handle lets go: ~FileEntry drops the predictions, then flushes.
\* A thread inside the entry holds it, and so does an eviction pass.
Destroy(t, e) ==
    LET gone == Staged(e, "spec")
    IN  /\ \A u \in Threads : at[u] # e
        /\ evictor = None
        /\ Start(t, e)
        /\ closing' = [closing EXCEPT ![t] = TRUE]
        /\ force' = [force EXCEPT ![t] = TRUE]
        /\ Mark(e, gone, "none")
        /\ specBytes' = [specBytes EXCEPT ![e] = @ - Cardinality(gone)]
        /\ credit' = [credit EXCEPT ![t] = 0 - Cardinality(gone)]
        /\ Goto(t, "settleSpec")
        /\ UNCHANGED <<flushing, bits, bufBytes, inProgress, pools, todo, move, evict, asked,
                       faults, extras, releases>>

\* Where a flush returns to: the destructor, the eviction pass or the caller.
Return(t) ==
    CASE closing[t] -> Goto(t, "residual") /\ UNCHANGED <<at, force, todo, closing>>
      [] evictor = t -> Goto(t, "evict") /\ UNCHANGED <<at, force, todo, closing>>
      [] OTHER -> Leave(t)

CapStall(e) == bufBytes[e] >= Cap \/ gBuf >= TotalCap

\* flushBuffer's early returns.  A forced flush waits for one in progress;
\* an unforced one leaves its pages for the next trigger, and below the caps
\* it runs only when the interval has passed.
FlushNothing(t) ==
    LET e == at[t]
    IN  /\ pc[t] = "flush"
        /\ IF force[t]
           THEN ~inProgress[e] /\ bufBytes[e] = 0
           ELSE inProgress[e] \/ bufBytes[e] = 0 \/ ~CapStall(e)
        /\ Return(t)
        /\ UNCHANGED <<stage, pools, move, credit, evict, asked, bounds>>

\* The demanded pages become the snapshot; predictions stay in the stage.
FlushSnapshot(t) ==
    LET e == at[t]
        real == Staged(e, "real")
    IN  /\ pc[t] = "flush"
        /\ ~inProgress[e]
        /\ bufBytes[e] > 0
        /\ flushing' = [flushing EXCEPT ![e] = real]
        /\ Mark(e, real, "none")
        /\ credit' = [credit EXCEPT ![t] = 0 - bufBytes[e]]
        /\ bufBytes' = [bufBytes EXCEPT ![e] = 0]
        /\ inProgress' = [inProgress EXCEPT ![e] = TRUE]
        /\ Goto(t, "write")
        /\ UNCHANGED <<bits, specBytes, pools, at, force, todo, move, closing, evict, asked,
                       bounds>>

\* The first pages of the maximal runs of a snapshot.
RunStarts(S) == {p \in S : p - 1 \notin S}


\* One pwrite per run, in page order.  All of them succeed and all pages are
\* to be published; or a run fails and only the runs before it count; or the
\* data sync fails and none do.
FlushWrite(t) ==
    LET snapshot == flushing[at[t]]
    IN  /\ pc[t] = "write"
        /\ \/ /\ todo' = [todo EXCEPT ![t] = snapshot]
              /\ UNCHANGED faults
           \/ \E f \in RunStarts(snapshot) :
              /\ faults < MaxFaults
              /\ faults' = faults + 1
              /\ todo' = [todo EXCEPT ![t] = {p \in snapshot : p < f}]
        /\ Goto(t, "publish")
        /\ UNCHANGED <<stage, pools, at, force, move, credit, closing, evict, asked, ops,
                       extras, releases>>

\* The bits of the written pages, and the snapshot is freed, under one lock.
FlushPublish(t) ==
    LET e == at[t]
    IN  /\ pc[t] = "publish"
        /\ bits' = [bits EXCEPT ![e] = @ \cup todo[t]]
        /\ flushing' = [flushing EXCEPT ![e] = {}]
        /\ inProgress' = [inProgress EXCEPT ![e] = FALSE]
        /\ Goto(t, "debit")
        /\ UNCHANGED <<buf, bufBytes, specBytes, pools, task, evict, asked, bounds>>

\* The whole snapshot leaves the process-wide pool, written or not.
FlushDebit(t) ==
    /\ pc[t] = "debit"
    /\ gBuf' = (gBuf + credit[t]) % Wrap
    /\ credit' = [credit EXCEPT ![t] = 0]
    /\ Goto(t, "persisted")
    /\ UNCHANGED <<stage, gSpec, at, force, todo, move, closing, evict, asked, bounds>>

\* onPersist_: bytes landed, so the store may start an eviction pass, unless
\* the entry is being destroyed or another pass holds the cache LOCK.  The
\* pass flushes every live entry before it scans.
Persisted(t) ==
    /\ pc[t] = "persisted"
    /\ \/ Return(t) /\ UNCHANGED evict
       \/ /\ todo[t] # {} /\ ~closing[t]
          /\ evictor = None
          /\ evictor' = t
          /\ left' = {e \in Entries : ~Dying(e)}
          /\ Goto(t, "evict")
          /\ UNCHANGED <<at, force, todo, closing>>
    /\ UNCHANGED <<stage, pools, move, credit, asked, bounds>>

EvictFlush(t) ==
    /\ pc[t] = "evict"
    /\ \E e \in left :
        /\ left' = left \ {e}
        /\ at' = [at EXCEPT ![t] = e]
    /\ force' = [force EXCEPT ![t] = TRUE]
    /\ Goto(t, "flush")
    /\ UNCHANGED <<stage, pools, todo, move, credit, closing, evictor, asked, bounds>>

EvictDone(t) ==
    /\ pc[t] = "evict"
    /\ left = {}
    /\ evictor' = None
    /\ Leave(t)
    /\ UNCHANGED <<stage, pools, move, credit, left, asked, bounds>>

\* The destructor settles what a flush left staged and frees the stage.
Residual(t) ==
    LET e == at[t]
    IN  /\ pc[t] = "residual"
        /\ gBuf' = (gBuf - bufBytes[e]) % Wrap
        /\ bufBytes' = [bufBytes EXCEPT ![e] = 0]
        /\ Mark(e, Pages, "none")
        /\ Leave(t)
        /\ UNCHANGED <<flushing, bits, specBytes, inProgress, gSpec, move, credit, evict,
                       asked, bounds>>

-----------------------------------------------------------------------------

Operation(t) ==
    \E e \in Entries :
        \/ ForceFlush(t, e)
        \/ Destroy(t, e)
        \/ \E S \in SUBSET Pages \ {{}} :
            \/ WritePages(t, e, S)
            \/ StageSpeculative(t, e, S)
            \/ DropSpeculative(t, e, S)
            \/ ReleaseRanges(t, e, S)
            \/ \E account \in BOOLEAN : ReadPlan(t, e, S, account)

Continue(t) ==
    \/ MoveSpec(t) \/ MoveBuf(t) \/ Credit(t) \/ SettleSpec(t)
    \/ ReadDisk(t)
    \/ \E p \in Pages : ReadDamaged(t, p)
    \/ FlushNothing(t) \/ FlushSnapshot(t) \/ FlushWrite(t)
    \/ FlushPublish(t) \/ FlushDebit(t) \/ Persisted(t)
    \/ EvictFlush(t) \/ EvictDone(t) \/ Residual(t)

Next ==
    \/ \E t \in Threads : Operation(t) \/ Continue(t)
    \/ \E e \in Entries, p \in Pages : AdoptSibling(e, p)

Spec == Init /\ [][Next]_vars

-----------------------------------------------------------------------------
(* Properties.                                                             *)

TypeOK ==
    /\ buf \in [Entries -> [Pages -> {"none", "real", "spec"}]]
    /\ flushing \in [Entries -> SUBSET Pages]
    /\ bits \in [Entries -> SUBSET Pages]
    /\ bufBytes \in [Entries -> Nat]
    /\ specBytes \in [Entries -> Nat]
    /\ inProgress \in [Entries -> BOOLEAN]
    /\ gBuf \in 0 .. Wrap - 1
    /\ gSpec \in 0 .. Wrap - 1
    /\ pc \in [Threads -> {"idle", "moveSpec", "moveBuf", "credit", "settleSpec", "disk",
                           "flush", "write", "publish", "debit", "persisted", "evict",
                           "residual"}]
    /\ at \in [Threads -> Entries \cup {None}]
    /\ force \in [Threads -> BOOLEAN]
    /\ todo \in [Threads -> SUBSET Pages]
    /\ move \in [Threads -> Nat]
    /\ credit \in [Threads -> Int]
    /\ closing \in [Threads -> BOOLEAN]
    /\ evictor \in Threads \cup {None}
    /\ left \in SUBSET Entries
    /\ asked \in [Entries -> SUBSET Pages]
    /\ ops \in Nat /\ faults \in Nat /\ extras \in Nat /\ releases \in Nat

\* "While it carries its mark it is NEVER written" (FileEntry.h:122): a page
\* that was only predicted is never in a snapshot and never gets a bit, by
\* whatever order of reads, drops, flushes and destruction.
OnlyAskedWritten ==
    \A e \in Entries : flushing[e] \cup bits[e] \subseteq asked[e]

\* The entry's two byte counters, kept up to date at seven places, always
\* agree with what the stage holds; flushBuffer returns early on bufBytes_,
\* so a low count would leave demanded pages unwritten.
CountersAgree ==
    \A e \in Entries :
        /\ bufBytes[e] = Cardinality(Staged(e, "real"))
        /\ specBytes[e] = Cardinality(Staged(e, "spec"))

\* When no thread is inside the cache the process-wide pools equal what is
\* staged: the totals are moved outside the lock, on every exit of
\* readCached, writePages, flushBuffer, releaseRanges and the destructor,
\* and may wrap for a moment, but do not drift.
PoolsExact ==
    (\A t \in Threads : pc[t] = "idle") =>
        /\ gBuf = MapThenSumSet(LAMBDA e : bufBytes[e], Entries)
        /\ gSpec = MapThenSumSet(LAMBDA e : specBytes[e], Entries)


\* A forced flush waits on flushCv_ only for a thread that is writing or
\* about to publish, and those steps never wait: flushInProgress_ is set for
\* exactly one running flush of the entry, also when that flush fails, runs
\* in the destructor or belongs to an eviction pass over the live entries.
FlushOwned ==
    \A e \in Entries :
        Cardinality({t \in Threads : at[t] = e /\ pc[t] \in {"write", "publish"}})
            = IF inProgress[e] THEN 1 ELSE 0

=============================================================================
