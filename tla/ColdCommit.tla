----------------------------- MODULE ColdCommit -----------------------------
(***************************************************************************)
(* What a process does with the slot records it converted, until they are  *)
(* in the slot store: a record is staged, waits in memory, and is          *)
(* committed with the others by the commit pool.  Commits of one file run  *)
(* one at a time; a request for a commit that finds one queued adds        *)
(* nothing, one that finds one running makes it go round again.  Records   *)
(* that may not wait (the store is gone, too much waits already) are kept  *)
(* only while a small budget allows.  At exit the process asks every file  *)
(* it still has open for a commit and waits for the commits outstanding.   *)
(*                                                                         *)
(* A run is a ColdFill: this process's view of one slot store.  The runs   *)
(* here are successive runs of one file, each replacing the one before in  *)
(* the registry.  Every record counts one unit, a basket kept as stored    *)
(* whose original the byte cache holds counts none.  SlotStore::commit is  *)
(* the external step modelled in detail by SlotStore.                      *)
(***************************************************************************)
EXTENDS Integers, Sequences, SequencesExt, FiniteSets, FiniteSetsExt, Functions

CONSTANTS
    Runs,           \* numbered in the order they are built
    Slots,
    Kept,           \* the slots whose basket conversion keeps as stored
    Workers,        \* the threads of the commit pool
    None,
    CommitBytes,    \* kCommitBytes: as much waiting asks for a commit
    PendingCap,     \* kPendingCap
    TransientBytes, \* kTransientBytes
    TransientCap,   \* kTransientCap
    Casts           \* the budgets to explore: how many runs are built, handles attached
                    \* to them later, slots claimed, conversions given up or not kept,
                    \* records found unreadable, records committed by other processes,
                    \* commits refused, and whether the process exits

ASSUME ColdCommitAssumption ==
    /\ Runs \subseteq Nat
    /\ Kept \subseteq Slots
    /\ None \notin Runs \cup Workers
    /\ {CommitBytes, PendingCap, TransientBytes, TransientCap} \subseteq Nat
    /\ Casts \subseteq [{"build", "join", "claim", "waste", "forget", "apply", "refuse",
                       "exit"} -> Nat]

VARIABLES
    state,          \* per run and slot: "absent", "fetching" or "ready"
    converting,     \* per run and slot: conversions under way
    inStore, persist, transient, mem, \* slots whose Info has the field set
    pending,        \* slots waiting for a commit
    pendingBytes,
    oldest,         \* the deque ColdFill::transient
    transientBytes,
    storeGone,
    pendingTotal, transientTotal,
    handles, registry, built,
    asking,         \* threads about to ask for a commit
    counting,       \* threads that asked first and have still to post it
    commitQueued, commitAgain, commitMu,
    jobs,           \* the queue of the commit pool
    cmtPending,     \* g_cmtPending
    pc, run, recs,  \* of each worker
    exit, exitTodo,
    owed,           \* what waited when the exit began and has not been collected
    left            \* what remains of the budget

info == <<state, inStore, persist, transient, mem>>
account == <<pending, pendingBytes, oldest, transientBytes, pendingTotal, transientTotal>>
life == <<handles, registry, built>>
request == <<asking, counting, commitQueued, jobs, cmtPending>>
lock == <<commitAgain, commitMu>>
worker == <<pc, run, recs>>
leaving == <<exit, exitTodo, owed>>
vars == <<info, converting, account, storeGone, life, request, lock, worker, leaving, left>>

Each(v) == [r \in Runs |-> v]

Init ==
    /\ state = Each([i \in Slots |-> "absent"])
    /\ converting = Each([i \in Slots |-> 0])
    /\ inStore = Each({}) /\ persist = Each({}) /\ transient = Each({}) /\ mem = Each({})
    /\ pending = Each({}) /\ pendingBytes = Each(0)
    /\ oldest = Each(<<>>) /\ transientBytes = Each(0)
    /\ storeGone = Each(FALSE)
    /\ pendingTotal = 0 /\ transientTotal = 0
    /\ handles = Each(0) /\ registry = None /\ built = {}
    /\ asking = Each(0) /\ counting = Each(0)
    /\ commitQueued = Each(FALSE) /\ commitAgain = Each(FALSE) /\ commitMu = Each(None)
    /\ jobs = <<>> /\ cmtPending = 0
    /\ pc = [w \in Workers |-> "idle"] /\ run = [w \in Workers |-> None]
    /\ recs = [w \in Workers |-> {}]
    /\ exit = "no" /\ exitTodo = {} /\ owed = Each({})
    /\ left \in Casts

Alive == exit \notin {"done", "late"}

-----------------------------------------------------------------------------
(* Asking for a commit.                                                    *)

Post(r) ==
    /\ cmtPending' = cmtPending + 1
    /\ jobs' = Append(jobs, r)

\* queueCommit by a thread that converts or closes: the flag ...
QueueCommit(r) ==
    /\ Alive /\ asking[r] > 0
    /\ asking' = [asking EXCEPT ![r] = @ - 1]
    /\ commitQueued' = [commitQueued EXCEPT ![r] = TRUE]
    /\ counting' = [counting EXCEPT ![r] = IF commitQueued[r] THEN @ ELSE @ + 1]
    /\ UNCHANGED <<info, converting, account, storeGone, life, jobs, cmtPending, lock, worker,
                   leaving, left>>

\* ... then the count and the post.
PostCommit(r) ==
    /\ Alive /\ counting[r] > 0
    /\ counting' = [counting EXCEPT ![r] = @ - 1]
    /\ Post(r)
    /\ UNCHANGED <<info, converting, account, storeGone, life, asking, commitQueued, lock, worker,
                   leaving, left>>

\* queueCommit by the exiting thread itself, or by a worker whose own job is
\* still counted: the exit's wait sees nothing in between.
QueueAtOnce(r) ==
    IF commitQueued[r]
    THEN UNCHANGED <<commitQueued, jobs, cmtPending>>
    ELSE Post(r) /\ commitQueued' = [commitQueued EXCEPT ![r] = TRUE]

-----------------------------------------------------------------------------
(* Handles.                                                                *)

\* coldAttach: join the registered run, or build one that takes its place.
AttachJoins ==
    /\ registry # None
    /\ left.join > 0 /\ left' = [left EXCEPT !.join = @ - 1]
    /\ handles' = [handles EXCEPT ![registry] = @ + 1]
    /\ UNCHANGED <<registry, built>>

AttachBuilds ==
    LET r == Min(Runs \ built)
    IN  /\ Runs # built
        /\ left.build > 0 /\ left' = [left EXCEPT !.build = @ - 1]
        /\ built' = built \cup {r}
        /\ registry' = r
        /\ handles' = [handles EXCEPT ![r] = 1]

Attach ==
    /\ exit = "no"
    /\ AttachJoins \/ AttachBuilds
    /\ UNCHANGED <<info, converting, account, storeGone, request, lock, worker, leaving>>

\* coldDetach: the last handle unregisters the run and asks for a commit.
DetachAsksNothing(r) ==
    /\ Alive /\ handles[r] > 0
    /\ handles' = [handles EXCEPT ![r] = @ - 1]
    /\ registry' = IF handles[r] = 1 /\ registry = r THEN None ELSE registry
    /\ UNCHANGED <<info, converting, account, storeGone, built, request, lock, worker, leaving,
                   left>>

Detach(r) ==
    /\ Alive /\ handles[r] > 0
    /\ handles' = [handles EXCEPT ![r] = @ - 1]
    /\ registry' = IF handles[r] = 1 /\ registry = r THEN None ELSE registry
    /\ asking' = [asking EXCEPT ![r] = IF handles[r] = 1 THEN @ + 1 ELSE @]
    /\ UNCHANGED <<info, converting, account, storeGone, built, counting, commitQueued, jobs,
                   cmtPending, lock, worker, leaving, left>>

-----------------------------------------------------------------------------
(* Records in memory.                                                      *)

Forgot(f, r, S) == [f EXCEPT ![r] = @ \ S]

BudgetOfFile(r, S) ==
    /\ transientBytes' = [transientBytes EXCEPT ![r] = @ - Cardinality(S \cap transient[r])]
    /\ UNCHANGED transientTotal

\* releaseMemLocked for the slots of S, as far as the budgets go.
Budget(r, S) ==
    /\ transientBytes' = [transientBytes EXCEPT ![r] = @ - Cardinality(S \cap transient[r])]
    /\ transientTotal' = transientTotal - Cardinality(S \cap transient[r])

\* apply: the slots of S are committed, by anyone, and the store's copy serves.
Applied(r, S) ==
    /\ inStore' = [inStore EXCEPT ![r] = @ \cup S]
    /\ persist' = Forgot(persist, r, S)
    /\ transient' = Forgot(transient, r, S)
    /\ mem' = Forgot(mem, r, S)
    /\ state' = [state EXCEPT ![r] = [i \in Slots |-> IF i \in S THEN "ready" ELSE @[i]]]
    /\ Budget(r, S)
    /\ UNCHANGED <<pending, pendingBytes, oldest, pendingTotal>>

\* forgetLocked for the slots of S: their Info goes.
Forgotten(r, S) ==
    /\ inStore' = Forgot(inStore, r, S)
    /\ persist' = Forgot(persist, r, S)
    /\ transient' = Forgot(transient, r, S)
    /\ mem' = Forgot(mem, r, S)
    /\ state' = [state EXCEPT ![r] =
                    [i \in Slots |-> IF i \in S /\ @[i] = "ready" THEN "absent" ELSE @[i]]]
    /\ Budget(r, S)
    /\ UNCHANGED <<pending, pendingBytes, oldest, pendingTotal>>

\* sync finds a record another process committed.
Apply(r, i) ==
    /\ Alive /\ left.apply > 0
    /\ r \in built /\ i \notin inStore[r]
    /\ Applied(r, {i})
    /\ left' = [left EXCEPT !.apply = @ - 1]
    /\ UNCHANGED <<converting, storeGone, life, request, lock, worker, leaving>>

\* forget, keptOriginalGone: the record fails its check, or the byte cache no
\* longer holds the original that serves a basket kept as stored.
Forget(r, i) ==
    /\ Alive /\ left.forget > 0
    /\ state[r][i] = "ready" /\ i \notin mem[r]
    /\ i \in inStore[r] \cup Kept
    /\ Forgotten(r, {i})
    /\ left' = [left EXCEPT !.forget = @ - 1]
    /\ UNCHANGED <<converting, storeGone, life, request, lock, worker, leaving>>

\* A read claims an absent slot and fetches it.
Claim(r, i) ==
    /\ Alive /\ left.claim > 0
    /\ handles[r] > 0 /\ state[r][i] = "absent"
    /\ state' = [state EXCEPT ![r][i] = "fetching"]
    /\ converting' = [converting EXCEPT ![r][i] = @ + 1]
    /\ left' = [left EXCEPT !.claim = @ - 1]
    /\ UNCHANGED <<inStore, persist, transient, mem, account, storeGone, life, request, lock,
                   worker, leaving>>

Converted(r, i) ==
    /\ Alive /\ converting[r][i] > 0
    /\ converting' = [converting EXCEPT ![r][i] = @ - 1]
    /\ UNCHANGED <<storeGone, life, counting, commitQueued, jobs, cmtPending, lock, worker, leaving>>

Wasted == left.waste > 0 /\ left' = [left EXCEPT !.waste = @ - 1]

\* abandon: the fetch or the conversion failed.
Abandon(r, i) ==
    /\ Converted(r, i) /\ Wasted
    /\ state' = [state EXCEPT ![r][i] = IF @ = "fetching" THEN "absent" ELSE @]
    /\ UNCHANGED <<inStore, persist, transient, mem, account, asking>>

SetReady(r, i) == state' = [state EXCEPT ![r][i] = "ready"]
Kick(r, if) == asking' = [asking EXCEPT ![r] = IF if THEN @ + 1 ELSE @]

\* stage, the slot having been committed by someone meanwhile: theirs serves.
StageStored(r, i) ==
    /\ i \in inStore[r]
    /\ Converted(r, i) /\ SetReady(r, i)
    /\ UNCHANGED <<inStore, persist, transient, mem, account, asking, left>>

\* stage in a file read directly: served to whoever asked and not kept.
StageDirect(r, i) ==
    /\ i \notin inStore[r]
    /\ Converted(r, i) /\ Wasted
    /\ transient' = Forgot(transient, r, {i})
    /\ mem' = Forgot(mem, r, {i})
    /\ persist' = Forgot(persist, r, {i})
    /\ state' = [state EXCEPT ![r][i] = "absent"]
    /\ Budget(r, {i})
    /\ UNCHANGED <<inStore, pending, pendingBytes, oldest, pendingTotal, asking>>

\* What the record of slot i counts, when the byte cache holds its original or not.
Size(cached) == IF cached THEN 0 ELSE 1

MayWait(r, cached) == ~storeGone[r] /\ pendingTotal + Size(cached) <= PendingCap

\* stage: the record waits for the next commit, and asks for one when enough
\* waits or nobody has the file open.
StagePending(r, i, cached) ==
    /\ i \notin inStore[r] /\ (cached => i \in Kept) /\ MayWait(r, cached)
    /\ Converted(r, i) /\ SetReady(r, i)
    /\ transient' = Forgot(transient, r, {i})
    /\ mem' = [mem EXCEPT ![r] = IF cached THEN @ \ {i} ELSE @ \cup {i}]
    /\ persist' = [persist EXCEPT ![r] = @ \cup {i}]
    /\ pending' = [pending EXCEPT ![r] = @ \cup {i}]
    /\ pendingBytes' = [pendingBytes EXCEPT ![r] = @ + Size(cached)]
    /\ pendingTotal' = pendingTotal + Size(cached)
    /\ Budget(r, {i})
    /\ Kick(r, pendingBytes'[r] >= CommitBytes \/ handles[r] = 0)
    /\ UNCHANGED <<inStore, oldest, left>>

\* stage, with no room to wait, of a basket the byte cache serves: nothing to hold.
StageCached(r, i) ==
    /\ i \in Kept \ inStore[r] /\ ~MayWait(r, TRUE)
    /\ Converted(r, i) /\ SetReady(r, i)
    /\ transient' = Forgot(transient, r, {i})
    /\ mem' = Forgot(mem, r, {i})
    /\ persist' = Forgot(persist, r, {i})
    /\ Budget(r, {i})
    /\ UNCHANGED <<inStore, pending, pendingBytes, oldest, pendingTotal, asking, left>>

\* The records that the k oldest in the deque stand for, the one being staged
\* excepted.
Victims(r, i, k) == (Range(SubSeq(oldest[r], 1, k)) \cap transient[r]) \ {i}

\* Whether one more record fits both budgets once slot i's old record and the
\* k oldest are gone.
Fits(r, i, k) ==
    LET freed == Cardinality(Victims(r, i, k) \cup ({i} \cap transient[r]))
    IN  /\ transientBytes[r] - freed + 1 <= TransientBytes
        /\ transientTotal - freed + 1 <= TransientCap

\* stage, with no room to wait: kept while the budgets allow, the oldest
\* dropped first; what waits already is drained.
StageTransient(r, i) ==
    LET n == Len(oldest[r])
        k == Min({n} \cup {m \in 0 .. n : Fits(r, i, m)})
        lost == Victims(r, i, k)
        kept == IF Fits(r, i, k) THEN {i} ELSE {}
        freed == lost \cup {i}
    IN  /\ i \notin inStore[r] /\ ~MayWait(r, FALSE)
        /\ Converted(r, i)
        /\ state' = [state EXCEPT ![r] = [j \in Slots |->
                        IF j \in kept THEN "ready"
                        ELSE IF j \in freed THEN "absent" ELSE @[j]]]
        /\ transient' = [transient EXCEPT ![r] = (@ \ freed) \cup kept]
        /\ mem' = [mem EXCEPT ![r] = (@ \ freed) \cup kept]
        /\ persist' = Forgot(persist, r, freed)
        /\ oldest' = [oldest EXCEPT ![r] = SubSeq(@, k + 1, n) \o SetToSeq(kept)]
        /\ transientBytes' = [transientBytes EXCEPT ![r] =
                                 @ - Cardinality(freed \cap transient[r]) + Cardinality(kept)]
        /\ transientTotal' =
               transientTotal - Cardinality(freed \cap transient[r]) + Cardinality(kept)
        /\ Kick(r, ~storeGone[r])
        /\ UNCHANGED <<inStore, pending, pendingBytes, pendingTotal, left>>

-----------------------------------------------------------------------------
(* A commit, on a thread of the commit pool.                               *)

Goto(w, l) == pc' = [pc EXCEPT ![w] = l]

\* A worker takes a job.  From here on a request is not swallowed by it.
Take(w) ==
    /\ Alive /\ pc[w] = "idle" /\ jobs # <<>>
    /\ run' = [run EXCEPT ![w] = Head(jobs)]
    /\ jobs' = Tail(jobs)
    /\ commitQueued' = [commitQueued EXCEPT ![Head(jobs)] = FALSE]
    /\ Goto(w, "try")
    /\ UNCHANGED <<info, converting, account, storeGone, life, asking, counting, cmtPending, lock,
                   recs, leaving, left>>

\* try_lock; a commit that finds another running says so ...
TryLock(w) ==
    /\ Alive /\ pc[w] = "try"
    /\ IF commitMu[run[w]] = None
       THEN Goto(w, "collect") /\ commitMu' = [commitMu EXCEPT ![run[w]] = w]
       ELSE Goto(w, "flag") /\ UNCHANGED commitMu
    /\ UNCHANGED <<info, converting, account, storeGone, life, request, commitAgain, run, recs,
                   leaving, left>>

Flag(w) ==
    /\ Alive /\ pc[w] = "flag"
    /\ commitAgain' = [commitAgain EXCEPT ![run[w]] = TRUE]
    /\ Goto(w, "again")
    /\ UNCHANGED <<info, converting, account, storeGone, life, request, commitMu, run, recs,
                   leaving, left>>

\* ... and tries once more before it leaves the work to the other.
LeaveAtOnce(w) ==
    /\ Alive /\ pc[w] = "again"
    /\ cmtPending' = cmtPending - 1
    /\ run' = [run EXCEPT ![w] = None]
    /\ Goto(w, "idle")
    /\ UNCHANGED <<info, converting, account, storeGone, life, asking, counting, commitQueued, jobs,
                   lock, recs, leaving, left>>

TryAgain(w) ==
    /\ Alive /\ pc[w] = "again"
    /\ IF commitMu[run[w]] = None
       THEN /\ Goto(w, "collect")
            /\ commitMu' = [commitMu EXCEPT ![run[w]] = w]
            /\ UNCHANGED <<run, cmtPending>>
       ELSE /\ Goto(w, "idle")
            /\ run' = [run EXCEPT ![w] = None]
            /\ cmtPending' = cmtPending - 1
            /\ UNCHANGED commitMu
    /\ UNCHANGED <<info, converting, account, storeGone, life, asking, counting, commitQueued, jobs,
                   commitAgain, recs, leaving, left>>

\* What waits is collected; records of the transient budget go with it.
Collect(w) ==
    LET r == run[w]
        P == pending[r] \cap persist[r] \cap (mem[r] \cup Kept)
        T == IF storeGone[r] THEN {} ELSE Range(oldest[r]) \cap transient[r]
    IN  /\ Alive /\ pc[w] = "collect"
        /\ recs' = [recs EXCEPT ![w] = P \cup T]
        /\ persist' = Forgot(persist, r, pending[r])
        /\ pending' = [pending EXCEPT ![r] = {}]
        /\ pendingTotal' = pendingTotal - pendingBytes[r]
        /\ pendingBytes' = [pendingBytes EXCEPT ![r] = 0]
        /\ transient' = Forgot(transient, r, T)
        /\ Budget(r, T)
        /\ oldest' = [oldest EXCEPT ![r] = IF storeGone[r] THEN @ ELSE <<>>]
        /\ owed' = [owed EXCEPT ![r] = {}]
        /\ Goto(w, IF P \cup T = {} THEN "unlock" ELSE IF storeGone[r] THEN "drop" ELSE "store")
        /\ UNCHANGED <<state, inStore, mem, converting, storeGone, life, request, lock, run,
                       exit, exitTodo, left>>

\* There is no room, the write fails, or (gone) the path no longer names the store.
StoreRefuses(w, isGone) ==
    /\ Alive /\ pc[w] = "store" /\ left.refuse > 0
    /\ left' = [left EXCEPT !.refuse = @ - 1]
    /\ storeGone' = [storeGone EXCEPT ![run[w]] = isGone]
    /\ Goto(w, "drop")
    /\ UNCHANGED <<info, converting, account, life, request, lock, run, recs, leaving>>

\* releaseCollected: not what someone committed or was staged again meanwhile.
DropFreesMemory(w) ==
    LET r == run[w]
        S == {i \in recs[w] : state[r][i] = "ready" /\ i \notin inStore[r] \cup persist[r]}
    IN  /\ Alive /\ pc[w] = "drop"
        /\ mem' = Forgot(mem, r, S)
        /\ Goto(w, "unlock")
        /\ UNCHANGED <<state, inStore, persist, transient, converting, account, storeGone, life,
                       request, lock, run, recs, leaving, left>>

Drop(w) ==
    LET r == run[w]
        S == {i \in recs[w] : state[r][i] = "ready" /\ i \notin inStore[r] \cup persist[r]}
    IN  /\ Alive /\ pc[w] = "drop"
        /\ Forgotten(r, S)
        /\ Goto(w, "unlock")
        /\ UNCHANGED <<converting, storeGone, life, request, lock, run, recs, leaving, left>>

\* SlotStore::commit: what others committed of the batch is applied and
\* skipped, the rest is written.
StoreCommits(w, theirs) ==
    LET r == run[w]
    IN  /\ Alive /\ pc[w] = "store"
        /\ Cardinality(theirs) <= left.apply
        /\ theirs \cap inStore[r] = {}
        /\ left' = [left EXCEPT !.apply = @ - Cardinality(theirs)]
        /\ Applied(r, theirs)
        /\ recs' = [recs EXCEPT ![w] = @ \ inStore'[r]]
        /\ Goto(w, "landed")
        /\ UNCHANGED <<converting, storeGone, life, request, lock, run, leaving>>

\* The entries written serve from now on, a slot forgotten meanwhile included.
Landed(w) ==
    /\ Alive /\ pc[w] = "landed"
    /\ Applied(run[w], recs[w])
    /\ Goto(w, "unlock")
    /\ UNCHANGED <<converting, storeGone, life, request, lock, run, recs, leaving, left>>

Unlock(w) ==
    /\ Alive /\ pc[w] = "unlock"
    /\ commitMu' = [commitMu EXCEPT ![run[w]] = None]
    /\ recs' = [recs EXCEPT ![w] = {}]
    /\ Goto(w, "round")
    /\ UNCHANGED <<info, converting, account, storeGone, life, request, commitAgain, run, leaving,
                   left>>

\* ~Again: a request that met this commit is queued anew.  The job has run.
Round(w) ==
    LET r == run[w]
        again == commitAgain[r] /\ ~commitQueued[r]
    IN  /\ Alive /\ pc[w] = "round"
        /\ commitAgain' = [commitAgain EXCEPT ![r] = FALSE]
        /\ commitQueued' = [commitQueued EXCEPT ![r] = @ \/ again]
        /\ jobs' = IF again THEN Append(jobs, r) ELSE jobs
        /\ cmtPending' = IF again THEN cmtPending ELSE cmtPending - 1
        /\ run' = [run EXCEPT ![w] = None]
        /\ Goto(w, "idle")
        /\ UNCHANGED <<info, converting, account, storeGone, life, asking, counting, commitMu, recs,
                       leaving, left>>

-----------------------------------------------------------------------------
(* The end of a run, and of the process.                                   *)

\* A commit of the run is queued or under way.
Outstanding(r) == r \in Range(jobs) \/ \E w \in Workers : run[w] = r

\* ~ColdFill: the last reference to the run goes, with what it still counts.
Destroy(r) ==
    /\ Alive /\ pendingBytes[r] + transientBytes[r] > 0
    /\ handles[r] = 0 /\ asking[r] = 0 /\ counting[r] = 0
    /\ \A i \in Slots : converting[r][i] = 0
    /\ ~Outstanding(r)
    /\ pendingTotal' = pendingTotal - pendingBytes[r]
    /\ transientTotal' = transientTotal - transientBytes[r]
    /\ pendingBytes' = [pendingBytes EXCEPT ![r] = 0]
    /\ transientBytes' = [transientBytes EXCEPT ![r] = 0]
    /\ pending' = [pending EXCEPT ![r] = {}]
    /\ persist' = [persist EXCEPT ![r] = {}]
    /\ transient' = [transient EXCEPT ![r] = {}]
    /\ mem' = [mem EXCEPT ![r] = {}]
    /\ oldest' = [oldest EXCEPT ![r] = <<>>]
    /\ state' = [state EXCEPT ![r] = [i \in Slots |-> "absent"]]
    /\ inStore' = [inStore EXCEPT ![r] = {}]
    /\ UNCHANGED <<converting, storeGone, life, request, lock, worker, leaving, left>>

\* commitAtExit: coldCheckpoint takes the runs registered ...
ExitBegin ==
    /\ exit = "no" /\ left.exit > 0
    /\ exit' = "asking"
    /\ exitTodo' = {registry} \ {None}
    /\ owed' = [r \in Runs |-> IF r = registry \/ Outstanding(r) THEN persist[r] ELSE {}]
    /\ UNCHANGED <<info, converting, account, storeGone, life, request, lock, worker, left>>

\* ... asks each for a commit ...
ExitAsks(r) ==
    /\ exit = "asking" /\ r \in exitTodo
    /\ exitTodo' = exitTodo \ {r}
    /\ QueueAtOnce(r)
    /\ UNCHANGED <<info, converting, account, storeGone, life, asking, counting, lock, worker, exit,
                   owed, left>>

\* ... and waits until none is outstanding, or too long.
ExitWaits(how) ==
    /\ exit = "asking" /\ exitTodo = {}
    /\ how = IF cmtPending = 0 THEN "done" ELSE "late"
    /\ exit' = how
    /\ UNCHANGED <<info, converting, account, storeGone, life, request, lock, worker, exitTodo,
                   owed, left>>

-----------------------------------------------------------------------------

Stage(r, i) ==
    \/ StageStored(r, i) \/ StageDirect(r, i) \/ StageCached(r, i) \/ StageTransient(r, i)
    \/ \E cached \in BOOLEAN : StagePending(r, i, cached)

Work(w) ==
    \/ Take(w) \/ TryLock(w) \/ Flag(w) \/ TryAgain(w) \/ Collect(w) \/ Drop(w) \/ Landed(w)
    \/ \E theirs \in SUBSET recs[w] : StoreCommits(w, theirs)
    \/ \E isGone \in BOOLEAN : StoreRefuses(w, isGone)
    \/ Unlock(w) \/ Round(w)

Next ==
    \/ Attach
    \/ \E r \in Runs :
          \/ Detach(r) \/ QueueCommit(r) \/ PostCommit(r) \/ Destroy(r) \/ ExitAsks(r)
          \/ \E i \in Slots :
                Claim(r, i) \/ Abandon(r, i) \/ Stage(r, i) \/ Apply(r, i) \/ Forget(r, i)
    \/ \E w \in Workers : Work(w)
    \/ ExitBegin
    \/ \E how \in {"done", "late"} : ExitWaits(how)

Spec == Init /\ [][Next]_vars

\* Threads that asked for a commit go on, and the pool runs its jobs.
Fairness ==
    /\ \A r \in Runs : WF_vars(QueueCommit(r)) /\ WF_vars(PostCommit(r))
    /\ \A w \in Workers : WF_vars(Work(w))

FairSpec == Spec /\ Fairness

-----------------------------------------------------------------------------
(* Properties.                                                             *)

\* A slot the process says is ready can be served: its record is in the store,
\* in memory, or it is a basket the byte cache serves (ColdRun.cc:187).  Staging
\* past the caps, collecting, a refused commit and a late landing keep it so.
ReadyIsHeld ==
    \A r \in Runs, i \in Slots :
        state[r][i] = "ready" => i \in inStore[r] \cup mem[r] \cup Kept

\* The counters that hold memory down say what is held (ColdRun.cc:1672, 1677):
\* the totals are the sums over the runs, a run's transient bytes are its
\* transient records and never more than its budget, and no record waits
\* for a commit uncounted.
HeldIsCounted ==
    /\ pendingTotal = SumFunction(pendingBytes)
    /\ transientTotal = SumFunction(transientBytes)
    /\ \A r \in Runs :
          /\ transient[r] \subseteq mem[r] \cap Range(oldest[r])
          /\ transientBytes[r] = Cardinality(transient[r]) /\ transientBytes[r] <= TransientBytes
          /\ Cardinality(persist[r] \cap mem[r]) <= pendingBytes[r]

\* "At exit: every record still in memory is committed, with a bounded wait"
\* (ColdRun.cc:2090).  When the wait ends because nothing is outstanding, no
\* record of a registered run, or of one whose commit was outstanding, that
\* waited when the exit began still does, unless another thread is inside
\* queueCommit at that moment.
ExitDrains ==
    exit = "done" =>
        \A r \in Runs : asking[r] + counting[r] = 0 => owed[r] = {}

\* A commit asked for while one runs is not lost (ColdRun.cc:1904): once the
\* file's last handle is closed everything that waits is collected, whatever
\* is staged late.
CommitsDrain ==
    \A r \in Runs :
        handles[r] = 0 /\ pending[r] # {} ~> pending[r] = {} \/ ~Alive
=============================================================================
