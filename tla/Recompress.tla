----------------------------- MODULE Recompress -----------------------------
(***************************************************************************)
(* `ucache recompress` (cmdRecompress): a sweep that gives every cached    *)
(* file a replica, run by several worker threads, beside other sweeps,     *)
(* `ucache materialize`, jobs that convert the same files on their first   *)
(* pass, evictions and other writers of the volume.                        *)
(*                                                                         *)
(* A worker's accesses to what others share (the ledger of promised bytes, *)
(* the free space, a file's forms on disk) are separate steps; what it     *)
(* counts and the release of its promise happen with the step that decides *)
(* them.  A file is the state of its byte copy, its replica and its slot   *)
(* store; building an overlay is its outcome.                              *)
(***************************************************************************)
EXTENDS Integers, FiniteSets, FiniteSetsExt, Functions

CONSTANTS
    Files,       \* 1 .. N, in the order listEntries gives them
    Passes,      \* the processes that run `ucache recompress`
    Workers,     \* their threads
    PassOf,      \* the pass of each worker
    Casts,       \* the scenarios: see Init
    Est,         \* estimatedReplicaBytes, an upper bound on a replica
    Copy,        \* the bytes of a file's byte copy
    None         \* no pass; no file

VARIABLES
    file,        \* file[f]: key, whether it parses; codec, whether the policy
                 \* lists it; copy, what is left of the byte copy ("gone"
                 \* without the entry, "none", "part", "full"); replica;
                 \* store, whether a slot store serves it
    room,        \* free bytes above the eviction floor
    lockBy,      \* the pass that holds recompress.drain.lock
    queue,       \* an older uCache's queue files are still there
    pass,        \* what each pass does
    locked,      \* the pass holds its lock (lockFd >= 0)
    work,        \* files still to be taken by the workers of the pass
    reclaim,     \* replicated files whose byte copy the pass still has to free
    listed,      \* how many files the pass listed
    count,       \* count[p][bucket]: the summary line
    inFlight,    \* bytes the pass has promised and not released
    thread,      \* what each worker does
    at,          \* the file a worker is at
    seen,        \* the byte copy its sidecar showed
    promised,    \* what it read of the ledger
    claim,       \* its InFlightClaim
    built,       \* replicas passes published per file since it last had none
    left         \* what the surroundings may still do: see Init

space  == <<file, room>>
passes == <<pass, locked, work, reclaim, listed>>
mine   == <<thread, at, seen, promised, claim>>
vars   == <<space, lockBy, queue, passes, count, inFlight, mine, built, left>>

Buckets == {"done", "skipped", "failed", "incomplete", "declined", "already", "deferred"}
Counted(p) == SumFunction(count[p])
Headroom == IF room > 0 THEN room ELSE 0
HasForm(f) == file[f].replica \/ file[f].store
Spend(k) == left[k] > 0 /\ left' = [left EXCEPT ![k] = @ - 1]

-----------------------------------------------------------------------------
(* The pass lock: taken, waited for, or not to be had at all, in which     *)
(* case the pass goes on without it.                                       *)
Free(p) == lockBy = None
Lock(p) ==
    /\ pass[p] = "start" /\ Free(p)
    /\ lockBy' = p
    /\ locked' = [locked EXCEPT ![p] = TRUE]
    /\ queue' = FALSE                       \* under the lock only
    /\ pass' = [pass EXCEPT ![p] = "list"]
    /\ UNCHANGED <<space, work, reclaim, listed, count, inFlight, mine, built, left>>

CannotLock(p) ==
    /\ pass[p] = "start"
    /\ Spend("nolock")
    /\ pass' = [pass EXCEPT ![p] = "list"]
    /\ UNCHANGED <<space, lockBy, queue, locked, work, reclaim, listed, count, inFlight, mine, built>>

(* listEntries: a file with a replica or a slot store, or with nothing     *)
(* cached, is counted at once; under `reclaim = full` the byte copy of the *)
(* former may still be freed.                                              *)
ListEntries(p) ==
    /\ pass[p] = "list"
    /\ LET entries == {f \in Files : file[f].copy # "gone"}
           with == {f \in entries : HasForm(f)}
           bare == {f \in entries : ~HasForm(f) /\ file[f].copy = "none"} IN
       /\ work' = [work EXCEPT ![p] = entries \ (with \cup bare)]
       /\ reclaim' = [reclaim EXCEPT ![p] =
                         IF left.full THEN {f \in with : file[f].copy # "none"} ELSE {}]
       /\ listed' = [listed EXCEPT ![p] = Cardinality(entries)]
       /\ count' = [count EXCEPT ![p].already = Cardinality(with),
                                 ![p].skipped = Cardinality(bare)]
    /\ pass' = [pass EXCEPT ![p] = "sweep"]
    /\ UNCHANGED <<space, lockBy, queue, locked, inFlight, mine, built, left>>

-----------------------------------------------------------------------------
(* The end of an iteration: the file is in one bucket and the claim is     *)
(* released, whichever way the body was left.                              *)
Release(w) ==
    /\ inFlight' = [inFlight EXCEPT ![PassOf[w]] = @ - claim[w]]
    /\ claim' = [claim EXCEPT ![w] = 0]
Counts(w, b) == count' = [count EXCEPT ![PassOf[w]][b] = @ + 1]
Ends(w, b) ==
    /\ Counts(w, b)
    /\ Release(w)
    /\ thread' = [thread EXCEPT ![w] = "next"]
    /\ at' = [at EXCEPT ![w] = None]
    /\ UNCHANGED <<seen, promised>>
Goes(w, l) == thread' = [thread EXCEPT ![w] = l]
KeepsOn(w) == UNCHANGED <<count, inFlight, at, claim>>

TakeNext(w) ==
    /\ thread[w] = "next" /\ pass[PassOf[w]] = "sweep"
    /\ LET p == PassOf[w] IN
       \/ /\ work[p] # {}
          /\ at' = [at EXCEPT ![w] = Min(work[p])]
          /\ work' = [work EXCEPT ![p] = @ \ {Min(work[p])}]
          /\ Goes(w, "look")
       \/ work[p] = {} /\ Goes(w, "out") /\ UNCHANGED <<at, work>>
    /\ UNCHANGED <<space, lockBy, queue, pass, locked, reclaim, listed, count, inFlight,
                   seen, promised, claim, built, left>>

(* Before anything is promised: a key that does not parse, a form that is  *)
(* there already, a sidecar that is gone.                                  *)
Look(w) ==
    /\ thread[w] = "look"
    /\ LET f == at[w] IN
       \/ ~file[f].key /\ Ends(w, "failed")
       \/ file[f].key /\ HasForm(f) /\ Ends(w, "already")
       \/ file[f].key /\ ~HasForm(f) /\ file[f].copy = "gone" /\ Ends(w, "failed")
       \/ /\ file[f].key /\ ~HasForm(f) /\ file[f].copy # "gone"
          /\ seen' = [seen EXCEPT ![w] = file[f].copy]
          /\ promised' = [promised EXCEPT ![w] = inFlight[PassOf[w]]]
          /\ Goes(w, IF left.floor THEN "measure" ELSE "build")
          /\ KeepsOn(w)
    /\ UNCHANGED <<space, lockBy, queue, passes, built, left>>

(* The claim: live headroom, then a compare-and-swap of the ledger.        *)
Measure(w) ==
    /\ thread[w] = "measure"
    /\ \/ Est + promised[w] > Headroom /\ Ends(w, "deferred")
       \/ Est + promised[w] <= Headroom /\ Goes(w, "swap") /\ KeepsOn(w) /\ UNCHANGED <<seen, promised>>
    /\ UNCHANGED <<space, lockBy, queue, passes, built, left>>

Swap(w) ==
    /\ thread[w] = "swap"
    /\ LET p == PassOf[w] IN
       IF inFlight[p] = promised[w]
       THEN /\ inFlight' = [inFlight EXCEPT ![p] = @ + Est]
            /\ claim' = [claim EXCEPT ![w] = Est]
            /\ Goes(w, "build") /\ UNCHANGED promised
       ELSE /\ promised' = [promised EXCEPT ![w] = inFlight[p]]
            /\ Goes(w, "measure") /\ UNCHANGED <<inFlight, claim>>
    /\ UNCHANGED <<space, lockBy, queue, passes, count, at, seen, built, left>>

-----------------------------------------------------------------------------
(* Parse and build.  Bytes released since the sidecar was read surface as  *)
(* an unreadable image or a failed checksum; the forms and the sidecar as  *)
(* they are now tell a conversion, a release and rot apart.                *)
Released(w) == file[at[w]].copy # seen[w]
Unreadable(w) == Ends(w, IF seen[w] = "full" THEN "failed" ELSE "incomplete")
Unbuilt(w) ==
    Ends(w, IF file[at[w]].store THEN "already"
            ELSE IF Released(w) THEN "incomplete" ELSE "failed")

Build(w) ==
    /\ thread[w] = "build"
    /\ LET f == at[w] IN
       \/ Released(w) /\ Unreadable(w) /\ UNCHANGED left
       \/ Released(w) /\ Unbuilt(w) /\ UNCHANGED left
       \/ ~Released(w) /\ Spend("rot") /\ Unbuilt(w)
       \/ ~Released(w) /\ seen[w] # "full" /\ Ends(w, "incomplete") /\ UNCHANGED left
       \/ ~Released(w) /\ seen[w] # "full" /\ Ends(w, "skipped") /\ UNCHANGED left
       \/ ~Released(w) /\ ~file[f].codec /\ Ends(w, "declined") /\ UNCHANGED left
       \/ /\ ~Released(w) /\ file[f].codec /\ seen[w] # "none"
          /\ Goes(w, "publish") /\ KeepsOn(w) /\ UNCHANGED <<seen, promised, left>>
    /\ UNCHANGED <<space, lockBy, queue, passes, built>>

(* publishOverlay.  -EEXIST is a slot store that appeared meanwhile; any   *)
(* other error of publish counts as failed.                                *)
Publish(w) ==
    /\ thread[w] = "publish"
    /\ LET f == at[w] IN
       \/ /\ file[f].store /\ Ends(w, "already")
          /\ UNCHANGED <<space, built, left>>
       \/ /\ ~file[f].store /\ Spend("fault") /\ Ends(w, "failed")
          /\ UNCHANGED <<space, built>>
       \/ /\ ~file[f].store
          /\ file' = [file EXCEPT ![f].replica = TRUE]
          /\ room' = IF file[f].replica THEN room ELSE room - Est
          /\ built' = [built EXCEPT ![f] = @ + 1]
          /\ Goes(w, "view") /\ KeepsOn(w) /\ UNCHANGED <<seen, promised, left>>
    /\ UNCHANGED <<lockBy, queue, passes>>

(* The adoption check, and only then the punch: all of the byte copy under *)
(* `reclaim = full`, the relocated ranges otherwise.  The entry opened for *)
(* it is made anew when it was evicted.                                    *)
Punched(c) == IF c \in {"gone", "none"} \/ left.full THEN "none" ELSE "part"
Freed(c)   == IF c = "full" /\ left.full THEN Copy ELSE 0
View(w) ==
    /\ thread[w] = "view"
    /\ LET f == at[w] IN
       \/ /\ ~file[f].replica /\ Ends(w, "failed")
          /\ UNCHANGED space
       \/ /\ file[f].replica /\ Ends(w, "done")
          /\ file' = [file EXCEPT ![f].copy = Punched(@)]
          /\ room' = room + Freed(file[f].copy)
    /\ UNCHANGED <<lockBy, queue, passes, built, left>>

(* guardedWorker: an exception ends the worker, counted, not the pass.     *)
Abort(w) ==
    /\ thread[w] \notin {"next", "out"}
    /\ Spend("throw")
    /\ Counts(w, "failed") /\ Release(w)
    /\ Goes(w, "out")
    /\ UNCHANGED <<space, lockBy, queue, passes, at, seen, promised, built>>

-----------------------------------------------------------------------------
(* After the join: the byte copies of files replicated by earlier passes,  *)
(* each under a view that validates.                                       *)
Joined(p) == pass[p] = "sweep" /\ \A w \in Workers : PassOf[w] = p => thread[w] = "out"

Reclaim(p) ==
    /\ Joined(p) /\ reclaim[p] # {}
    /\ LET f == Min(reclaim[p]) IN
       /\ reclaim' = [reclaim EXCEPT ![p] = @ \ {f}]
       /\ IF file[f].key /\ file[f].copy # "gone" /\ file[f].replica
          THEN /\ file' = [file EXCEPT ![f].copy = Punched(@)]
               /\ room' = room + Freed(file[f].copy)
          ELSE UNCHANGED space
    /\ UNCHANGED <<lockBy, queue, pass, locked, work, listed, count, inFlight, mine, built, left>>

Finish(p) ==
    /\ Joined(p) /\ reclaim[p] = {}
    /\ pass' = [pass EXCEPT ![p] = "done"]
    /\ lockBy' = IF lockBy = p THEN None ELSE lockBy
    /\ UNCHANGED <<space, queue, locked, work, reclaim, listed, count, inFlight, mine, built, left>>

-----------------------------------------------------------------------------
(* The surroundings.  cmdMaterialize publishes a replica without the pass  *)
(* lock or the budget, checks it, and punches when asked to.               *)
Materialize(f) ==
    /\ file[f].key /\ file[f].copy \in {"part", "full"} /\ ~file[f].store
    /\ Spend("materialize")
    /\ \E punch \in BOOLEAN :
          file' = [file EXCEPT ![f].replica = TRUE, ![f].copy = IF punch THEN "part" ELSE @]
    /\ room' = IF file[f].replica THEN room ELSE room - Est
    /\ UNCHANGED <<lockBy, queue, passes, count, inFlight, mine, built>>

(* A job's first pass converts the file into a slot store and releases the *)
(* pages it converted.                                                     *)
Convert(f) ==
    /\ file[f].copy # "gone" /\ ~HasForm(f)
    /\ Spend("convert")
    /\ file' = [file EXCEPT ![f].store = TRUE, ![f].copy = "part"]
    /\ UNCHANGED <<room, lockBy, queue, passes, count, inFlight, mine, built>>

(* `ucache rm` or an eviction: the entry and every form of it.             *)
Evict(f) ==
    /\ file[f].copy # "gone"
    /\ Spend("evict")
    /\ file' = [file EXCEPT ![f].copy = "gone", ![f].replica = FALSE, ![f].store = FALSE]
    /\ built' = [built EXCEPT ![f] = 0]
    /\ room' = room + (IF file[f].copy = "full" THEN Copy ELSE 0) + IF file[f].replica THEN Est ELSE 0
    /\ UNCHANGED <<lockBy, queue, passes, count, inFlight, mine>>

Fill ==
    /\ Spend("fill")
    /\ room' = room - 1
    /\ UNCHANGED <<file, lockBy, queue, passes, count, inFlight, mine, built>>

-----------------------------------------------------------------------------
Init ==
    /\ \E c \in Casts :
          /\ file = c.file /\ room = c.room /\ left = c.left
          /\ pass = [p \in Passes |-> IF p \in c.passes THEN "start" ELSE "done"]
    /\ lockBy = None /\ queue = TRUE
    /\ locked = [p \in Passes |-> FALSE]
    /\ work = [p \in Passes |-> {}] /\ reclaim = [p \in Passes |-> {}]
    /\ listed = [p \in Passes |-> 0]
    /\ count = [p \in Passes |-> [b \in Buckets |-> 0]]
    /\ inFlight = [p \in Passes |-> 0]
    /\ thread = [w \in Workers |-> "next"] /\ at = [w \in Workers |-> None]
    /\ seen = [w \in Workers |-> "none"]
    /\ promised = [w \in Workers |-> 0] /\ claim = [w \in Workers |-> 0]
    /\ built = [f \in Files |-> 0]

Next ==
    \/ \E p \in Passes : Lock(p) \/ CannotLock(p) \/ ListEntries(p) \/ Reclaim(p) \/ Finish(p)
    \/ \E w \in Workers :
          \/ TakeNext(w) \/ Look(w) \/ Measure(w) \/ Swap(w)
          \/ Build(w) \/ Publish(w) \/ View(w) \/ Abort(w)
    \/ \E f \in Files : Materialize(f) \/ Convert(f) \/ Evict(f)
    \/ Fill

Spec == Init /\ [][Next]_vars

-----------------------------------------------------------------------------
Busy(p) == {w \in Workers : PassOf[w] = p /\ at[w] # None}

(* The summary line is about every file exactly once, whatever converts,   *)
(* evicts or replicates them while the pass runs: each listed file is      *)
(* waiting, in a worker's hands or in one bucket (cmdRecompress).  A       *)
(* worker that died keeps its file and has counted it as failed.           *)
CountedOnce ==
    \A p \in Passes : LET dead == {w \in Busy(p) : thread[w] = "out"} IN
        Counted(p) + Cardinality(work[p]) + Cardinality(Busy(p) \ dead) = listed[p]

(* The ledger of promised bytes is what the running builds promised, and a *)
(* finished pass promises nothing: no way out of an iteration leaks its    *)
(* claim (InFlightClaim), or a pass over content it declines would talk    *)
(* itself into "no space".                                                 *)
ClaimsReturned ==
    \A p \in Passes : inFlight[p] = MapThenSumSet(LAMBDA w : claim[w], Busy(p))

(* Passes that hold the pass lock never build the same file twice, unless  *)
(* its replica was removed in between: the lock is there to stop two       *)
(* passes wasting effort on the same files (cmdRecompress).                *)
BuiltOnce ==
    (\A p \in Passes : locked[p] \/ listed[p] = 0) =>
        \A f \in Files : built[f] <= 1
=============================================================================
