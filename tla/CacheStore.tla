----------------------------- MODULE CacheStore -----------------------------
(***************************************************************************)
(* The cache root shared by the processes of a user: every process has a   *)
(* registry of the entries it holds open and a budget it enforces with     *)
(* eviction passes; the command line cleans, removes and pins.             *)
(*                                                                         *)
(* Keys are the cached objects.  An entry on disk is its .data file, its   *)
(* .meta sidecar (bytes cached, last access, pin) and its replica files    *)
(* (.tdata, .slots and their markers, taken as one file of one byte).      *)
(* Bytes are counted in the unit of one write.  Times are kept as ages     *)
(* that stop growing at MaxAge, so the clock runs for ever in a finite     *)
(* model.  Pages, generations and the commit of a sidecar are FileEntry's. *)
(***************************************************************************)
EXTENDS Integers, FiniteSetsExt

CONSTANTS
    Keys,       \* objects that can be cached
    Procs,      \* processes
    Threads,    \* threads that call into a store
    Tools,      \* those of them that run a command of the command line
    ProcOf,     \* the process of each thread
    Casts,      \* bound: the sets of threads at work together in one behaviour
    Objects,    \* FileEntry objects in memory
    Config,     \* each process's [high, low, minFree, resume, protect, check]
    Cleanups,   \* what the command line is asked to clean: [mode, arg, keep]
    DiskSize,   \* bytes the disk holds
    None,       \* no object, no sidecar, no replica, no lock holder
    MaxAge,     \* bound: ages are not told apart beyond it
    MaxWrites,  \* bound: writes of a page or of a slot record
    MaxMarks    \* bound: reads, commands, failed opens and processes that die

ASSUME StoreAssumption ==
    /\ Tools \subseteq Threads /\ ProcOf \in [Threads -> Procs]
    /\ DiskSize \in Nat /\ MaxAge \in Nat
    /\ \A p \in Procs : Config[p].low <= Config[p].high /\ Config[p].minFree <= Config[p].resume

VARIABLES
    data,       \* per key: the .data file exists
    meta,       \* per key: the sidecar, [bytes, age, pin]
    repl,       \* per key: the replica files exist, and are 0: new, 1: over an hour old
    lock,       \* the thread that holds <cache>/LOCK
    object,     \* per object: [proc, key, linked, bytes] while it is in memory
    registry,   \* per process and key: the object registered
    approx,     \* per process: approxUsage_
    since,      \* per process: the age of lastEvictCheckS_, up to its rate limit
    progress,   \* per process: lastEvictEvicted_ is not 0
    blocked,    \* per process: admissionBlocked_
    pc, key, obj, ret,   \* per thread: its place, key, object, and where a check returns to
    pass,       \* the locals of the pass that holds the lock
    spared,     \* history: keys pinned, or held by the pass's process, since it began
    excused,    \* history: keys pinned, or without .data, at some time since it began
    writes, marks

diskVars == <<data, meta, repl>>
procVars == <<registry, approx, since, progress, blocked>>
thrVars == <<pc, key, obj, ret>>
bounds == <<writes, marks>>
vars == <<diskVars, lock, object, procVars, thrVars, pass, spared, excused, bounds>>

Sidecar == [bytes : Nat, age : 0..MaxAge, pin : BOOLEAN]

\* A pass: what it was asked to do, the keys open in its process, what its scan
\* found, the keys it has not looked at, its running totals and its victim.
NoPass == [kind |-> [mode |-> "none", arg |-> 0, keep |-> TRUE], live |-> {}, scan |-> <<>>,
           left |-> {}, usage |-> 0, avail |-> 0, saw |-> FALSE, gone |-> {}, victim |-> None]

\* The processes start on a cache that holds some entries, not read for long.
Init ==
    /\ \E S \in SUBSET Keys :
          /\ data = [k \in Keys |-> k \in S]
          /\ meta = [k \in Keys |-> IF k \in S THEN [bytes |-> 1, age |-> MaxAge, pin |-> FALSE]
                                    ELSE None]
          /\ approx = [p \in Procs |-> IF Config[p].high > 0 THEN Cardinality(S) ELSE 0]
    /\ repl = [k \in Keys |-> None]
    /\ lock = None
    /\ object = [o \in Objects |-> None]
    /\ registry = [p \in Procs |-> [k \in Keys |-> None]]
    /\ since = [p \in Procs |-> Config[p].check]
    /\ progress = [p \in Procs |-> TRUE] /\ blocked = [p \in Procs |-> FALSE]
    /\ \E cast \in Casts : pc = [t \in Threads |-> IF t \in cast THEN "idle" ELSE "away"]
    /\ key = [t \in Threads |-> None]
    /\ obj = [t \in Threads |-> None] /\ ret = [t \in Threads |-> "idle"]
    /\ pass = NoPass /\ spared = {} /\ excused = {}
    /\ writes = 0 /\ marks = 0

-----------------------------------------------------------------------------
(* Helpers                                                                 *)

Total(size(_)) == MapThenSumSet(size, Keys)

\* scanShard: the bytes a listing finds for a key.  Only sidecars are listed.
Size(k) == IF meta[k] = None THEN 0
           ELSE meta[k].bytes + (IF repl[k] = None THEN 0 ELSE 1)
Usage == Total(Size)

\* statvfs: blocks of linked files, whether or not a sidecar names them.
Avail == LET blocks(k) == (IF data[k] /\ meta[k] # None THEN meta[k].bytes ELSE 0)
                             + (IF repl[k] = None THEN 0 ELSE 1)
         IN  DiskSize - Total(blocks)

Goto(t, l) == pc' = [pc EXCEPT ![t] = l]
Check(t, l) == Goto(t, "check") /\ ret' = [ret EXCEPT ![t] = l]
Return(t) == Goto(t, ret[t]) /\ ret' = [ret EXCEPT ![t] = "idle"]
Leave(t) == Goto(t, "idle") /\ key' = [key EXCEPT ![t] = None]
Mark == marks < MaxMarks /\ marks' = marks + 1
Write == writes < MaxWrites /\ writes' = writes + 1

Holders(o) == {t \in Threads : obj[t] = o}
Unlinked(k) == [o \in Objects |-> IF object[o] # None /\ object[o].key = k
                                  THEN [object[o] EXCEPT !.linked = FALSE] ELSE object[o]]

\* A weak pointer whose object died is the same as none.
Expire(o) == [p \in Procs |-> [k \in Keys |-> IF registry[p][k] = o THEN None
                                              ELSE registry[p][k]]]

\* notePersisted: the estimate counts only under a byte cap.
NotePersisted(p) == approx' = [approx EXCEPT ![p] = IF Config[p].high > 0 THEN @ + 1 ELSE @]

\* The keys the running pass must leave alone: pinned ones, unless it was asked
\* to take them too, and those its process holds open.
Kept == {k \in Keys : \/ pass.kind.keep /\ meta[k] # None /\ meta[k].pin
                      \/ registry[ProcOf[lock]][k] # None}

Excuse == {k \in Keys : ~data[k] \/ (meta[k] # None /\ meta[k].pin)}

History ==
    /\ spared' = IF lock' = None THEN {}
                 ELSE Kept' \cap (IF lock = lock' THEN spared ELSE Keys)
    /\ excused' = IF lock' = None THEN {}
                  ELSE Excuse' \cup (IF lock = lock' THEN excused ELSE {})

-----------------------------------------------------------------------------
(* open: look in the registry, refresh the verdict on a new key, decline   *)
(* or open, and register, keeping the first of two racing opens.           *)

Open(t, k) ==
    LET live == registry[ProcOf[t]][k] IN
    /\ pc[t] = "idle" /\ t \notin Tools
    /\ key' = [key EXCEPT ![t] = k] /\ obj' = [obj EXCEPT ![t] = live]
    /\ \/ live # None /\ Goto(t, "open") /\ UNCHANGED ret
       \/ live = None /\ meta[k] # None /\ Goto(t, "admit") /\ UNCHANGED ret
       \/ live = None /\ meta[k] = None /\ Check(t, "admit")
    /\ UNCHANGED <<diskVars, lock, object, procVars, pass, bounds>>
    /\ History

Declined(t) == blocked[ProcOf[t]] /\ meta[key[t]] = None

Decline(t) ==
    /\ pc[t] = "admit" /\ Declined(t)
    /\ Leave(t)
    /\ UNCHANGED <<diskVars, lock, object, procVars, obj, ret, pass, bounds>>
    /\ History

\* FileEntry::open fails: the handle goes on without the cache.
OpenFails(t) ==
    /\ pc[t] = "admit" /\ ~Declined(t) /\ Mark
    /\ Leave(t)
    /\ UNCHANGED <<diskVars, lock, object, procVars, obj, ret, pass, writes>>
    /\ History

\* FileEntry::open creates .data and a fresh sidecar, or adopts the one it finds.
Create(t) ==
    /\ pc[t] = "admit" /\ ~Declined(t)
    /\ data' = [data EXCEPT ![key[t]] = TRUE]
    /\ meta' = [meta EXCEPT ![key[t]] = IF @ = None THEN [bytes |-> 0, age |-> 0, pin |-> FALSE]
                                        ELSE @]
    /\ \E o \in Objects :
          /\ object[o] = None
          /\ object' = [object EXCEPT ![o] = [proc |-> ProcOf[t], key |-> key[t], linked |-> TRUE,
                                              bytes |-> meta'[key[t]].bytes]]
          /\ obj' = [obj EXCEPT ![t] = o]
    /\ Goto(t, "register")
    /\ UNCHANGED <<repl, lock, procVars, key, ret, pass, bounds>>
    /\ History

\* Mutant: the last of two racing opens wins.
RegisterLast(t) ==
    /\ pc[t] = "register"
    /\ registry' = [registry EXCEPT ![ProcOf[t]][key[t]] = obj[t]]
    /\ Check(t, "open")
    /\ UNCHANGED <<diskVars, lock, object, approx, since, progress, blocked, key, obj, pass,
                   bounds>>
    /\ History

Register(t) ==
    LET p == ProcOf[t] live == registry[p][key[t]] IN
    /\ pc[t] = "register"
    /\ \/ /\ live # None
          /\ object' = [object EXCEPT ![obj[t]] = None]
          /\ obj' = [obj EXCEPT ![t] = live]
          /\ Goto(t, "open")
          /\ UNCHANGED <<registry, ret>>
       \/ /\ live = None
          /\ registry' = [registry EXCEPT ![p][key[t]] = obj[t]]
          /\ Check(t, "open")
          /\ UNCHANGED <<object, obj>>
    /\ UNCHANGED <<diskVars, lock, approx, since, progress, blocked, key, pass, bounds>>
    /\ History

-----------------------------------------------------------------------------
(* A handle that holds its entry open                                      *)

\* A page is written and its sidecar stored, unless the entry was unlinked.
Persist(t) ==
    LET o == obj[t] k == key[t]
        was == IF meta[k] = None THEN [bytes |-> object[o].bytes, age |-> 0, pin |-> FALSE]
               ELSE meta[k]
    IN
    /\ pc[t] = "open" /\ Write
    /\ \/ /\ object[o].linked
          /\ meta' = [meta EXCEPT ![k] = [was EXCEPT !.bytes = @ + 1, !.age = 0]]
          /\ object' = [object EXCEPT ![o].bytes = was.bytes + 1]
       \/ /\ ~object[o].linked
          /\ UNCHANGED <<meta, object>>
    /\ NotePersisted(ProcOf[t])
    /\ Check(t, "open")
    /\ UNCHANGED <<data, repl, lock, registry, since, progress, blocked, key, obj, pass,
                   marks>>
    /\ History

\* A slot store's records, written beside the entry (noteStoredBytes).
StoreSlots(t) ==
    /\ pc[t] = "open" /\ Write
    /\ repl[key[t]] = None
    /\ repl' = [repl EXCEPT ![key[t]] = 0]
    /\ NotePersisted(ProcOf[t])
    /\ Check(t, "open")
    /\ UNCHANGED <<data, meta, lock, object, registry, since, progress, blocked, key, obj,
                   pass, marks>>
    /\ History

Touch(t) ==
    /\ pc[t] = "open" /\ Mark
    /\ object[obj[t]].linked /\ meta[key[t]] # None
    /\ meta' = [meta EXCEPT ![key[t]].age = 0]
    /\ UNCHANGED <<data, repl, lock, object, procVars, thrVars, pass, writes>>
    /\ History

Close(t) ==
    LET o == obj[t] last == Holders(o) = {t} IN
    /\ pc[t] = "open"
    /\ object' = IF last THEN [object EXCEPT ![o] = None] ELSE object
    /\ registry' = IF last THEN Expire(o) ELSE registry
    /\ obj' = [obj EXCEPT ![t] = None]
    /\ Leave(t)
    /\ UNCHANGED <<diskVars, lock, approx, since, progress, blocked, ret, pass, bounds>>
    /\ History

-----------------------------------------------------------------------------
(* maybeEvict: the byte cap is tested before the rate limit, and lifts it  *)
(* while passes make progress; the disk floor is tested behind it.         *)

Evict == [mode |-> "evict", arg |-> 0, keep |-> TRUE]

\* The pass takes <cache>/LOCK if nobody has it (LOCK_NB: it never waits), and
\* notes which keys its process holds open.
Lock(t, kind) ==
    /\ lock = None /\ lock' = t
    /\ pass' = [NoPass EXCEPT !.kind = kind,
                              !.live = {k \in Keys : registry[ProcOf[t]][k] # None}]
    /\ Goto(t, "scan")

Over(p) == Config[p].high > 0 /\ approx[p] > Config[p].high
LowDisk(p) == Config[p].minFree > 0 /\ Avail < Config[p].minFree
Limited(p) == ~(Over(p) /\ progress[p]) /\ since[p] < Config[p].check

MaybeEvict(t) ==
    LET p == ProcOf[t] IN
    /\ pc[t] = "check"
    /\ since' = IF Limited(p) THEN since ELSE [since EXCEPT ![p] = 0]
    /\ LET runs == ~Limited(p) /\ (Over(p) \/ LowDisk(p)) IN
          \/ (~runs \/ lock # None) /\ Return(t) /\ UNCHANGED <<lock, pass>>
          \/ runs /\ Lock(t, Evict) /\ UNCHANGED ret
    /\ UNCHANGED <<diskVars, object, registry, approx, progress, blocked, key, obj, bounds>>
    /\ History

Scanned == [k \in {j \in Keys : meta[j] # None} |->
              [age |-> meta[k].age, size |-> Size(k), pin |-> meta[k].pin, art |-> repl[k] # None]]

Scan(t) ==
    /\ pc[t] = "scan"
    /\ pass' = [pass EXCEPT !.scan = Scanned, !.left = DOMAIN Scanned, !.usage = Usage,
                            !.avail = Avail]
    /\ Goto(t, IF pass.kind = Evict THEN "pick" ELSE "select")
    /\ UNCHANGED <<diskVars, lock, object, procVars, key, obj, ret, bounds>>
    /\ History

NeedEvict(p) ==
    \/ Config[p].high > 0 /\ pass.usage > Config[p].low
    \/ Config[p].minFree > 0 /\ pass.avail < Config[p].resume

\* Read too recently to evict: the window is counted in ticks (0: no window).
Protected(p, k) == pass.scan[k].age < Config[p].protect

Oldest == {k \in pass.left : \A j \in pass.left : pass.scan[j].age <= pass.scan[k].age}

\* Mutant: open entries are not skipped.
SkippedPinned(k) == pass.scan[k].pin

Skipped(k) == pass.scan[k].pin \/ k \in pass.live

\* MetaFile::load finds a pin that landed after the scan.
PinnedNow(k) == meta[k] # None /\ meta[k].pin

\* Mutant: the loop ends at the first entry it must keep.
PickBreaks(t) ==
    /\ pc[t] = "pick" /\ pass.left # {} /\ NeedEvict(ProcOf[t])
    /\ \E k \in Oldest :
          LET keeps == Skipped(k) \/ Protected(ProcOf[t], k) \/ PinnedNow(k) IN
          \/ keeps /\ pass' = [pass EXCEPT !.left = {}] /\ UNCHANGED pc
          \/ ~keeps /\ pass' = [pass EXCEPT !.left = @ \ {k}, !.victim = k] /\ Goto(t, "unlinkData")
    /\ UNCHANGED <<diskVars, lock, object, procVars, key, obj, ret, bounds>>
    /\ History

\* One turn of evictNow's loop, up to the first unlink.
Pick(t) ==
    /\ pc[t] = "pick" /\ pass.left # {} /\ NeedEvict(ProcOf[t])
    /\ \E k \in Oldest :
          LET rest == [pass EXCEPT !.left = @ \ {k}]
              protected == ~Skipped(k) /\ Protected(ProcOf[t], k)
          IN
          \/ /\ Skipped(k) \/ protected \/ PinnedNow(k)
             /\ pass' = [rest EXCEPT !.saw = @ \/ protected]
             /\ UNCHANGED pc
          \/ /\ ~Skipped(k) /\ ~protected /\ ~PinnedNow(k)
             /\ pass' = [rest EXCEPT !.victim = k]
             /\ Goto(t, "unlinkData")
    /\ UNCHANGED <<diskVars, lock, object, procVars, key, obj, ret, bounds>>
    /\ History

Removing(t) == IF pass.kind = Evict THEN "pick" ELSE "remove"

\* .data first; a victim whose .data cannot be unlinked is left as it is.
UnlinkData(t) ==
    LET k == pass.victim IN
    /\ pc[t] = "unlinkData"
    /\ data' = [data EXCEPT ![k] = FALSE]
    /\ object' = Unlinked(k)
    /\ Goto(t, IF data[k] THEN "unlinkRest" ELSE Removing(t))
    /\ pass' = IF data[k] THEN pass ELSE [pass EXCEPT !.victim = None]
    /\ UNCHANGED <<meta, repl, lock, procVars, key, obj, ret, bounds>>
    /\ History

\* Then the sidecar and the artifacts the scan saw; the space is credited.
UnlinkRest(t) ==
    LET k == pass.victim s == pass.scan[k].size IN
    /\ pc[t] = "unlinkRest"
    /\ meta' = [meta EXCEPT ![k] = None]
    /\ repl' = IF pass.scan[k].art THEN [repl EXCEPT ![k] = None] ELSE repl
    /\ pass' = IF pass.kind = Evict
               THEN [pass EXCEPT !.usage = @ - Min({@, s}), !.avail = @ + s,
                                 !.gone = @ \cup {k}, !.victim = None]
               ELSE [pass EXCEPT !.victim = None]
    /\ Goto(t, Removing(t))
    /\ UNCHANGED <<data, lock, object, procVars, key, obj, ret, bounds>>
    /\ History

\* sweepReplicaOrphans: replica files without a sidecar, once they are old.
Swept == [k \in Keys |-> IF meta[k] = None /\ repl[k] = 1 THEN None ELSE repl[k]]

EvictDone(t) ==
    LET p == ProcOf[t] IN
    /\ pc[t] = "pick" /\ (pass.left = {} \/ ~NeedEvict(p))
    /\ repl' = Swept
    /\ blocked' = [blocked EXCEPT ![p] = NeedEvict(p) /\ pass.saw]
    /\ approx' = [approx EXCEPT ![p] = pass.usage]
    /\ progress' = [progress EXCEPT ![p] = pass.gone # {}]
    /\ lock' = None /\ pass' = NoPass
    /\ Return(t)
    /\ UNCHANGED <<data, meta, object, registry, since, key, obj, bounds>>
    /\ History

-----------------------------------------------------------------------------
(* The command line: evict and clean up, remove by key, pin by key         *)

Command(t) ==
    /\ pc[t] = "idle" /\ t \in Tools
    /\ Mark
    /\ \E kind \in Cleanups \cup {Evict} : Lock(t, kind)
    /\ UNCHANGED <<diskVars, object, procVars, key, obj, ret, writes>>
    /\ History

Spares(k) == \/ k \in pass.live
             \/ pass.kind.keep /\ (pass.scan[k].pin \/ PinnedNow(k))

\* Oldest first until the rest fits: V is what is taken before the total is at
\* or below the target.
FitsAfter(V, C) ==
    LET size(k) == pass.scan[k].size
        after(S) == pass.usage - MapThenSumSet(size, S)
    IN  /\ \A v \in V, c \in C \ V : pass.scan[c].age <= pass.scan[v].age
        /\ V = C \/ after(V) <= pass.kind.arg
        /\ V # {} => \E v \in V : /\ \A w \in V : pass.scan[v].age <= pass.scan[w].age
                                  /\ after(V \ {v}) > pass.kind.arg

Victims(V) ==
    LET C == {k \in pass.left : ~Spares(k)} IN
    CASE pass.kind.mode = "all" -> V = C
      [] pass.kind.mode = "olderThan" -> V = {k \in C : pass.scan[k].age > pass.kind.arg}
      [] pass.kind.mode = "newerThan" -> V = {k \in C : pass.scan[k].age <= pass.kind.arg}
      [] pass.kind.mode = "toSize" -> FitsAfter(V, C)

Select(t) ==
    /\ pc[t] = "select"
    /\ \E V \in SUBSET pass.left :
          /\ Victims(V)
          /\ pass' = [pass EXCEPT !.left = V, !.scan = [k \in V |-> @[k]], !.usage = 0,
                                  !.avail = 0]
    /\ Goto(t, "remove")
    /\ UNCHANGED <<diskVars, lock, object, procVars, key, obj, ret, bounds>>
    /\ History

\* A worker takes a victim and detaches it from its own process's registry.
Remove(t) ==
    /\ pc[t] = "remove"
    /\ \E k \in pass.left :
          /\ pass' = [pass EXCEPT !.left = @ \ {k}, !.victim = k]
          /\ registry' = [registry EXCEPT ![ProcOf[t]][k] = None]
    /\ Goto(t, "unlinkData")
    /\ UNCHANGED <<diskVars, lock, object, approx, since, progress, blocked, key, obj, ret,
                   bounds>>
    /\ History

CleanupDone(t) ==
    /\ pc[t] = "remove" /\ pass.left = {}
    /\ repl' = Swept
    /\ approx' = [approx EXCEPT ![ProcOf[t]] = Usage]
    /\ lock' = None /\ pass' = NoPass
    /\ Return(t)
    /\ UNCHANGED <<data, meta, object, registry, since, progress, blocked, key, obj, bounds>>
    /\ History

\* invalidate, on a write through the cache and for `rm`: detach, then unlink
\* without the cache's lock.
Invalidate(t, k) ==
    /\ pc[t] = "idle" /\ Mark
    /\ key' = [key EXCEPT ![t] = k]
    /\ registry' = [registry EXCEPT ![ProcOf[t]][k] = None]
    /\ Goto(t, "dropData")
    /\ UNCHANGED <<diskVars, lock, object, approx, since, progress, blocked, obj, ret, pass,
                   writes>>
    /\ History

DropData(t) ==
    /\ pc[t] = "dropData"
    /\ data' = [data EXCEPT ![key[t]] = FALSE]
    /\ object' = Unlinked(key[t])
    /\ Goto(t, "dropRest")
    /\ UNCHANGED <<meta, repl, lock, procVars, key, obj, ret, pass, bounds>>
    /\ History

DropRest(t) ==
    /\ pc[t] = "dropRest"
    /\ meta' = [meta EXCEPT ![key[t]] = None]
    /\ repl' = [repl EXCEPT ![key[t]] = None]
    /\ Leave(t)
    /\ UNCHANGED <<data, lock, object, procVars, obj, ret, pass, bounds>>
    /\ History

\* setPinnedByKey, through the live entry or under the entry's lock.
SetPinnedByKey(t, k, b) ==
    /\ pc[t] = "idle" /\ t \in Tools /\ Mark
    /\ data[k] /\ meta[k] # None
    /\ meta' = [meta EXCEPT ![k].pin = b]
    /\ UNCHANGED <<data, repl, lock, object, procVars, thrVars, pass, writes>>
    /\ History

-----------------------------------------------------------------------------
(* A process dies, and another one starts in its place: its constructor    *)
(* seeds the estimate with a scan.                                         *)

Crash(p) ==
    LET mine(t) == ProcOf[t] = p IN
    /\ Mark
    /\ pc' = [t \in Threads |-> IF mine(t) /\ pc[t] # "away" THEN "idle" ELSE pc[t]]
    /\ key' = [t \in Threads |-> IF mine(t) THEN None ELSE key[t]]
    /\ ret' = [t \in Threads |-> IF mine(t) THEN "idle" ELSE ret[t]]
    /\ obj' = [t \in Threads |-> IF mine(t) THEN None ELSE obj[t]]
    /\ object' = [o \in Objects |-> IF object[o] # None /\ object[o].proc = p THEN None
                                    ELSE object[o]]
    /\ registry' = [registry EXCEPT ![p] = [k \in Keys |-> None]]
    /\ approx' = [approx EXCEPT ![p] = IF Config[p].high > 0 THEN Usage ELSE 0]
    /\ since' = [since EXCEPT ![p] = Config[p].check]
    /\ progress' = [progress EXCEPT ![p] = TRUE]
    /\ blocked' = [blocked EXCEPT ![p] = FALSE]
    /\ LET dies == lock # None /\ mine(lock) IN
          /\ lock' = IF dies THEN None ELSE lock
          /\ pass' = IF dies THEN NoPass ELSE pass
    /\ UNCHANGED <<diskVars, writes>>
    /\ History

\* Time passes.
Older(a) == Min({a + 1, MaxAge})

Tick ==
    /\ meta' = [k \in Keys |-> IF meta[k] = None THEN None
                               ELSE [meta[k] EXCEPT !.age = Older(@)]]
    /\ repl' = [k \in Keys |-> IF repl[k] = None THEN None ELSE 1]
    /\ since' = [p \in Procs |-> Min({since[p] + 1, Config[p].check})]
    /\ UNCHANGED <<data, lock, object, registry, approx, progress, blocked, thrVars, pass,
                   bounds>>
    /\ History

-----------------------------------------------------------------------------
Opening(t) == \/ \E k \in Keys : Open(t, k)
              \/ Decline(t) \/ OpenFails(t)
              \/ Create(t) \/ Register(t)
Holding(t) == Persist(t) \/ StoreSlots(t) \/ Touch(t) \/ Close(t)
Evicting(t) == \/ MaybeEvict(t) \/ Scan(t) \/ Pick(t)
               \/ UnlinkData(t) \/ UnlinkRest(t) \/ EvictDone(t)
Commanding(t) == \/ Command(t) \/ Select(t) \/ Remove(t) \/ CleanupDone(t)
                 \/ \E k \in Keys : Invalidate(t, k) \/ \E b \in BOOLEAN : SetPinnedByKey(t, k, b)
                 \/ DropData(t) \/ DropRest(t)

Next == \/ \E t \in Threads : Opening(t) \/ Holding(t) \/ Evicting(t) \/ Commanding(t)
        \/ \E p \in Procs : Crash(p)
        \/ Tick

Spec == Init /\ [][Next]_vars

-----------------------------------------------------------------------------
(* Properties                                                              *)

Label == {"away", "idle", "admit", "register", "open", "check", "scan",
          "pick", "select", "remove", "unlinkData", "unlinkRest", "dropData",
          "dropRest"}

\* The type of every variable (the members of CacheStore and the files of an
\* entry); a registered object is in memory, and only the lock's holder is in
\* a pass.
TypeOK ==
    /\ data \in [Keys -> BOOLEAN]
    /\ \A k \in Keys : meta[k] = None \/ meta[k] \in Sidecar
    /\ repl \in [Keys -> {0, 1, None}]
    /\ lock \in Threads \cup {None}
    /\ \A o \in Objects : \/ object[o] = None
                          \/ object[o] \in [proc : Procs, key : Keys, linked : BOOLEAN, bytes : Nat]
    /\ \A p \in Procs, k \in Keys : registry[p][k] # None => object[registry[p][k]] # None
    /\ \A p \in Procs : approx[p] \in Nat /\ progress[p] \in BOOLEAN
    /\ (\A p \in Procs : since[p] \in 0..Config[p].check) /\ blocked \in [Procs -> BOOLEAN]
    /\ pc \in [Threads -> Label] /\ key \in [Threads -> Keys \cup {None}]
    /\ obj \in [Threads -> Objects \cup {None}] /\ ret \in [Threads -> {"idle", "admit", "open"}]
    /\ \A t \in Threads : pc[t] \in {"scan", "pick", "select", "remove", "unlinkData",
                                      "unlinkRest"} <=> lock = t
    /\ pass.usage \in Nat /\ pass.avail \in Nat
    /\ pass.left \cup pass.live \cup pass.gone \cup spared \cup excused \subseteq Keys
    /\ writes \in 0..MaxWrites /\ marks \in 0..MaxMarks

\* "One FileEntry per key per process" (CacheStore.h:4): handles of one process
\* that hold the entry now on disk share one object, whichever threads raced in
\* open() and whatever was evicted in between.  While the process invalidates the
\* key, between the detach and the unlink, an open makes a second one.
OneEntryPerKey ==
    \A t, u \in Threads :
        LET o == obj[t] q == obj[u] IN
        /\ o # None /\ q # None /\ pc[t] # "register" /\ pc[u] # "register"
        /\ object[o].proc = object[q].proc /\ object[o].key = object[q].key
        /\ object[o].linked /\ object[q].linked
        /\ \A v \in Threads : ~(pc[v] = "dropData" /\ key[v] = object[o].key)
        => o = q

\* "never evict pinned or currently-open entries" (CacheStore.cc:499): a pass
\* unlinks no entry that has been pinned, or held open by the pass's own process,
\* since before it looked.
SparedSurvive ==
    [][lock # None /\ pc[lock] = "unlinkData" /\ pc'[lock] # "unlinkData"
         => \A k \in spared : data[k] => data'[k]]_vars

\* needEvict (CacheStore.cc:472): a pass that ends above its target has removed
\* every entry that it may remove: what it leaves was pinned, open, too recently
\* read, or had lost its .data to somebody else.
PassReachesTarget ==
    lock # None /\ pc[lock] = "pick" /\ pass.left = {} /\ NeedEvict(ProcOf[lock])
      => \A k \in DOMAIN pass.scan \ pass.gone :
            k \in excused \/ k \in pass.live \/ Protected(ProcOf[lock], k)

\* admissionBlocked is "cleared there as soon as a victim becomes eligible again"
\* (CacheStore.h:86): once reads and writes have stopped, and so every entry ages
\* out of the protection window, a process that keeps asking for a new file is not
\* refused for ever.
AdmissionReopens == \A p \in Procs : blocked[p] ~> ~blocked[p]

\* The threads go on, time passes, and files are asked for again and again.
FairSpec ==
    /\ Spec
    /\ WF_vars(Tick)
    /\ \A t \in Threads :
          /\ WF_vars(Decline(t) \/ Create(t) \/ Register(t) \/ Close(t))
          /\ WF_vars(Evicting(t) \/ Select(t) \/ Remove(t) \/ CleanupDone(t))
          /\ WF_vars(DropData(t) \/ DropRest(t))
          /\ \A k \in Keys : SF_vars(Open(t, k))
=============================================================================
