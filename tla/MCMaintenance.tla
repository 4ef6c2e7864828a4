--------------------------- MODULE MCMaintenance ---------------------------
(* What keeps a cache in order, for TLC: the eviction passes of the        *)
(* processes that use it (CacheStore), the background recompression of its *)
(* entries (Recompress), the commands that publish results (Publishing)    *)
(* and those that load and change its settings (Settings).  They share the *)
(* cache's files but none of the state modelled, so a behaviour is one of  *)
(* one part, chosen by Init, and the others stand still.                   *)
EXTENDS CacheStore, TLC

CONSTANTS Parts,                            \* the parts in question
          a, b, c, a1, a2, b1, c1,          \* processes of a cache and their threads
          p1, p2, u1, u2, v1,               \* passes of recompress and their threads
          e1, e2,                           \* publishing commands
          q1, q2, q3, i1, i2, i3, i4, i5    \* settings commands; inodes

VARIABLES part,
          file, room, lockBy, queue, drain, left, listed, locked, work, count, inFlight,
          reclaim, thread, at, seen, promised, claim, built,
          cmd, state, homeOk, cacheOk, idFile, instFile, stored, owner, inst, attempt, item, rc,
          received, kept, confirmed, saved, losses, kills,
          line, step, cfg, kv, path, tmp, fd, text, code, overlap, crashes

-----------------------------------------------------------------------------
(* A process under a byte cap, one that keeps a free-disk floor, and the   *)
(* command line.                                                           *)

MCProcOf == [t \in Threads |-> CASE t \in {a1, a2} -> a [] t = b1 -> b [] OTHER -> c]

MCConfig ==
    [p \in Procs |->
        CASE p = a -> [high |-> 2, low |-> 1, minFree |-> 0, resume |-> 0, protect |-> 1, check |-> 1]
          [] p = b -> [high |-> 0, low |-> 0, minFree |-> 2, resume |-> 3, protect |-> 0, check |-> 1]
          [] OTHER -> [high |-> 2, low |-> 1, minFree |-> 0, resume |-> 0, protect |-> 0, check |-> 1]]

MCCleanups == {[mode |-> "all", arg |-> 0, keep |-> TRUE],
               [mode |-> "olderThan", arg |-> 1, keep |-> FALSE],
               [mode |-> "newerThan", arg |-> 0, keep |-> TRUE],
               [mode |-> "toSize", arg |-> 1, keep |-> TRUE]}

\* The threads of process a are alike.
Symmetric == Permutations(Keys) \cup Permutations(Objects) \cup Permutations({a1, a2})

-----------------------------------------------------------------------------
(* Two passes over three files; other users convert, evict and fill.       *)

RFiles == 1 .. 3
RPassOf == (u1 :> p1) @@ (u2 :> p1) @@ (v1 :> p2)

Form(y, r, s) == [key |-> TRUE, codec |-> TRUE, copy |-> y, replica |-> r, store |-> s]
Budget(over) == over @@
    [nolock |-> 0, rot |-> 0, fault |-> 0, throw |-> 0, materialize |-> 0, convert |-> 0,
     evict |-> 0, fill |-> 0, full |-> FALSE, floor |-> TRUE]

Bare == [f \in RFiles |-> Form("full", FALSE, FALSE)]
RCasts == {
    [file |-> Bare, room |-> 4, passes |-> {p1}, left |-> Budget([throw |-> 1])],
    [file |-> Bare, room |-> 3, passes |-> {p1, p2}, left |-> Budget([nolock |-> 1, fill |-> 1])],
    [file |-> [Bare EXCEPT ![1] = Form("part", FALSE, FALSE), ![2].codec = FALSE], room |-> 9,
     passes |-> {p1}, left |-> Budget([convert |-> 1, rot |-> 1, fault |-> 1])],
    [file |-> [Bare EXCEPT ![1] = Form("full", TRUE, FALSE), ![2].key = FALSE], room |-> 9,
     passes |-> {p1, p2}, left |-> Budget([full |-> TRUE, evict |-> 1, materialize |-> 1])],
    [file |-> [Bare EXCEPT ![1].copy = "none"], room |-> 2,
     passes |-> {p1, p2}, left |-> Budget([floor |-> FALSE, convert |-> 1, evict |-> 1])] }

R == INSTANCE Recompress WITH
        Files <- RFiles, Passes <- {p1, p2}, Workers <- {u1, u2, v1}, PassOf <- RPassOf,
        Casts <- RCasts, Est <- 2, Copy <- 1, pass <- drain

RVars == <<file, room, lockBy, queue, drain, left, listed, locked, work, count, inFlight,
           reclaim, thread, at, seen, promised, claim, built>>

-----------------------------------------------------------------------------
(* Two commands that publish, or look at the identity.                     *)

CommandLine(over) == over @@
    [kind |-> "publish", publish |-> TRUE, dry |-> FALSE, yes |-> TRUE, bad |-> FALSE,
     through |-> FALSE, label |-> FALSE, items |-> 1, to |-> None]
SetTo(i) == CommandLine([kind |-> "identity", publish |-> FALSE, to |-> i])
Bench2 == CommandLine([kind |-> "bench", items |-> 2])
NoFile == [inode |-> None, text |-> "absent"]
Old(t) == [inode |-> "old", text |-> t]

PScene(x, y, over) == over @@
    [cmd |-> (e1 :> x) @@ (e2 :> y), home |-> TRUE, cache |-> TRUE,
     identity |-> NoFile, install |-> NoFile, stored |-> {"bench"}]

PCasts ==
    { PScene(CommandLine([label |-> TRUE]), CommandLine([through |-> TRUE, kind |-> "netbench"]), <<>>),
      PScene(Bench2, CommandLine([dry |-> TRUE]), [identity |-> Old("garbled")]),
      PScene(CommandLine([yes |-> FALSE]), CommandLine([kind |-> "netbench"]), [stored |-> {}]),
      PScene(SetTo("given"), CommandLine([kind |-> "bench", publish |-> FALSE]), <<>>),
      PScene(SetTo(None), Bench2, [home |-> FALSE]),
      PScene(SetTo("given"), CommandLine([label |-> TRUE]), [home |-> FALSE, cache |-> FALSE]),
      PScene(CommandLine([bad |-> TRUE]), CommandLine(<<>>), [install |-> Old("garbled")]),
      PScene(Bench2, CommandLine(<<>>), [install |-> Old("denied"), identity |-> Old("old")]),
      PScene(CommandLine([kind |-> "netbench", bad |-> TRUE]), CommandLine([dry |-> TRUE]),
             [install |-> Old("old")]),
      PScene(CommandLine([kind |-> "bench", bad |-> TRUE]), SetTo("given"), [identity |-> Old("old")]) }

P == INSTANCE Publishing WITH
        Procs <- {e1, e2}, Casts <- PCasts, Attempts <- 4, MaxLosses <- 5, MaxKills <- 1, pc <- state

PVars == <<cmd, state, homeOk, cacheOk, idFile, instFile, stored, owner, inst, attempt, item, rc,
           received, kept, confirmed, saved, losses, kills>>

-----------------------------------------------------------------------------
(* Two commands that set or unset a key and a job that loads, or a job     *)
(* under each configuration.                                               *)

Nothing == [k \in {} |-> None]
Maps == [dir : {"d1"}] \cup [dir : {"d1"}, max_bytes : {"10g", "junk"}, low_water : {"0.70", "0.95"}]
        \cup [dir : {"d2"}, max_read_fraction : {"50", "junk"}] \cup {Nothing}
Job == {[kind |-> "job", key |-> None, value |-> None, conf |-> m, env |-> v] :
        m \in Maps, v \in Maps \cup [max_bytes : {"0", "10g", "junk"}]}
Sets == [kind : {"set"}, key : {"max_bytes"}, value : {"0"}, conf : [dir : {"d1"}], env : {Nothing}]
   \cup [kind : {"set"}, key : {"max_read_fraction"}, value : {"junk", "50"}, conf : {Nothing}, env : [dir : {"d1", "d2"}]]
   \cup [kind : {"set"}, key : {"retired", "dir"}, value : {"d2"}, conf : [dir : {"d1"}], env : {Nothing}]
   \cup [kind : {"set"}, key : {"max_bytes"}, value : {"0"}, conf : {Nothing}, env : {Nothing}]
Unsets == [kind : {"unset"}, key : {"max_bytes", "retired"}, value : {None}, conf : [dir : {"d1"}], env : {Nothing}]
   \cup [kind : {"unset"}, key : {"low_water"}, value : {None}, conf : {Nothing}, env : {Nothing}]

States0 == {Nothing} \cup [dir : {"d2"}, max_bytes : {"0"}] \cup [retired : {"on"}]
SScene(x, y, z, t) ==
    [line |-> (q1 :> x) @@ (q2 :> y) @@ (q3 :> z),
     text |-> [i \in {i1, i2, i3, i4, i5} |-> IF i = i1 THEN t ELSE Nothing],
     path |-> [d \in {"d1", "d2"} |-> IF d = "d1" /\ t # Nothing THEN i1 ELSE None]]
Reader == [kind |-> "job", key |-> None, value |-> None, conf |-> [dir |-> "d1"], env |-> Nothing]
SScenes ==
    {SScene(x, y, Reader, t) : x \in Sets, y \in Unsets \cup Sets, t \in States0}
    \cup {SScene(None, None, z, t) : z \in Job, t \in States0}

S == INSTANCE Settings WITH Cmds <- {q1, q2, q3}, Scenes <- SScenes, Crashes <- 1, Nil <- None

SVars == <<line, step, cfg, kv, path, tmp, fd, text, code, overlap, crashes>>

-----------------------------------------------------------------------------
(* A behaviour of one part.                                               *)

StoreStill ==
    /\ data = None /\ meta = None /\ repl = None /\ lock = None /\ object = None
    /\ registry = None /\ approx = None /\ since = None /\ progress = None /\ blocked = None
    /\ pc = None /\ key = None /\ obj = None /\ ret = None /\ pass = None /\ spared = None
    /\ excused = None /\ writes = None /\ marks = None
RStill ==
    /\ file = None /\ room = None /\ lockBy = None /\ queue = None /\ drain = None
    /\ left = None /\ listed = None /\ locked = None /\ work = None /\ count = None
    /\ inFlight = None /\ reclaim = None /\ thread = None /\ at = None /\ seen = None
    /\ promised = None /\ claim = None /\ built = None
PStill ==
    /\ cmd = None /\ state = None /\ homeOk = None /\ cacheOk = None /\ idFile = None
    /\ instFile = None /\ stored = None /\ owner = None /\ inst = None /\ attempt = None
    /\ item = None /\ rc = None /\ received = None /\ kept = None /\ confirmed = None
    /\ saved = None /\ losses = None /\ kills = None
SStill ==
    /\ line = None /\ step = None /\ cfg = None /\ kv = None /\ path = None /\ tmp = None
    /\ fd = None /\ text = None /\ code = None /\ overlap = None /\ crashes = None

PartsInit ==
    /\ part \in Parts
    /\ IF part = "passes" THEN Init ELSE StoreStill
    /\ IF part = "recompress" THEN R!Init ELSE RStill
    /\ IF part = "publishing" THEN P!Init ELSE PStill
    /\ IF part = "settings" THEN S!Init ELSE SStill

PartsNext ==
    /\ UNCHANGED part
    /\ \/ part = "passes" /\ Next /\ UNCHANGED <<RVars, PVars, SVars>>
       \/ part = "recompress" /\ R!Next /\ UNCHANGED <<vars, PVars, SVars>>
       \/ part = "publishing" /\ P!Next /\ UNCHANGED <<vars, RVars, SVars>>
       \/ part = "settings" /\ S!Next /\ UNCHANGED <<vars, RVars, PVars>>

PartsSpec == PartsInit /\ [][PartsNext]_<<part, vars, RVars, PVars, SVars>>
-----------------------------------------------------------------------------
(* The parts' invariants, each about the behaviours of its part.           *)

\* "One FileEntry per key per process" (CacheStore.h:4): CacheStore!OneEntryPerKey.
EntriesShared == part = "passes" => TypeOK /\ OneEntryPerKey

\* A pass that ends above its target has removed all it may (evictNow's
\* needEvict): CacheStore!PassReachesTarget.
TargetReached == part = "passes" => PassReachesTarget




=============================================================================
