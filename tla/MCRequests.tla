----------------------------- MODULE MCRequests -----------------------------
(* What is decided for a request, for TLC: what it asks of the origin and   *)
(* what it stages (ReadPlan), whether a file is read directly (ReadRule),   *)
(* where a file's baskets are shown and when their originals may be         *)
(* released (Relocation), whether the program copies (CopyDetect) and what  *)
(* the run's record says was read (Footprint).  Each takes the others'      *)
(* results as its inputs, so a behaviour is one of one part, chosen by      *)
(* Init, and the others stand still.                                        *)
EXTENDS Integers, Sequences, TLC

CONSTANTS None, Declined,
          t1, t2, k1, k2, k3,    \* threads and files of ReadRule; threads of CopyDetect
          h1, h2                 \* handles of Footprint

VARIABLES part,
          shape, plan,
          size, reg, rule, held, now, at, asked, budget,
          file, layout, slot, pages, failed, forgets,
          program, loaded, gen, table, opening, opens,
          relayFp, entry, handle, records, read, ended, reads, opened

-----------------------------------------------------------------------------
(* Requests of one to three chunks, predictions and replica reads.         *)

PShapes ==
    [page : {2}, size : {11, 12}, ceiling : {5}, limit : {99}, bridge : {0, 2}, data : {{}, {<<3, 5>>, <<7, 8>>}}]
    \cup [page : {4}, size : {11}, ceiling : {3, 6}, limit : {99, 5}, bridge : {4}, data : {{}}]
PCands == {<<o, n>> : o \in {0, 1, 3, 6, 8}, n \in {1, 3, 5}}

Extent(a, n, t) == [virt |-> a, len |-> n, tdata |-> t]
Orig(a, n, o, m) == [virt |-> a, len |-> n, tdata |-> 0, orig |-> o, origLen |-> m]
View(exts, om, page, cap) ==
    [virtualSize |-> 14, originSize |-> 9, extents |-> exts, origMap |-> om, tdata |-> 7, page |-> page, cap |-> cap]
PViews ==
    {View(<<Extent(0, 2, 0), Extent(9, 5, 2)>>, <<Orig(9, 3, 3, 2), Orig(12, 1, 6, 2)>>, 2, 4),
     View(<<Extent(2, 1, 4), Extent(3, 3, 0), Extent(10, 2, 5)>>, <<>>, 3, 3),
     View(<<Extent(1, 2, 1)>>, <<Orig(10, 4, 0, 9)>>, 4, 1)}

P == INSTANCE ReadPlan WITH
        Shapes <- PShapes, Chunks <- [off : 0 .. 12, len : 1 .. 6], Cands <- PCands,
        Views <- PViews, Asks <- (0 .. 15) \X (0 .. 8), Nothing <- None

-----------------------------------------------------------------------------
(* Two files with a map and one without, of which the bounds hold two      *)
(* rules and one map, read by two threads.                                 *)

Unit(o, n, g) == [off |-> o, len |-> n, group |-> g]
DMapOf ==
    (k1 :> [units |-> <<Unit(1, 2, 1), Unit(4, 3, 2), Unit(7, 2, 1), Unit(10, 2, 3)>>, headSkip |-> 0]) @@
    (k2 :> [units |-> <<Unit(1, 3, 1), Unit(4, 2, 2), Unit(8, 3, 3)>>, headSkip |-> 3]) @@
    (k3 :> None)

D == INSTANCE ReadRule WITH
        Threads <- {t1, t2}, Keys <- {k1, k2, k3}, MapOf <- DMapOf,
        Requests <- {{<<0, 2>>}, {<<4, 3>>, <<3, 2>>}, {<<1, 4>>, <<5, 1>>}, {<<7, 5>>}},
        Limit <- 70, MaxRules <- 2, MaxMaps <- 1, MaxSizes <- 2, Budget <- 3,
        NoMap <- None, NoRule <- None

-----------------------------------------------------------------------------
(* Files that convert, grow past 32-bit offsets, have an unlisted codec or *)
(* a list that cannot move, and files that must be declined.               *)

B(s, n, w) == [seek |-> s, len |-> n, wide |-> w]
Branch(bs) == [baskets |-> bs, external |-> FALSE, codec |-> "listed"]
File(bs, over) == over @@
    [readable |-> TRUE, headerEnd |-> 14, fend |-> 14, size |-> 14, large |-> FALSE, keylen |-> 1,
     blob |-> 2, zblob |-> 1, treeWide |-> FALSE, listWide |-> FALSE, listSeek |-> 12, listLen |-> 2,
     branches |-> bs]
LFiles ==
    {File(<<Branch(<<B(3, 4, TRUE), B(9, 2, TRUE)>>), Branch(<<B(7, 2, TRUE)>>)>>, <<>>),
     File(<<Branch(<<B(4, 2, TRUE), B(8, 4, TRUE)>>),
            [Branch(<<B(6, 2, TRUE)>>) EXCEPT !.codec = "other"]>>, [zblob |-> 3]),
     File(<<Branch(<<B(5, 3, FALSE)>>), Branch(<<B(8, 3, FALSE)>>)>>, [large |-> TRUE]),
     File(<<Branch(<<B(5, 3, TRUE)>>)>>, [listSeek |-> 2]),
     File(<<Branch(<<B(5, 3, TRUE)>>)>>, [size |-> 13]),
     File(<<Branch(<<B(9, 6, TRUE)>>), [Branch(<<B(5, 3, TRUE)>>) EXCEPT !.external = TRUE]>>, <<>>),
     File(<<Branch(<<B(5, 3, TRUE)>>)>>, [listWide |-> TRUE, treeWide |-> TRUE, headerEnd |-> 14])}
LResults == [codec : {"listed"}, raw : {4, 9}, zstd : {2, 9}] \cup [codec : {"other"}, raw : {4}, zstd : {2}]

L == INSTANCE Relocation WITH
        Files <- LFiles, Results <- LResults, Factor100 <- 150, Align <- 4, Big <- 24,
        HeaderBytes <- 3, ListFrom <- 4, Page <- 2, KeepHead <- 6, MaxForgets <- 1,
        Unknown <- None

-----------------------------------------------------------------------------
(* Four libraries over three mapping bases: the copy engine (sized         *)
(* symbols), ROOT's I/O (no sizes, so a window that reaches the next       *)
(* library), gfal's plugin and an unrelated one.                           *)

CLibs == {"xrdcl", "rio", "gfal", "user"}
CKind == [l \in CLibs |-> CASE l = "rio" -> "rootio" [] l = "gfal" -> "gfal" [] OTHER -> "other"]
Sym(o, n, sig) == [at |-> o, size |-> n, sig |-> sig]
CSymbols == [l \in CLibs |->
    CASE l = "xrdcl" -> {Sym(0, 1, "none"), Sym(1, 1, "engine")}
      [] l = "rio" -> {Sym(0, 0, "merge"), Sym(1, 0, "none")}
      [] OTHER -> {Sym(0, 2, "none")}]
Fr(l, off) == [lib |-> l, off |-> off]
CStacks ==
    {<<Fr("user", 1)>>, <<Fr("rio", 1), Fr("user", 0)>>, <<Fr("rio", 1), Fr("rio", 0)>>,
     <<Fr("user", 0), Fr("gfal", 1)>>, <<Fr("xrdcl", 1), Fr("gfal", 0)>>,
     <<Fr("xrdcl", 0), Fr("user", 0), Fr("gfal", 1)>>}

C == INSTANCE CopyDetect WITH
        Threads <- {t1, t2}, Libs <- CLibs, Kind <- CKind, Symbols <- CSymbols, Engine <- "xrdcl",
        Unloadable <- {"gfal", "user"}, Bases <- 1 .. 3, Span <- 2, Window <- 3, Depth <- 3,
        Stacks <- CStacks, Programs <- {"none", "tool"}, MaxMoves <- 4, MaxOpens <- 2

-----------------------------------------------------------------------------
(* Two files of two buckets, one of which the table has no room for.  A    *)
(* read of a replica's first bucket is of the file's second, and a reader  *)
(* may ask past the end.                                                   *)

FBack == [f \in {"relay", "original", "mapped", "unmapped"} |->
    [b \in 0 .. 2 |-> IF f \in {"relay", "original"} THEN {b}
                     ELSE IF b = 0 THEN {1} ELSE IF b = 1 THEN {0} ELSE {}]]

F == INSTANCE Footprint WITH
        Urls <- {1, 2}, Handles <- {h1, h2}, Buckets <- 0 .. 2, Size <- [u \in {1, 2} |-> 2],
        Back <- FBack, MaxBucket <- 2, MaxTracked <- 1, MaxReads <- 3, MaxOpens <- 3,
        Unknown <- None, opens <- opened

-----------------------------------------------------------------------------
(* A behaviour of one part.                                                *)

PVars == <<shape, plan>>
DVars == <<size, reg, rule, held, now, at, asked, budget>>
LVars == <<file, layout, slot, pages, failed, forgets>>
CVars == <<program, loaded, gen, table, opening, opens>>
FVars == <<relayFp, entry, handle, records, read, ended, reads, opened>>

\* Threads are alike, and so are handles.
Symmetric == Permutations({t1, t2}) \cup Permutations({h1, h2})

PStill ==
    /\ shape = None /\ plan = None
LStill ==
    /\ file = None /\ layout = None /\ slot = None /\ pages = {} /\ failed = None
    /\ forgets = None
CStill ==
    /\ program = None /\ loaded = None /\ gen = None /\ table = None /\ opening = None
    /\ opens = None
FStill ==
    /\ relayFp = None /\ entry = None /\ handle = None /\ records = None /\ read = None
    /\ ended = None /\ reads = None /\ opened = None

PartsInit ==
    /\ part \in {"plan", "rule", "layout", "copy", "footprint"}
    /\ IF part = "plan" THEN P!Init ELSE PStill
    /\ D!Init
    /\ IF part = "layout" THEN L!Init ELSE LStill
    /\ IF part = "copy" THEN C!Init ELSE CStill
    /\ IF part = "footprint" THEN F!Init ELSE FStill

PartsNext ==
    /\ UNCHANGED part
    /\ \/ part = "plan" /\ P!Next /\ UNCHANGED <<DVars, LVars, CVars, FVars>>
       \/ part = "rule" /\ D!Next /\ UNCHANGED <<PVars, LVars, CVars, FVars>>
       \/ part = "layout" /\ L!Next /\ UNCHANGED <<PVars, DVars, CVars, FVars>>
       \/ part = "copy" /\ C!Next /\ UNCHANGED <<PVars, DVars, LVars, FVars>>
       \/ part = "footprint" /\ F!Next /\ UNCHANGED <<PVars, DVars, LVars, CVars>>

PartsSpec == PartsInit /\ [][PartsNext]_<<part, PVars, DVars, LVars, CVars, FVars>>

-----------------------------------------------------------------------------
(* The parts' properties, each about the behaviours of its part.           *)

\* A vector read puts on the wire only elements the protocol accepts and gives each
\* chunk its own bytes, and read-ahead stages only what is absent (issueMissVRead,
\* roundSpan, Prefetch issue): ReadPlan.
PlanSound == part = "plan" => P!ElementsLegal /\ P!ChunksServed /\ P!StagesAbsent

\* Whatever is read of a replica comes from the extent that covers it or from the
\* byte tier, and no page that fails its checksum is handed out (ReplicaView::map,
\* read, originRanges): ReadPlan!ViewMeansFile.
ViewTrue == part = "plan" => P!ViewMeansFile

\* A file is read directly exactly when the branches its requests covered together
\* hold more than the limit, and then its data are its units (observe, dataRuns):
\* ReadRule.
DirectJustified == part = "rule" => D!DirectAboveLimit /\ D!DataIsUnits


\* A page of the byte cache is released only once committed records serve all of it,
\* and never the head of the file (pageDeadLocked); a file is decided upon once
\* (observe, dropMap): Relocation!OnlyDeadReleased, ReadRule!DecidedOnce.
Irrevocable == L!OnlyDeadReleased /\ D!DecidedOnce


\* A signature in a record covers all that the process had read of the file, and the
\* one the run is known by covers them all (noteAppRead, footprintFor, loadFiles):
\* Footprint.
RecordTrue == part = "footprint" => F!RecordTrue /\ F!LoadedCovers
=============================================================================
