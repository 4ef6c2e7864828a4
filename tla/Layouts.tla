------------------------------ MODULE Layouts -------------------------------
(***************************************************************************)
(* The forms a cached file is shown in.  A handle is shown the original,   *)
(* the slot layout of the file's store, or the layout of a compact         *)
(* replica, and a reader may keep offsets from any open its process made.  *)
(* This module has the choice of a layout by the handles of several        *)
(* processes (chooseLayout, coldAttach, build, coldDetach), the replica's  *)
(* publishing and opening (ReplicaStore) and removals, for one file of one *)
(* version of the origin; what the previous version left may be on disk.   *)
(*                                                                         *)
(* A slot layout is told by the codecs it is computed with, a replica by   *)
(* the number of its build; replicas are all of one size and the mtime of  *)
(* .tdata is its build's, so only the marker and the checksums tell two    *)
(* builds apart.  Stores of a newer release and debris are left out.       *)
(***************************************************************************)
EXTENDS Integers, Sequences, FiniteSets

CONSTANTS
    Handles,
    Procs,
    ProcOf,      \* the process of a handle
    Codecs,
    Setting,     \* the codecs a process is configured with
    Declining,   \* codecs with which the file's layout is declined
    Recompress,  \* processes that make stores
    None,
    Casts,       \* sets of actors, handles and the tools' names, that act together
    MaxStores,   \* bound on stores created
    MaxPublish,  \* bound on replicas published
    MaxDrops,    \* bound on removals
    MaxCrashes,  \* bound on processes and publishers that end
    MaxOpens     \* bound on opens

VARIABLES
    slots,      \* the store <hash>.slots names
    tmeta,      \* the build the sidecar describes; 0 is the previous version's
    tdata,      \* the build .tdata holds
    tok,        \* the verify-once marker
    shown,      \* shown[p]: the layout p has shown the file in
    registry,   \* registry[p]: the slot run handles of p join
    runs,       \* runs[r]: a slot run, its store and its handle count
    op,         \* op[h]: where the handle is, and the locals of its open
    pub,        \* where the publisher is
    rm,         \* the files a removal has still to unlink
    ever,       \* history: layouts other than the original p's handles were shown
    cut,        \* history: a withdrawal was refused or never ran
    cast,       \* the actors of this behaviour
    stores, builds, drops, crashes, opens

disk == <<slots, tmeta, tdata, tok>>
process == <<shown, registry, runs>>
history == <<ever, cut>>
bounds == <<cast, stores, builds, drops, crashes, opens>>
vars == <<disk, process, op, pub, rm, history, bounds>>

Runs == 1 .. Cardinality(Handles)
Marker(data, meta) == [data |-> data, crcs |-> meta]

\* What a process may have shown: nothing yet, the original, a slot layout
\* or a replica.
Shown(layout, id) == [layout |-> layout, id |-> id]
Nothing == Shown("none", None)
Original == Shown("original", None)

NoRun == [store |-> None, handles |-> 0]
Closed == [pc |-> "closed", mode |-> None, want |-> None, store |-> None,
           meta |-> None, data |-> None, run |-> None, shows |-> Nothing]

\* A store of the previous version, or one that declined, may be there; or a
\* replica of the previous version.
Init ==
    /\ slots \in {None} \cup [id : {0}, hash : Codecs, current : BOOLEAN, declined : BOOLEAN]
    /\ tmeta \in IF slots = None \/ slots.declined THEN {None, 0} ELSE {None}
    /\ tdata = tmeta
    /\ tok = IF tmeta = None THEN None ELSE Marker(0, 0)
    /\ shown = [p \in Procs |-> Nothing]
    /\ registry = [p \in Procs |-> None]
    /\ runs = [r \in Runs |-> NoRun]
    /\ op = [h \in Handles |-> Closed]
    /\ pub = "idle" /\ rm = <<>>
    /\ ever = [p \in Procs |-> {}] /\ cut = FALSE
    /\ cast \in Casts
    /\ stores = 0 /\ builds = 0 /\ drops = 0 /\ crashes = 0 /\ opens = 0

-----------------------------------------------------------------------------
(* The layout a process has shown, and the runs its handles share.         *)

\* noteShownLayout: the original gives way, nothing else changes; the result
\* is the layout that won.
Noted(old, new) == IF old.layout \in {"none", "original"} THEN new ELSE old

\* SlotStore::serving: there is a store and its header does not decline, of
\* whichever version of the origin.
Serving == slots # None /\ ~slots.declined

At(h, place) == op[h].pc = place
Goto(h, place) == op' = [op EXCEPT ![h].pc = place]

\* The handle's open ends, and it shows lay.
Settled(h, lay) ==
    /\ op' = [op EXCEPT ![h] = [Closed EXCEPT !.pc = "open", !.shows = lay, !.run = op[h].run]]
    /\ ever' = [ever EXCEPT ![ProcOf[h]] = IF lay = Original THEN @ ELSE @ \cup {lay}]

\* coldAttach returned nothing.
NotAttached(h) ==
    CASE op[h].mode = "match" -> Settled(h, Original)
      [] op[h].mode = "existing" -> Goto(h, "stat") /\ UNCHANGED ever
      [] op[h].mode = "create" -> Goto(h, "plain") /\ UNCHANGED ever

\* It returned run r, counting this handle.
Attached(h, r) ==
    IF op[h].mode = "match"
    THEN /\ op' = [op EXCEPT ![h] = [Closed EXCEPT !.pc = "open", !.run = r,
                                         !.shows = Shown("slot", op[h].want)]]
         /\ ever' = [ever EXCEPT ![ProcOf[h]] = @ \cup {Shown("slot", op[h].want)}]
    ELSE /\ op' = [op EXCEPT ![h].pc = "note", ![h].run = r, ![h].store = None]
         /\ UNCHANGED ever

\* A run a handle in mode may join: a process that has shown a slot layout
\* takes only that one.
Joinable(h, r) == op[h].mode = "match" => runs[r].store.hash = op[h].want

\* coldDetach: the last handle takes the run out of the registry, if it is
\* the one registered.
Detach(p, r) ==
    /\ runs' = [runs EXCEPT ![r] = IF @.handles = 1 THEN NoRun ELSE [@ EXCEPT !.handles = @ - 1]]
    /\ registry' = IF runs[r].handles = 1 /\ registry[p] = r
                   THEN [registry EXCEPT ![p] = None] ELSE registry

-----------------------------------------------------------------------------
(* chooseLayout.                                                           *)

Open(h) ==
    /\ At(h, "closed") /\ h \in cast /\ opens < MaxOpens
    /\ Goto(h, "look")
    /\ opens' = opens + 1
    /\ UNCHANGED <<disk, process, pub, rm, history, cast, stores, builds, drops, crashes>>

\* shownLayout, and what it leads to.
Look(h) ==
    /\ At(h, "look")
    /\ LET s == shown[ProcOf[h]] IN
       op' = [op EXCEPT ![h].want = s.id,
                        ![h].pc = IF s.layout = "compact" THEN "stat" ELSE "attach",
                        ![h].mode = CASE s.layout = "slot" -> "match"
                                      [] s.layout = "compact" -> "replica"
                                      [] OTHER -> "existing"]
    /\ UNCHANGED <<disk, process, pub, rm, history, bounds>>

\* noteShownLayout for the layout lay this handle came to: it is shown if it
\* won, otherwise the handle follows the winner.
Note(h, lay, lost) ==
    LET p == ProcOf[h]
        won == Noted(shown[p], lay)
    IN  /\ shown' = [shown EXCEPT ![p] = won]
        /\ IF won = lay THEN Settled(h, lay)
           ELSE op' = [op EXCEPT ![h].pc = lost] /\ UNCHANGED ever
        /\ UNCHANGED <<disk, registry, runs, pub, rm, cut, bounds>>

NoteSlot(h) == At(h, "note") /\ Note(h, Shown("slot", runs[op[h].run].store.hash), "lost")
NoteCompact(h) == At(h, "view") /\ Note(h, Shown("compact", op[h].meta), "look")
NoteOriginal(h) == At(h, "plain") /\ Note(h, Original, "look")

Lose(h) ==
    /\ At(h, "lost")
    /\ Detach(ProcOf[h], op[h].run)
    /\ op' = [op EXCEPT ![h].pc = "look", ![h].run = None]
    /\ UNCHANGED <<disk, shown, pub, rm, history, bounds>>

Close(h) ==
    /\ At(h, "open")
    /\ IF op[h].run # None THEN Detach(ProcOf[h], op[h].run) ELSE UNCHANGED <<registry, runs>>
    /\ op' = [op EXCEPT ![h] = Closed]
    /\ UNCHANGED <<disk, shown, pub, rm, history, bounds>>

-----------------------------------------------------------------------------
(* coldAttach and build.                                                   *)

\* The registry is looked at first.
Attach(h) ==
    /\ At(h, "attach")
    /\ LET p == ProcOf[h]
           r == registry[p]
       IN  IF r # None /\ Joinable(h, r)
           THEN /\ runs' = [runs EXCEPT ![r].handles = @ + 1]
                /\ Attached(h, r)
           ELSE Goto(h, "build") /\ UNCHANGED <<runs, ever>>
    /\ UNCHANGED <<disk, shown, registry, pub, rm, cut, bounds>>

\* SlotStore::open, and whether the store found is served, is not for this
\* handle, or is replaced.
BuildOpen(h) ==
    /\ At(h, "build")
    /\ LET m == op[h].mode
           stale == ~slots.current
           redecide == slots.declined /\ m = "create" /\ slots.hash # Setting[ProcOf[h]]
           other == m = "match" /\ slots.hash # op[h].want
       IN  IF slots = None
           THEN IF m = "existing" THEN NotAttached(h) ELSE Goto(h, "sidecar") /\ UNCHANGED ever
           ELSE IF stale \/ redecide
           THEN op' = [op EXCEPT ![h].pc = "discard", ![h].store = slots] /\ UNCHANGED ever
           ELSE IF slots.declined \/ other THEN NotAttached(h)
           ELSE op' = [op EXCEPT ![h].pc = "register", ![h].store = slots] /\ UNCHANGED ever
    /\ UNCHANGED <<disk, process, pub, rm, cut, bounds>>

\* Some other handle has the store open, and may hold its lock.
InUse(h, s) ==
    \/ \E g \in Handles \ {h} : op[g].store = s
    \/ \E r \in Runs : runs[r].store = s

\* dropIfCurrent: the store goes if the path still names it and its lock is
\* free.
DropIfCurrent(h) ==
    LET s == op[h].store IN
    \/ slots' = (IF slots = s THEN None ELSE slots) /\ UNCHANGED cut
    \/ /\ InUse(h, s)
       /\ UNCHANGED slots
       /\ cut' = (cut \/ At(h, "withdraw"))

Discard(h) ==
    /\ At(h, "discard")
    /\ DropIfCurrent(h)
    /\ IF op[h].mode = "existing"
       THEN op' = [op EXCEPT ![h].pc = "stat", ![h].store = None]
       ELSE op' = [op EXCEPT ![h].pc = "sidecar", ![h].store = None]
    /\ UNCHANGED <<tmeta, tdata, tok, process, pub, rm, ever, bounds>>

\* A store is not made beside a replica.
Sidecar(h) ==
    /\ At(h, "sidecar")
    /\ IF tmeta # None THEN NotAttached(h) ELSE Goto(h, "create") /\ UNCHANGED ever
    /\ UNCHANGED <<disk, process, pub, rm, cut, bounds>>

\* The layout is computed: with the codecs of the layout shown, when that is
\* the one wanted.
CodecsOf(h) == IF op[h].mode = "match" THEN op[h].want ELSE Setting[ProcOf[h]]

\* It cannot be computed or stored, or is declined and only asked for again.
ComputeFails(h) ==
    /\ At(h, "create")
    /\ NotAttached(h)
    /\ UNCHANGED <<disk, process, pub, rm, cut, bounds>>

\* openOrCreate links a store of its own into place, or finds another's.
Create(h) ==
    /\ At(h, "create")
    /\ slots = None /\ stores < MaxStores
    /\ LET declined == CodecsOf(h) \in Declining
           new == [id |-> stores + 1, hash |-> CodecsOf(h), current |-> TRUE, declined |-> declined]
       IN  /\ declined => op[h].mode = "create"
           /\ slots' = new
           /\ IF declined THEN NotAttached(h)
              ELSE op' = [op EXCEPT ![h].pc = "beside", ![h].store = new] /\ UNCHANGED ever
    /\ stores' = stores + 1
    /\ UNCHANGED <<tmeta, tdata, tok, process, pub, rm, cut, cast, builds, drops, crashes, opens>>

CreateFinds(h) ==
    /\ At(h, "create")
    /\ slots # None
    /\ CodecsOf(h) \in Declining => op[h].mode = "create"
    /\ IF slots.declined \/ ~slots.current \/ (op[h].mode = "match" /\ slots.hash # op[h].want)
       THEN NotAttached(h)
       ELSE op' = [op EXCEPT ![h].pc = "register", ![h].store = slots] /\ UNCHANGED ever
    /\ UNCHANGED <<disk, process, pub, rm, cut, bounds>>

\* The creator looks for a replica published meanwhile, and withdraws.
BesideUnchecked(h) ==
    /\ At(h, "beside")
    /\ Goto(h, "register")
    /\ UNCHANGED <<disk, process, pub, rm, history, bounds>>

Beside(h) ==
    /\ At(h, "beside")
    /\ Goto(h, IF tmeta # None THEN "withdraw" ELSE "register")
    /\ UNCHANGED <<disk, process, pub, rm, history, bounds>>

Withdraw(h) ==
    /\ At(h, "withdraw")
    /\ DropIfCurrent(h)
    /\ IF op[h].mode = "match"
       THEN Settled(h, Original)
       ELSE op' = [op EXCEPT ![h].pc = "plain", ![h].store = None] /\ UNCHANGED ever
    /\ UNCHANGED <<tmeta, tdata, tok, process, pub, rm, bounds>>

\* The run is registered; a run another handle registered meanwhile is
\* joined instead, or replaced when its layout is not the one wanted.
Register(h) ==
    /\ At(h, "register")
    /\ LET p == ProcOf[h]
           free == CHOOSE r \in Runs : runs[r].handles = 0
           r == IF registry[p] # None /\ Joinable(h, registry[p]) THEN registry[p] ELSE free
       IN  /\ registry' = [registry EXCEPT ![p] = r]
           /\ runs' = IF r = registry[p] THEN [runs EXCEPT ![r].handles = @ + 1]
                      ELSE [runs EXCEPT ![r] = [store |-> op[h].store, handles |-> 1]]
           /\ Attached(h, r)
    /\ UNCHANGED <<disk, shown, pub, rm, cut, bounds>>

-----------------------------------------------------------------------------
(* openView.                                                               *)

\* There is no view: the original if the process has shown a replica, or
\* else a store is made if the process makes stores.
NoView(h) ==
    IF op[h].mode = "replica" THEN Settled(h, Original)
    ELSE /\ op' = [op EXCEPT ![h].pc = IF ProcOf[h] \in Recompress THEN "attach" ELSE "plain",
                             ![h].mode = "create", ![h].meta = None, ![h].data = None]
         /\ UNCHANGED ever

\* A view is shown if the process has shown no replica, or this one.
View(h) ==
    IF op[h].mode = "replica"
    THEN Settled(h, IF op[h].meta = op[h].want THEN Shown("compact", op[h].meta) ELSE Original)
    ELSE Goto(h, "view") /\ UNCHANGED ever

StatSidecar(h) ==
    /\ At(h, "stat")
    /\ IF tmeta = None THEN NoView(h) ELSE Goto(h, "load") /\ UNCHANGED ever
    /\ UNCHANGED <<disk, process, pub, rm, cut, bounds>>

\* The sidecar is loaded; one that is gone, or of the previous version, is
\* dropped.
LoadSidecar(h) ==
    /\ At(h, "load")
    /\ op' = [op EXCEPT ![h].meta = tmeta,
                        ![h].pc = IF tmeta \in {None, 0} THEN "drop tmeta" ELSE "data"]
    /\ UNCHANGED <<disk, process, pub, rm, history, bounds>>

OpenData(h) ==
    /\ At(h, "data")
    /\ op' = [op EXCEPT ![h].data = tdata,
                        ![h].pc = IF tdata = None THEN "drop tmeta" ELSE "verify"]
    /\ UNCHANGED <<disk, process, pub, rm, history, bounds>>

\* tokMatches: the marker vouches for this .tdata with this sidecar.
VouchedBySidecar(data, meta) == tok # None /\ tok.crcs = meta

Vouched(data, meta) == tok = Marker(data, meta)

\* Without the marker every page is checked, and the marker written.
Verify(h) ==
    /\ At(h, "verify")
    /\ LET d == op[h].data
           m == op[h].meta
       IN  IF Vouched(d, m) THEN View(h) /\ UNCHANGED tok
           ELSE IF d = m THEN View(h) /\ tok' = Marker(d, m)
           ELSE Goto(h, "drop tmeta") /\ UNCHANGED <<tok, ever>>
    /\ UNCHANGED <<slots, tmeta, tdata, process, pub, rm, cut, bounds>>

\* Quarantine: ReplicaStore::drop, one unlink after the other.
DropSidecar(h) ==
    /\ At(h, "drop tmeta")
    /\ tmeta' = None
    /\ Goto(h, "drop tdata")
    /\ UNCHANGED <<slots, tdata, tok, process, pub, rm, history, bounds>>

DropData(h) ==
    /\ At(h, "drop tdata")
    /\ tdata' = None
    /\ Goto(h, "drop tok")
    /\ UNCHANGED <<slots, tmeta, tok, process, pub, rm, history, bounds>>

DropMarker(h) ==
    /\ At(h, "drop tok")
    /\ tok' = None
    /\ NoView(h)
    /\ UNCHANGED <<slots, tmeta, tdata, process, pub, rm, cut, bounds>>

-----------------------------------------------------------------------------
(* ReplicaStore::publish, by one publisher at a time.                      *)

PublisherUnchanged == UNCHANGED <<slots, process, op, rm, history, cast, stores, drops, crashes, opens>>

\* A file with a serving store gets no replica.
Publish ==
    /\ pub = "idle" /\ "publisher" \in cast /\ builds < MaxPublish
    /\ ~Serving
    /\ pub' = "data" /\ builds' = builds + 1
    /\ UNCHANGED <<tmeta, tdata, tok>> /\ PublisherUnchanged

\* .tdata is written aside, synced and renamed into place.
PublishData ==
    /\ pub = "data"
    /\ tdata' = builds /\ pub' = "sidecar"
    /\ UNCHANGED <<tmeta, tok, builds>> /\ PublisherUnchanged

PublishSidecar ==
    /\ pub = "sidecar"
    /\ tmeta' = builds /\ pub' = "check"
    /\ UNCHANGED <<tdata, tok, builds>> /\ PublisherUnchanged

\* .tdata cannot be written, or its sidecar cannot and .tdata goes again.
PublishFails ==
    /\ pub \in {"data", "sidecar"}
    /\ tdata' = IF pub = "sidecar" THEN None ELSE tdata
    /\ pub' = "idle"
    /\ UNCHANGED <<tmeta, tok, builds>> /\ PublisherUnchanged

\* A store may have appeared since the first look.
PublishCheck ==
    /\ pub = "check"
    /\ pub' = IF Serving THEN "withdraw tmeta" ELSE "mark"
    /\ UNCHANGED <<tmeta, tdata, tok, builds>> /\ PublisherUnchanged

PublishWithdrawSidecar ==
    /\ pub = "withdraw tmeta"
    /\ tmeta' = None /\ pub' = "withdraw tdata"
    /\ UNCHANGED <<tdata, tok, builds>> /\ PublisherUnchanged

PublishWithdrawData ==
    /\ pub = "withdraw tdata"
    /\ tdata' = None /\ pub' = "idle"
    /\ UNCHANGED <<tmeta, tok, builds>> /\ PublisherUnchanged

\* The marker is written for the .tdata that is there now.
PublishMark ==
    /\ pub = "mark"
    /\ tok' = IF tdata = None THEN tok ELSE Marker(tdata, builds)
    /\ pub' = "idle"
    /\ UNCHANGED <<tmeta, tdata, builds>> /\ PublisherUnchanged

-----------------------------------------------------------------------------
(* Removals, and processes that end.                                       *)

RemovalUnchanged == UNCHANGED <<process, op, pub, history, cast, stores, builds, crashes, opens>>

\* cmdUntranspose looks for both forms, then unlinks the replica's files in
\* order and the store.
Remove ==
    /\ rm = <<>> /\ "remover" \in cast /\ drops < MaxDrops
    /\ rm' = (IF tmeta # None THEN <<"tmeta", "tdata", "tok">> ELSE <<>>)
             \o (IF slots # None THEN <<"slots">> ELSE <<>>)
    /\ rm' # <<>>
    /\ drops' = drops + 1
    /\ UNCHANGED disk /\ RemovalUnchanged

Removed(name, file) == IF Head(rm) = name THEN None ELSE file

RemoveNext ==
    /\ rm # <<>>
    /\ rm' = Tail(rm)
    /\ tmeta' = Removed("tmeta", tmeta)
    /\ tdata' = Removed("tdata", tdata)
    /\ tok' = Removed("tok", tok)
    /\ slots' = Removed("slots", slots)
    /\ UNCHANGED drops /\ RemovalUnchanged

\* A process ends, and forgets what it has shown.
End(p) ==
    LET mine == {h \in Handles : ProcOf[h] = p}
        held == {op[h].run : h \in mine}
    IN  /\ crashes < MaxCrashes
        /\ crashes' = crashes + 1
        /\ cut' = (cut \/ \E h \in mine : op[h].pc \in {"beside", "withdraw"})
        /\ op' = [h \in Handles |-> IF h \in mine THEN Closed ELSE op[h]]
        /\ runs' = [r \in Runs |-> IF r \in held THEN NoRun ELSE runs[r]]
        /\ registry' = [registry EXCEPT ![p] = None]
        /\ shown' = [shown EXCEPT ![p] = Nothing]
        /\ ever' = [ever EXCEPT ![p] = {}]
        /\ UNCHANGED <<disk, pub, rm, cast, stores, builds, drops, opens>>

PublisherEnds ==
    /\ pub # "idle" /\ crashes < MaxCrashes
    /\ crashes' = crashes + 1
    /\ cut' = (cut \/ pub \in {"check", "withdraw tmeta"})
    /\ pub' = "idle"
    /\ UNCHANGED <<disk, process, op, rm, ever, cast, stores, builds, drops, opens>>

-----------------------------------------------------------------------------

Choose(h) ==
    \/ Look(h) \/ NoteSlot(h) \/ NoteCompact(h) \/ NoteOriginal(h) \/ Lose(h)
    \/ Attach(h) \/ BuildOpen(h) \/ Discard(h) \/ Sidecar(h) \/ ComputeFails(h)
    \/ Create(h) \/ CreateFinds(h) \/ Beside(h) \/ Withdraw(h) \/ Register(h)
    \/ StatSidecar(h) \/ LoadSidecar(h) \/ OpenData(h) \/ Verify(h)
    \/ DropSidecar(h) \/ DropData(h) \/ DropMarker(h)

Publisher ==
    \/ Publish \/ PublishData \/ PublishSidecar \/ PublishFails \/ PublishCheck
    \/ PublishWithdrawSidecar \/ PublishWithdrawData \/ PublishMark \/ PublisherEnds

Next ==
    \/ \E h \in Handles : Open(h) \/ Choose(h) \/ Close(h)
    \/ \E p \in Procs : End(p)
    \/ Publisher \/ Remove \/ RemoveNext

Spec == Init /\ [][Next]_vars

-----------------------------------------------------------------------------
(* Properties.                                                             *)

\* Through all its opens a process shows the file in one layout besides the
\* original, whatever is created, published, rebuilt or removed meanwhile
\* (chooseLayout: "a process never shows a file in a layout it has not shown
\* it in before").
OneLayout == \A p \in Procs : Cardinality(ever[p]) <= 1

\* A store that serves and a replica's sidecar are not left side by side once
\* the creator and the publisher have both looked again, unless one of them
\* died in between or could not get the store's lock (build, publish: "of two
\* racing, at least one sees the other").
OneForm ==
    (/\ ~cut
     /\ pub \notin {"check", "withdraw tmeta"}
     /\ \A h \in Handles : op[h].pc \notin {"beside", "withdraw"})
        => ~(Serving /\ tmeta # None)

\* A view that passed openView, by the marker or by checking every page, has
\* the .tdata its sidecar was made for, even while a replica is published
\* over another and its files are dropped by others.
ViewWhole == \A h \in Handles : At(h, "view") => op[h].data = op[h].meta

\* A run counts exactly the handles that hold it, in whichever way they came
\* to it or gave it up, and the registry never hands out a run nobody holds:
\* the last coldDetach is the one that queues its commit.
HandlesCounted ==
    /\ \A r \in Runs : runs[r].handles = Cardinality({h \in Handles : op[h].run = r})
    /\ \A p \in Procs : registry[p] # None => runs[registry[p]].handles > 0
=============================================================================
