------------------------------ MODULE FileEntry ------------------------------
(***************************************************************************)
(* One cached object: the sparse .data file, its .meta sidecar, and the    *)
(* FileEntry objects of the processes that hold it open.                   *)
(*                                                                         *)
(* A FileEntry keeps its own view of the sidecar (bitmap and per-page CRC) *)
(* and the deltas it has not stored yet.  A commit (flushMeta) takes the   *)
(* entry lock, re-reads the image on disk, applies the deltas, stores the  *)
(* result through a temporary file and a rename, and adopts it.            *)
(*                                                                         *)
(* Data is abstracted to what the properties tell apart.  The bytes of a   *)
(* page are the origin generation they came from, or None for a hole, a    *)
(* short read or a torn write.  A bit and its CRC are one value: None, or  *)
(* the generation whose bytes have that CRC (the CRC is taken to be free   *)
(* of collisions).  A generation stands for the validators (size, mtime,   *)
(* checksum) that adoptable() compares.                                    *)
(***************************************************************************)
EXTENDS Naturals

CONSTANTS
    Entries,    \* FileEntry objects, each in a process of its own
    Threads,    \* threads that call into them
    EntryOf,    \* the entry each thread works on
    Pages,      \* pages of the file
    Gens,       \* generations of the origin file
    Inodes,     \* identities a .data file can have
    None,       \* no inode, no lock holder, no file, bit clear, hole
    Torn,       \* a file that does not deserialize
    MaxOpens,   \* bound: how often entries are opened
    MaxFaults,  \* bound: I/O errors
    MaxCrashes, \* bound: processes that die
    MaxUnlinks, \* bound: passes that unlink the entry
    MaxPunches, \* bound: calls of releaseRanges
    MaxMarks    \* bound: pins and access-time touches

ASSUME ConstantsAssumption ==
    /\ EntryOf \in [Threads -> Entries]
    /\ Gens # {}
    /\ None \notin Gens \cup Inodes \cup Entries
    /\ MaxOpens \in Nat /\ MaxFaults \in Nat /\ MaxCrashes \in Nat
    /\ MaxUnlinks \in Nat /\ MaxPunches \in Nat /\ MaxMarks \in Nat

VARIABLES
    data,     \* data[i][p]: the bytes of page p in inode i
    used,     \* inodes allocated so far
    path,     \* the inode the .data path names, or None
    meta,     \* the sidecar image at the .meta path, None, or Torn
    tmp,      \* the file at the .meta.tmp path, None, or Torn
    flock,    \* flock[i]: the entry whose descriptor holds LOCK_EX on i
    up,       \* up[e]: closed, opening, open, closing, or pinning (CLI)
    ino,      \* ino[e]: the inode behind dataFd_
    gen,      \* gen[e]: the generation the entry was opened for
    view,     \* view[e][p]: meta_.bitmap and meta_.pageCrcs
    setSince, clearedSince, \* deltas not stored yet
    pin, pinTouched, dirty,
    pc,       \* pc[t]: where thread t is
    then,     \* then[t]: where t continues after flushMeta
    pages,    \* pages[t]: the pages t is writing, releasing or reading
    expect,   \* expect[t]: the CRC t captured for its read
    got,      \* got[t]: what the last completed read of t returned
    snap,     \* snap[t]: flushMeta's snapshot of meta_
    delta,    \* delta[t]: flushMeta's sets, clears, pinTouched
    out,      \* out[t]: the image t stores
    merged,   \* merged[t]: out[t] started from the image on disk
    stored,   \* stored[t]: the store succeeded
    fd,       \* fd[t]: the file t's open .meta.tmp descriptor refers to
    ev,       \* the process that unlinks: idle, or the step it is at
    opens, faults, crashes, unlinks, punches, marks

diskVars == <<data, used, path, meta, tmp, flock>>
entVars  == <<up, ino, gen, view, setSince, clearedSince, pin, pinTouched, dirty>>
flushVars == <<snap, delta, out, merged, stored, fd>>
thrVars  == <<pc, then, pages, expect, got, flushVars>>
bounds   == <<opens, faults, crashes, unlinks, punches, marks>>
vars     == <<diskVars, entVars, thrVars, ev, bounds>>

Bits  == [Pages -> Gens \cup {None}]
Image == [gen : Gens, crc : Bits, pin : BOOLEAN]
NoBits == [p \in Pages |-> None]
NoDelta == [set |-> {}, clr |-> {}, pin |-> FALSE]

\* Any image will do where none has been read yet.
Blank == [gen |-> CHOOSE g \in Gens : TRUE, crc |-> NoBits, pin |-> FALSE]

Init ==
    /\ data = [i \in Inodes |-> NoBits]
    /\ used = {} /\ path = None /\ meta = None /\ tmp = None
    /\ flock = [i \in Inodes |-> None]
    /\ up = [e \in Entries |-> "closed"]
    /\ ino = [e \in Entries |-> None]
    /\ gen = [e \in Entries |-> Blank.gen]
    /\ view = [e \in Entries |-> NoBits]
    /\ setSince = [e \in Entries |-> {}]
    /\ clearedSince = [e \in Entries |-> {}]
    /\ pin = [e \in Entries |-> FALSE]
    /\ pinTouched = [e \in Entries |-> FALSE]
    /\ dirty = [e \in Entries |-> FALSE]
    /\ pc = [t \in Threads |-> "idle"]
    /\ then = [t \in Threads |-> "idle"]
    /\ pages = [t \in Threads |-> {}]
    /\ expect = [t \in Threads |-> None]
    /\ got = [t \in Threads |-> None]
    /\ snap = [t \in Threads |-> Blank]
    /\ delta = [t \in Threads |-> NoDelta]
    /\ out = [t \in Threads |-> Blank]
    /\ merged = [t \in Threads |-> FALSE]
    /\ stored = [t \in Threads |-> FALSE]
    /\ fd = [t \in Threads |-> "gone"]
    /\ ev = "idle"
    /\ opens = 0 /\ faults = 0 /\ crashes = 0 /\ unlinks = 0 /\ punches = 0 /\ marks = 0

-----------------------------------------------------------------------------
(* The sidecar image and the in-memory view.                               *)

\* Mutant: any sidecar that loads is adopted.
AdoptableAny(img, g) == img \notin {None, Torn}

\* adoptable(): the image deserializes and its validators are those of g.
Adoptable(img, g) == img \notin {None, Torn} /\ img.gen = g

\* Mutant: the handle's whole view replaces the image.
MergeWhole(disk, d, s) == s
\* flushMeta()'s merge: the image on disk with this handle's changes applied.
Merge(disk, d, s) ==
    [disk EXCEPT !.crc = [p \in Pages |-> CASE p \in d.clr -> None
                                            [] p \in d.set \ d.clr -> s.crc[p]
                                            [] OTHER -> disk.crc[p]],
                 !.pin = IF d.pin THEN s.pin ELSE disk.pin]

\* publishPage() and retractPage() for a set of pages.
PublishPages(e, S) ==
    /\ view' = [view EXCEPT ![e] = [p \in Pages |-> IF p \in S THEN gen[e] ELSE view[e][p]]]
    /\ setSince' = [setSince EXCEPT ![e] = @ \cup S]
    /\ clearedSince' = [clearedSince EXCEPT ![e] = @ \ S]

RetractPages(e, S) ==
    /\ view' = [view EXCEPT ![e] = [p \in Pages |-> IF p \in S THEN None ELSE view[e][p]]]
    /\ clearedSince' = [clearedSince EXCEPT ![e] = @ \cup S]
    /\ setSince' = [setSince EXCEPT ![e] = @ \ S]

Present(e) == {p \in Pages : view[e][p] # None}

\* LOCK_UN on e's descriptor: whichever of e's threads took the lock.
Released(e) == [flock EXCEPT ![ino[e]] = IF @ = e THEN None ELSE @]

\* The FileEntry object (or the CLI's descriptor) is gone.
Destroyed(e) ==
    /\ up' = [up EXCEPT ![e] = "closed"]
    /\ ino' = [ino EXCEPT ![e] = None]
    /\ gen' = [gen EXCEPT ![e] = Blank.gen]
    /\ view' = [view EXCEPT ![e] = NoBits]
    /\ setSince' = [setSince EXCEPT ![e] = {}]
    /\ clearedSince' = [clearedSince EXCEPT ![e] = {}]
    /\ pin' = [pin EXCEPT ![e] = FALSE]
    /\ pinTouched' = [pinTouched EXCEPT ![e] = FALSE]
    /\ dirty' = [dirty EXCEPT ![e] = FALSE]

\* The locals of a commit (or of every commit of T) go out of scope.
Returned(T) ==
    /\ snap' = [t \in Threads |-> IF t \in T THEN Blank ELSE snap[t]]
    /\ delta' = [t \in Threads |-> IF t \in T THEN NoDelta ELSE delta[t]]
    /\ out' = [t \in Threads |-> IF t \in T THEN Blank ELSE out[t]]
    /\ merged' = [t \in Threads |-> t \notin T /\ merged[t]]
    /\ stored' = [t \in Threads |-> t \notin T /\ stored[t]]
    /\ fd' = [t \in Threads |-> IF t \in T THEN "gone" ELSE fd[t]]

Goto(t, label) == pc' = [pc EXCEPT ![t] = label]
Fault == faults < MaxFaults /\ faults' = faults + 1
Mark == marks < MaxMarks /\ marks' = marks + 1
Dies == crashes < MaxCrashes /\ crashes' = crashes + 1

-----------------------------------------------------------------------------
(* FileEntry::open                                                         *)

Adopt(e) ==
    /\ view' = [view EXCEPT ![e] = meta.crc]
    /\ pin' = [pin EXCEPT ![e] = meta.pin]
    /\ up' = [up EXCEPT ![e] = "open"]
    /\ UNCHANGED <<ino, gen, setSince, clearedSince, pinTouched, dirty>>

\* open(O_RDWR | O_CREAT): the path's inode, or a new empty one.
OpenCreate(t, g) ==
    LET e == EntryOf[t] IN
    /\ up[e] = "closed" /\ opens < MaxOpens
    /\ opens' = opens + 1
    /\ \/ path # None /\ UNCHANGED <<path, used>>
       \/ /\ path = None
          /\ \E i \in Inodes \ used : path' = i /\ used' = used \cup {i}
    /\ up' = [up EXCEPT ![e] = "opening"]
    /\ ino' = [ino EXCEPT ![e] = path']
    /\ gen' = [gen EXCEPT ![e] = g]
    /\ Goto(t, "openLoad")
    /\ UNCHANGED <<data, meta, tmp, flock, view, setSince, clearedSince, pin, pinTouched,
                   dirty, then, pages, expect, got,
                   flushVars, ev, faults, crashes, unlinks, punches, marks>>

\* The load under the shared lock; adopt what it finds, or go exclusive.
OpenLoad(t) ==
    LET e == EntryOf[t] IN
    /\ pc[t] = "openLoad"
    /\ flock[ino[e]] = None
    /\ IF Adoptable(meta, gen[e])
       THEN Adopt(e) /\ Goto(t, "idle")
       ELSE Goto(t, "openLock") /\ UNCHANGED entVars
    /\ UNCHANGED <<diskVars, then, pages, expect, got, flushVars, ev, bounds>>

OpenLock(t) ==
    LET e == EntryOf[t] IN
    /\ pc[t] = "openLock"
    /\ flock[ino[e]] = None
    /\ flock' = [flock EXCEPT ![ino[e]] = e]
    /\ Goto(t, "openReload")
    /\ UNCHANGED <<data, used, path, meta, tmp, entVars, then, pages, expect, got,
                   flushVars, ev, bounds>>

\* The second load, under the exclusive lock: adopt, or truncate and start
\* a fresh sidecar.  A failing ftruncate gives the open up.
OpenReload(t) ==
    LET e == EntryOf[t] IN
    /\ pc[t] = "openReload"
    /\ \/ /\ Adoptable(meta, gen[e])
          /\ Adopt(e)
          /\ flock' = Released(e)
          /\ Goto(t, "idle")
          /\ UNCHANGED <<data, out, faults>>
       \/ /\ ~Adoptable(meta, gen[e])
          /\ data' = [data EXCEPT ![ino[e]] = NoBits]
          /\ view' = [view EXCEPT ![e] = NoBits]
          /\ pin' = [pin EXCEPT ![e] = FALSE]
          /\ out' = [out EXCEPT ![t] = [gen |-> gen[e], crc |-> NoBits, pin |-> FALSE]]
          /\ Goto(t, "storeOpen")
          /\ UNCHANGED <<up, ino, gen, setSince, clearedSince, pinTouched, dirty,
                         flock, faults>>
       \/ /\ ~Adoptable(meta, gen[e])
          /\ Fault
          /\ data' \in {data, [data EXCEPT ![ino[e]] = NoBits]}
          /\ Destroyed(e)
          /\ flock' = Released(e)
          /\ Goto(t, "idle")
          /\ UNCHANGED out
    /\ UNCHANGED <<used, path, meta, tmp, then, pages, expect, got, snap, delta,
                   merged, stored, fd, ev, opens, crashes, unlinks, punches, marks>>

\* The empty sidecar was stored, or the entry stays dirty; the object is ready.
OpenStored(t) ==
    LET e == EntryOf[t] IN
    /\ pc[t] = "stored" /\ up[e] = "opening"
    /\ dirty' = [dirty EXCEPT ![e] = ~stored[t]]
    /\ up' = [up EXCEPT ![e] = "open"]
    /\ Goto(t, "idle")
    /\ Returned({t})
    /\ UNCHANGED <<diskVars, ino, gen, view, setSince, clearedSince, pin, pinTouched,
                   then, pages, expect, got, ev, bounds>>

-----------------------------------------------------------------------------
(* MetaFile::store: write <path>.tmp, then rename it over the sidecar.  An *)
(* open descriptor follows the file it opened, whatever the paths become.  *)

Unlinked(name) == [u \in Threads |-> IF fd[u] = name THEN "gone" ELSE fd[u]]

StoreFails(t) ==
    /\ Fault
    /\ tmp' = None
    /\ fd' = [Unlinked("tmp") EXCEPT ![t] = "gone"]
    /\ stored' = [stored EXCEPT ![t] = FALSE]
    /\ flock' = Released(EntryOf[t])
    /\ Goto(t, "stored")

\* open(O_CREAT | O_TRUNC): a file another thread has open there is emptied.
StoreOpen(t) ==
    /\ pc[t] = "storeOpen"
    /\ \/ /\ tmp' = Torn
          /\ fd' = [fd EXCEPT ![t] = "tmp"]
          /\ Goto(t, "storeWrite")
          /\ UNCHANGED <<stored, flock, faults>>
       \/ /\ Fault
          /\ stored' = [stored EXCEPT ![t] = FALSE]
          /\ flock' = Released(EntryOf[t])
          /\ Goto(t, "stored")
          /\ UNCHANGED <<tmp, fd>>
    /\ UNCHANGED <<data, used, path, meta, entVars, then, pages, expect, got, snap,
                   delta, out, merged, ev, opens, crashes, unlinks, punches, marks>>

\* Mutant: the result of the write is not looked at.
StoreWriteUnchecked(t) ==
    /\ pc[t] = "storeWrite"
    /\ tmp' \in {out[t], Torn}
    /\ Goto(t, "storeRename")
    /\ UNCHANGED <<data, used, path, meta, flock, entVars, then, pages, expect, got,
                   flushVars, ev, bounds>>

StoreWrite(t) ==
    /\ pc[t] = "storeWrite"
    /\ \/ /\ tmp' = IF fd[t] = "tmp" THEN out[t] ELSE tmp
          /\ meta' = IF fd[t] = "meta" THEN out[t] ELSE meta
          /\ Goto(t, "storeRename")
          /\ UNCHANGED <<fd, stored, flock, faults>>
       \/ /\ StoreFails(t)
          /\ meta' \in IF fd[t] = "meta" THEN {meta, Torn} ELSE {meta}
    /\ UNCHANGED <<data, used, path, entVars, then, pages, expect, got, snap,
                   delta, out, merged, ev, opens, crashes, unlinks, punches, marks>>

\* rename(), then LOCK_UN.  Without a file at the tmp path rename fails.
StoreRename(t) ==
    /\ pc[t] = "storeRename"
    /\ \/ /\ tmp # None
          /\ meta' = tmp
          /\ tmp' = None
          /\ fd' = [u \in Threads |-> IF u # t /\ fd[u] = "tmp" THEN "meta" ELSE "gone"]
          /\ stored' = [stored EXCEPT ![t] = TRUE]
          /\ flock' = Released(EntryOf[t])
          /\ Goto(t, "stored")
          /\ UNCHANGED faults
       \/ /\ tmp = None
          /\ fd' = [fd EXCEPT ![t] = "gone"]
          /\ stored' = [stored EXCEPT ![t] = FALSE]
          /\ flock' = Released(EntryOf[t])
          /\ Goto(t, "stored")
          /\ UNCHANGED <<meta, tmp, faults>>
       \/ StoreFails(t) /\ UNCHANGED meta
    /\ UNCHANGED <<data, used, path, entVars, then, pages, expect, got, snap,
                   delta, out, merged, ev, opens, crashes, unlinks, punches, marks>>

-----------------------------------------------------------------------------
(* flushMeta                                                               *)

\* Under mu_: nothing to do, or snapshot meta_ and take the deltas.
FlushSnapshot(t) ==
    LET e == EntryOf[t] IN
    /\ pc[t] = "flush"
    /\ IF ~dirty[e]
       THEN Goto(t, then[t]) /\ UNCHANGED <<entVars, snap, delta>>
       ELSE /\ snap' = [snap EXCEPT ![t] = [gen |-> gen[e], crc |-> view[e], pin |-> pin[e]]]
            /\ delta' = [delta EXCEPT ![t] = [set |-> setSince[e], clr |-> clearedSince[e],
                                              pin |-> pinTouched[e]]]
            /\ setSince' = [setSince EXCEPT ![e] = {}]
            /\ clearedSince' = [clearedSince EXCEPT ![e] = {}]
            /\ pinTouched' = [pinTouched EXCEPT ![e] = FALSE]
            /\ dirty' = [dirty EXCEPT ![e] = FALSE]
            /\ Goto(t, "flushLock")
            /\ UNCHANGED <<up, ino, gen, view, pin>>
    /\ UNCHANGED <<diskVars, then, pages, expect, got, out, merged, stored, fd, ev, bounds>>

\* flock(LOCK_EX) excludes other descriptors, not another thread of this
\* entry.  Evicted while open (st_nlink = 0): unlock, store nothing.
FlushLock(t) ==
    LET e == EntryOf[t] IN
    /\ pc[t] = "flushLock"
    /\ flock[ino[e]] \in {None, e}
    /\ \/ /\ path = ino[e]
          /\ flock' = [flock EXCEPT ![ino[e]] = e]
          /\ Goto(t, "flushLoad")
          /\ UNCHANGED flushVars
       \/ /\ path # ino[e]
          /\ flock' = [flock EXCEPT ![ino[e]] = None]
          /\ Goto(t, then[t])
          /\ Returned({t})
    /\ UNCHANGED <<data, used, path, meta, tmp, entVars, then, pages, expect, got,
                   ev, bounds>>

\* Re-read the image on disk and merge into it, or take this view whole.
FlushLoad(t) ==
    LET fromDisk == Adoptable(meta, snap[t].gen) IN
    /\ pc[t] = "flushLoad"
    /\ out' = [out EXCEPT ![t] = IF fromDisk THEN Merge(meta, delta[t], snap[t]) ELSE snap[t]]
    /\ merged' = [merged EXCEPT ![t] = fromDisk]
    /\ Goto(t, "storeOpen")
    /\ UNCHANGED <<diskVars, entVars, then, pages, expect, got, snap, delta, stored,
                   fd, ev, bounds>>

\* Re-arm the deltas of a store that failed, except where a newer opposite
\* transition happened since.
Rearm(e, d) ==
    /\ dirty' = [dirty EXCEPT ![e] = TRUE]
    /\ setSince' = [setSince EXCEPT ![e] = @ \cup (d.set \ clearedSince[e])]
    /\ clearedSince' = [clearedSince EXCEPT ![e] = @ \cup (d.clr \ setSince'[e])]
    /\ pinTouched' = [pinTouched EXCEPT ![e] = @ \/ d.pin]
    /\ UNCHANGED <<view, pin>>

\* Adopt the committed image for the pages untouched since the snapshot.
AdoptCommitted(e, img) ==
    /\ view' = [view EXCEPT ![e] = [p \in Pages |->
                  IF p \in setSince[e] \cup clearedSince[e] THEN view[e][p] ELSE img.crc[p]]]
    /\ pin' = [pin EXCEPT ![e] = IF pinTouched[e] THEN @ ELSE img.pin]
    /\ UNCHANGED <<setSince, clearedSince, pinTouched, dirty>>

FlushStored(t) ==
    LET e == EntryOf[t] IN
    /\ pc[t] = "stored" /\ up[e] \in {"open", "closing"}
    /\ \/ ~stored[t] /\ Rearm(e, delta[t])
       \/ stored[t] /\ merged[t] /\ AdoptCommitted(e, out[t])
       \/ /\ stored[t] /\ ~merged[t]
          /\ UNCHANGED <<view, setSince, clearedSince, pin, pinTouched, dirty>>
    /\ Goto(t, then[t])
    /\ Returned({t})
    /\ UNCHANGED <<diskVars, up, ino, gen, then, pages, expect, got, ev, bounds>>

-----------------------------------------------------------------------------
(* What the threads of an open entry do.  After an operation the interval  *)
(* policy may or may not let flushMeta(false) run.                         *)

Idle(t) == pc[t] = "idle" /\ up[EntryOf[t]] = "open"
Continue(t, label) == then' = [then EXCEPT ![t] = label]

\* A fill: the drain of the stage, or writePagesDirect.  A page that was absent
\* when it was staged may have come in through a sibling's commit by now.
WriteStart(t, S) ==
    /\ Idle(t) /\ S # {}
    /\ pages' = [pages EXCEPT ![t] = S]
    /\ Goto(t, "write")
    /\ UNCHANGED <<diskVars, entVars, then, expect, got, flushVars, ev, bounds>>

\* pwrite and fdatasync.  An error leaves some of the bytes written and only
\* the runs completed before it (or none, if the sync failed) to publish.
WriteData(t) ==
    LET e == EntryOf[t] IN
    /\ pc[t] = "write"
    /\ \E written \in SUBSET pages[t], keep \in SUBSET pages[t] :
          /\ keep \subseteq written
          /\ \/ keep = pages[t] /\ UNCHANGED faults
             \/ keep # pages[t] /\ Fault
          /\ data' = [data EXCEPT ![ino[e]] =
                        [p \in Pages |-> IF p \in written THEN gen[e] ELSE @[p]]]
          /\ pages' = [pages EXCEPT ![t] = keep]
    /\ Goto(t, "publish")
    /\ UNCHANGED <<used, path, meta, tmp, flock, entVars, then, expect, got, flushVars,
                   ev, opens, crashes, unlinks, punches, marks>>

Publish(t) ==
    LET e == EntryOf[t] IN
    /\ pc[t] = "publish"
    /\ PublishPages(e, pages[t])
    /\ dirty' = [dirty EXCEPT ![e] = @ \/ pages[t] # {}]
    /\ \E next \in {"idle", "flush"} : Goto(t, next)
    /\ pages' = [pages EXCEPT ![t] = {}]
    /\ UNCHANGED <<diskVars, up, ino, gen, pin, pinTouched, then, expect, got, flushVars, ev,
                   bounds>>

\* releaseRanges: retract the bits, force-flush, then punch.
ReleaseStart(t, S) ==
    LET e == EntryOf[t] IN
    /\ Idle(t) /\ S # {} /\ punches < MaxPunches
    /\ punches' = punches + 1
    /\ RetractPages(e, S \cap Present(e))
    /\ dirty' = [dirty EXCEPT ![e] = @ \/ S \cap Present(e) # {}]
    /\ pages' = [pages EXCEPT ![t] = S]
    /\ Continue(t, "punch")
    /\ Goto(t, "flush")
    /\ UNCHANGED <<diskVars, up, ino, gen, pin, pinTouched, expect, got, flushVars, ev,
                   opens, faults, crashes, unlinks, marks>>

\* A filesystem without punch support leaves the bytes.
Punch(t) ==
    LET e == EntryOf[t] IN
    /\ pc[t] = "punch"
    /\ data' \in {data, [data EXCEPT ![ino[e]] =
                           [p \in Pages |-> IF p \in pages[t] THEN None ELSE @[p]]]}
    /\ pages' = [pages EXCEPT ![t] = {}]
    /\ Goto(t, "idle") /\ Continue(t, "idle")
    /\ UNCHANGED <<used, path, meta, tmp, flock, entVars, expect, got, flushVars,
                   ev, bounds>>

\* setPinned, and touchAtime followed by a flush.
SetPinned(t, b) ==
    LET e == EntryOf[t] IN
    /\ Idle(t) /\ Mark
    /\ pin' = [pin EXCEPT ![e] = b]
    /\ pinTouched' = [pinTouched EXCEPT ![e] = TRUE]
    /\ dirty' = [dirty EXCEPT ![e] = TRUE]
    /\ Goto(t, "flush")
    /\ UNCHANGED <<diskVars, up, ino, gen, view, setSince, clearedSince, pages, then, expect,
                   got, flushVars, ev, opens, faults, crashes,
                   unlinks, punches>>

TouchAtime(t) ==
    /\ Idle(t) /\ Mark
    /\ dirty' = [dirty EXCEPT ![EntryOf[t]] = TRUE]
    /\ Goto(t, "flush")
    /\ UNCHANGED <<diskVars, up, ino, gen, view, setSince, clearedSince, pin, pinTouched,
                   then, pages, expect, got, flushVars, ev, opens, faults, crashes,
                   unlinks, punches>>

\* readCached plans under mu_: the page and the CRC it must have.
ReadPlan(t, p) ==
    /\ Idle(t)
    /\ p \in Present(EntryOf[t])
    /\ pages' = [pages EXCEPT ![t] = {p}]
    /\ expect' = [expect EXCEPT ![t] = view[EntryOf[t]][p]]
    /\ Goto(t, "read")
    /\ UNCHANGED <<diskVars, entVars, then, got, flushVars, ev, bounds>>

\* Mutant: only holes are recognised.
VerifiesNonZero(bytes, crc) == bytes # None

\* The per-page CRC of readVerifyRun.
Verifies(bytes, crc) == bytes = crc

\* The pread and the CRC check run outside mu_.  A page that fails is
\* demoted (the scrub, verifyAll, then flushes); a transient error that has
\* cleared by the page-by-page re-read only fails the request.
ReadDisk(t) ==
    LET e == EntryOf[t]
        bytes == data[ino[e]][CHOOSE p \in pages[t] : TRUE]
    IN
    /\ pc[t] = "read"
    /\ \/ /\ Verifies(bytes, expect[t])
          /\ got' = [got EXCEPT ![t] = bytes]
          /\ Goto(t, "served")
          /\ UNCHANGED <<entVars, then, faults>>
       \/ /\ ~Verifies(bytes, expect[t])
          /\ RetractPages(e, pages[t])
          /\ dirty' = [dirty EXCEPT ![e] = TRUE]
          /\ \E next \in {"idle", "flush"} : Goto(t, next)
          /\ UNCHANGED <<up, ino, gen, pin, pinTouched, got, then, faults>>
       \/ /\ Fault
          /\ Goto(t, "idle")
          /\ UNCHANGED <<entVars, then, got>>
    /\ pages' = [pages EXCEPT ![t] = {}]
    /\ expect' = [expect EXCEPT ![t] = None]
    /\ UNCHANGED <<diskVars, flushVars, ev, opens, crashes, unlinks, punches, marks>>

\* The caller has its bytes.
Return(t) ==
    /\ pc[t] = "served"
    /\ got' = [got EXCEPT ![t] = None]
    /\ Goto(t, "idle")
    /\ UNCHANGED <<diskVars, entVars, then, pages, expect, flushVars, ev, bounds>>

\* ~FileEntry: the last reference is dropped, so no other thread is inside.
CloseStart(t) ==
    LET e == EntryOf[t] IN
    /\ up[e] = "open"
    /\ \A u \in Threads : EntryOf[u] = e => pc[u] = "idle"
    /\ up' = [up EXCEPT ![e] = "closing"]
    /\ Continue(t, "close")
    /\ Goto(t, "flush")
    /\ UNCHANGED <<diskVars, ino, gen, view, setSince, clearedSince, pin, pinTouched,
                   dirty, pages, expect, got, flushVars, ev, bounds>>

Close(t) ==
    /\ pc[t] = "close"
    /\ Destroyed(EntryOf[t])
    /\ Goto(t, "idle") /\ Continue(t, "idle")
    /\ UNCHANGED <<diskVars, pages, expect, got, flushVars, ev, bounds>>

\* The process dies: its memory is gone, its locks are dropped, files stay.
Crash(e) ==
    LET mine == {t \in Threads : EntryOf[t] = e} IN
    /\ up[e] # "closed"
    /\ Dies
    /\ flock' = Released(e)
    /\ Destroyed(e)
    /\ pc' = [t \in Threads |-> IF t \in mine THEN "idle" ELSE pc[t]]
    /\ then' = [t \in Threads |-> IF t \in mine THEN "idle" ELSE then[t]]
    /\ pages' = [t \in Threads |-> IF t \in mine THEN {} ELSE pages[t]]
    /\ expect' = [t \in Threads |-> IF t \in mine THEN None ELSE expect[t]]
    /\ got' = [t \in Threads |-> IF t \in mine THEN None ELSE got[t]]
    /\ Returned(mine)
    /\ UNCHANGED <<data, used, path, meta, tmp, ev, opens, faults, unlinks, punches, marks>>

-----------------------------------------------------------------------------
(* CacheStore::setPinnedByKey on an entry this process does not hold: the  *)
(* sidecar's flag is rewritten under the entry lock.                       *)

PinOpen(t, b) ==
    LET e == EntryOf[t] IN
    /\ up[e] = "closed" /\ path # None /\ Mark
    /\ up' = [up EXCEPT ![e] = "pinning"]
    /\ ino' = [ino EXCEPT ![e] = path]
    /\ pin' = [pin EXCEPT ![e] = b]
    /\ Goto(t, "pinLock")
    /\ UNCHANGED <<diskVars, gen, view, setSince, clearedSince, pinTouched, dirty, then,
                   pages, expect, got, flushVars, ev, opens, faults, crashes, unlinks,
                   punches>>

\* flock, then fstat: an entry evicted since the open is left alone.
PinLock(t) ==
    LET e == EntryOf[t] IN
    /\ pc[t] = "pinLock"
    /\ flock[ino[e]] = None
    /\ \/ /\ path = ino[e]
          /\ flock' = [flock EXCEPT ![ino[e]] = e]
          /\ Goto(t, "pinLoad")
          /\ UNCHANGED entVars
       \/ /\ path # ino[e]
          /\ Destroyed(e)
          /\ Goto(t, "idle")
          /\ UNCHANGED flock
    /\ UNCHANGED <<data, used, path, meta, tmp, then, pages, expect, got, flushVars, ev,
                   bounds>>

PinLoad(t) ==
    LET e == EntryOf[t] IN
    /\ pc[t] = "pinLoad"
    /\ \/ /\ meta \in {None, Torn}
          /\ flock' = Released(e)
          /\ Destroyed(e)
          /\ Goto(t, "idle")
          /\ UNCHANGED out
       \/ /\ meta \notin {None, Torn}
          /\ out' = [out EXCEPT ![t] = [meta EXCEPT !.pin = pin[e]]]
          /\ Goto(t, "storeOpen")
          /\ UNCHANGED <<flock, entVars>>
    /\ UNCHANGED <<data, used, path, meta, tmp, then, pages, expect, got, snap, delta,
                   merged, stored, fd, ev, bounds>>

PinStored(t) ==
    /\ pc[t] = "stored" /\ up[EntryOf[t]] = "pinning"
    /\ Destroyed(EntryOf[t])
    /\ Goto(t, "idle")
    /\ Returned({t})
    /\ UNCHANGED <<diskVars, then, pages, expect, got, ev, bounds>>

-----------------------------------------------------------------------------
(* Another process removes the entry: .data first, then .meta, without the *)
(* entry lock.  evictNow and cleanup re-check the pin and stop if .data    *)
(* cannot be unlinked; invalidate does neither.                            *)

EvictCheck ==
    /\ ev = "idle" /\ unlinks < MaxUnlinks
    /\ unlinks' = unlinks + 1
    /\ meta \notin {None, Torn} /\ ~meta.pin
    /\ ev' = "evictData"
    /\ UNCHANGED <<diskVars, entVars, thrVars, opens, faults, crashes, punches, marks>>

InvalidateStart ==
    /\ ev = "idle" /\ unlinks < MaxUnlinks
    /\ unlinks' = unlinks + 1
    /\ ev' = "invalidateData"
    /\ UNCHANGED <<diskVars, entVars, thrVars, opens, faults, crashes, punches, marks>>

UnlinkData ==
    /\ ev \in {"evictData", "invalidateData"}
    /\ path' = None
    /\ ev' = IF ev = "evictData" /\ path = None THEN "idle" ELSE "meta"
    /\ UNCHANGED <<data, used, meta, tmp, flock, entVars, thrVars, bounds>>

UnlinkMeta ==
    /\ ev = "meta"
    /\ meta' = None
    /\ fd' = Unlinked("meta")
    /\ ev' = "idle"
    /\ UNCHANGED <<data, used, path, tmp, flock, entVars, pc, then, pages, expect, got,
                   snap, delta, out, merged, stored, bounds>>

EvictorCrash ==
    /\ ev # "idle"
    /\ Dies
    /\ ev' = "idle"
    /\ UNCHANGED <<diskVars, entVars, thrVars, opens, faults, unlinks, punches, marks>>

-----------------------------------------------------------------------------
Opening(t) == \/ \E g \in Gens : OpenCreate(t, g)
              \/ OpenLoad(t) \/ OpenLock(t) \/ OpenReload(t) \/ OpenStored(t)
Storing(t) == StoreOpen(t) \/ StoreWrite(t) \/ StoreRename(t)
Flushing(t) == FlushSnapshot(t) \/ FlushLock(t) \/ FlushLoad(t) \/ FlushStored(t)
Filling(t) == \/ \E S \in SUBSET Pages : WriteStart(t, S)
              \/ WriteData(t) \/ Publish(t)
Releasing(t) == (\E S \in SUBSET Pages : ReleaseStart(t, S)) \/ Punch(t)
Reading(t) == (\E p \in Pages : ReadPlan(t, p)) \/ ReadDisk(t) \/ Return(t)
Marking(t) == (\E b \in BOOLEAN : SetPinned(t, b)) \/ TouchAtime(t)
Closing(t) == CloseStart(t) \/ Close(t)
PinningByKey(t) == \/ \E b \in BOOLEAN : PinOpen(t, b)
                   \/ PinLock(t) \/ PinLoad(t) \/ PinStored(t)
Unlinking == EvictCheck \/ InvalidateStart \/ UnlinkData \/ UnlinkMeta \/ EvictorCrash

Next ==
    \/ \E t \in Threads : \/ Opening(t) \/ Storing(t) \/ Flushing(t) \/ Filling(t)
                          \/ Releasing(t) \/ Reading(t) \/ Marking(t) \/ Closing(t)
                          \/ PinningByKey(t)
    \/ \E e \in Entries : Crash(e)
    \/ Unlinking

Spec == Init /\ [][Next]_vars

-----------------------------------------------------------------------------
(* Properties                                                              *)

Label == {"idle", "openLoad", "openLock", "openReload", "storeOpen", "storeWrite",
          "storeRename", "stored", "flush", "flushLock", "flushLoad", "write", "publish",
          "punch", "read", "served", "close", "pinLock", "pinLoad"}

\* The type of every variable (the locals of FileEntry.cc's functions and
\* the files of FORMAT.md's layout).
TypeOK ==
    /\ data \in [Inodes -> Bits]
    /\ used \subseteq Inodes /\ path \in Inodes \cup {None}
    /\ meta \in Image \cup {None, Torn} /\ tmp \in Image \cup {None, Torn}
    /\ flock \in [Inodes -> Entries \cup {None}]
    /\ up \in [Entries -> {"closed", "opening", "open", "closing", "pinning"}]
    /\ ino \in [Entries -> Inodes \cup {None}]
    /\ gen \in [Entries -> Gens]
    /\ view \in [Entries -> Bits]
    /\ setSince \in [Entries -> SUBSET Pages]
    /\ clearedSince \in [Entries -> SUBSET Pages]
    /\ pin \in [Entries -> BOOLEAN] /\ pinTouched \in [Entries -> BOOLEAN]
    /\ dirty \in [Entries -> BOOLEAN]
    /\ pc \in [Threads -> Label]
    /\ then \in [Threads -> {"idle", "punch", "close"}]
    /\ pages \in [Threads -> SUBSET Pages]
    /\ expect \in [Threads -> Gens \cup {None}] /\ got \in [Threads -> Gens \cup {None}]
    /\ snap \in [Threads -> Image] /\ out \in [Threads -> Image]
    /\ delta \in [Threads -> [set : SUBSET Pages, clr : SUBSET Pages, pin : BOOLEAN]]
    /\ merged \in [Threads -> BOOLEAN] /\ stored \in [Threads -> BOOLEAN]
    /\ fd \in [Threads -> {"tmp", "meta", "gone"}]
    /\ ev \in {"idle", "evictData", "invalidateData", "meta"}
    /\ opens \in Nat /\ faults \in Nat /\ crashes \in Nat
    /\ unlinks \in Nat /\ punches \in Nat /\ marks \in Nat

\* readCached (FileEntry.cc:326) hands out only bytes of the generation the
\* entry was opened for, whatever was punched, truncated, evicted, re-created
\* or overwritten by a handle of another generation since the plan was made.
ServedOrigin == \A t \in Threads : got[t] # None => got[t] = gen[EntryOf[t]]

\* adoptable() (FileEntry.cc:135) keeps generations apart: a sidecar image never
\* mixes the CRCs of two generations, and a handle's view, the CRC a read expects
\* and an image a handle merges into are of the generation it was opened for.
OneGeneration(img) == \A p \in Pages : img.crc[p] \in {None, img.gen}

OwnGeneration ==
    /\ meta \notin {None, Torn} => OneGeneration(meta)
    /\ tmp \notin {None, Torn} => OneGeneration(tmp)
    /\ \A e \in Entries : \A p \in Pages : view[e][p] \in {None, gen[e]}
    /\ \A t \in Threads :
          /\ OneGeneration(snap[t]) /\ OneGeneration(out[t])
          /\ pc[t] \in {"flushLock", "flushLoad"} => snap[t].gen = gen[EntryOf[t]]
          /\ merged[t] => out[t].gen = gen[EntryOf[t]]
          /\ expect[t] \in {None, gen[EntryOf[t]]}

\* flushBuffer's "data before bit" (FileEntry.cc:863): until the first release
\* and the first failed call, and while nothing is unlinked, a bit in the sidecar
\* or in the view of a handle is over bytes on disk, though processes may die
\* between any two steps of a fill, a merge or an open.
BitsHaveData ==
    LET held(i, bits) == \A p \in Pages : bits[p] # None => data[i][p] = bits[p] IN
    punches = 0 /\ faults = 0 /\ unlinks = 0 =>
        /\ path # None /\ meta \notin {None, Torn} => held(path, meta.crc)
        /\ \A e \in Entries : up[e] \in {"open", "closing"} => held(ino[e], view[e])

-----------------------------------------------------------------------------
(* The sidecar as EntryContents describes it.  A handle's waiting changes  *)
(* are its deltas and those of a commit that has not stored yet.           *)

Committing(e) ==
    {t \in Threads : /\ EntryOf[t] = e /\ up[e] \in {"open", "closing"}
                     /\ \/ pc[t] \in {"flushLock", "flushLoad", "storeOpen",
                                       "storeWrite", "storeRename"}
                        \/ pc[t] = "stored" /\ ~stored[t]}

WaitingSet(e) ==
    setSince[e] \cup UNION {delta[t].set \ clearedSince[e] : t \in Committing(e)}
WaitingClear(e) ==
    clearedSince[e] \cup UNION {delta[t].clr \ setSince[e] : t \in Committing(e)}
WaitingPin(e) ==
    IF pinTouched[e] \/ \E t \in Committing(e) : delta[t].pin THEN pin[e] ELSE None

Contents == INSTANCE EntryContents WITH
    record  <- IF meta \in {None, Torn} THEN None
               ELSE [on |-> {p \in Pages : meta.crc[p] # None}, pin |-> meta.pin],
    held    <- {e \in Entries : up[e] \in {"open", "closing"}},
    toSet   <- [e \in Entries |-> WaitingSet(e)],
    toClear <- [e \in Entries |-> WaitingClear(e)],
    toPin   <- [e \in Entries |-> WaitingPin(e)]

\* "The sidecar is shared state and is COMMITTED, never replaced" (FileEntry.h:32):
\* every change of the sidecar is one handle's pages and pin applied to the image
\* as it stands, so no commit undoes what a sibling committed.
CommitsAreAtomic == Contents!Spec

\* "Sidecar rewrites are atomic" (FORMAT.md:59): the .meta path never names a file
\* that is still being written or was left half written.
SidecarWhole == meta # Torn

\* What a process that opens the entry finds can be relied on: the sidecar is whole,
\* and a page it names has its bytes on disk.
SidecarTrue == SidecarWhole /\ BitsHaveData
=============================================================================
