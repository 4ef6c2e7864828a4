--------------------------- MODULE FileEntryProofs ---------------------------
(***************************************************************************)
(* Proofs about FileEntry: the type invariant, and that a read is only     *)
(* ever served bytes of the generation its handle was opened for.          *)
(***************************************************************************)
EXTENDS FileEntry, TLAPS

USE DEF diskVars, entVars, flushVars, thrVars, bounds

-----------------------------------------------------------------------------
(* Type correctness.                                                       *)

LEMMA BlankType == Blank \in Image /\ Blank.gen \in Gens /\ NoBits \in Bits
BY ConstantsAssumption DEF Blank, Image, NoBits, Bits

LEMMA InitType == Init => TypeOK
BY BlankType, ConstantsAssumption DEF Init, TypeOK, Label, NoDelta, Bits, NoBits

\* A merged image is an image.
LEMMA MergeType ==
    ASSUME NEW disk \in Image, NEW s \in Image,
           NEW d \in [set : SUBSET Pages, clr : SUBSET Pages, pin : BOOLEAN]
    PROVE  Merge(disk, d, s) \in Image
BY Zenon DEF Merge, Image, Bits

\* The sidecar on disk is an image once None and Torn are excluded.
LEMMA ImageFields ==
    ASSUME NEW img \in Image
    PROVE  img.gen \in Gens /\ img.crc \in Bits /\ img.pin \in BOOLEAN
BY DEF Image

LEMMA AdoptableType ==
    ASSUME TypeOK, NEW g, Adoptable(meta, g)
    PROVE  meta \in Image /\ meta.gen = g /\ meta.crc \in Bits /\ meta.pin \in BOOLEAN
BY ImageFields DEF TypeOK, Adoptable

\* The conjuncts of TypeOK about the variables of an entry, and about the
\* locals of a commit.
EntryTypes ==
    /\ up \in [Entries -> {"closed", "opening", "open", "closing", "pinning"}]
    /\ ino \in [Entries -> Inodes \cup {None}]
    /\ gen \in [Entries -> Gens]
    /\ view \in [Entries -> Bits]
    /\ setSince \in [Entries -> SUBSET Pages]
    /\ clearedSince \in [Entries -> SUBSET Pages]
    /\ pin \in [Entries -> BOOLEAN] /\ pinTouched \in [Entries -> BOOLEAN]
    /\ dirty \in [Entries -> BOOLEAN]

CommitTypes ==
    /\ snap \in [Threads -> Image] /\ out \in [Threads -> Image]
    /\ delta \in [Threads -> [set : SUBSET Pages, clr : SUBSET Pages, pin : BOOLEAN]]
    /\ merged \in [Threads -> BOOLEAN] /\ stored \in [Threads -> BOOLEAN]
    /\ fd \in [Threads -> {"tmp", "meta", "gone"}]

LEMMA GotoType ==
    ASSUME TypeOK, NEW t \in Threads, NEW l \in Label, Goto(t, l)
    PROVE  pc' \in [Threads -> Label]
BY DEF TypeOK, Goto

LEMMA RetractType ==
    ASSUME view \in [Entries -> Bits], NEW e \in Entries, NEW S, RetractPages(e, S)
    PROVE  view' \in [Entries -> Bits]
BY DEF RetractPages, Bits

LEMMA ReleasedType ==
    ASSUME TypeOK, NEW e \in Entries
    PROVE  Released(e) \in [Inodes -> Entries \cup {None}]
BY Zenon DEF TypeOK, Released

LEMMA DestroyedType ==
    ASSUME TypeOK, NEW e \in Entries, Destroyed(e)
    PROVE  EntryTypes'
BY BlankType DEF TypeOK, Destroyed, EntryTypes

LEMMA ReturnedType ==
    ASSUME TypeOK, NEW T, Returned(T)
    PROVE  CommitTypes'
BY BlankType DEF TypeOK, Returned, CommitTypes, NoDelta

LEMMA OpeningType ==
    ASSUME TypeOK, NEW t \in Threads, Opening(t)
    PROVE  TypeOK'
<1> DEFINE e == EntryOf[t]
<1> USE ConstantsAssumption, BlankType
<1>1. ASSUME NEW g \in Gens, OpenCreate(t, g) PROVE TypeOK'
  BY <1>1 DEF OpenCreate, Goto, Label, TypeOK
<1>2. CASE OpenLoad(t)
  <2>1. UNCHANGED <<diskVars, then, pages, expect, got, flushVars, ev, bounds>>
    BY <1>2 DEF OpenLoad
  <2>2. CASE Adoptable(meta, gen[e])
    <3>1. Adopt(e) /\ Goto(t, "idle")
      BY <1>2, <2>2 DEF OpenLoad
    <3> QED BY <2>1, <2>2, <3>1, AdoptableType DEF Adopt, Goto, Label, TypeOK
  <2>3. CASE ~Adoptable(meta, gen[e])
    <3>1. UNCHANGED entVars /\ Goto(t, "openLock")
      BY <1>2, <2>3 DEF OpenLoad
    <3> QED BY <2>1, <3>1 DEF Goto, Label, TypeOK
  <2> QED BY <2>2, <2>3
<1>3. CASE OpenLock(t)
  BY ZenonT(30), <1>3 DEF OpenLock, Goto, Label, TypeOK
<1>4. CASE OpenReload(t)
  <2>1. UNCHANGED <<used, path, meta, tmp, then, pages, expect, got, snap, delta,
                    merged, stored, fd, ev, opens, crashes, unlinks, punches, marks>>
    BY <1>4 DEF OpenReload
  <2>2. CASE /\ Adoptable(meta, gen[e])
             /\ Adopt(e)
             /\ flock' = Released(e)
             /\ Goto(t, "idle")
             /\ UNCHANGED <<data, out, faults>>
    BY ZenonT(30), <2>1, <2>2, AdoptableType DEF Adopt, Released, Goto, Label, TypeOK
  <2>3. CASE /\ data' = [data EXCEPT ![ino[e]] = NoBits]
             /\ view' = [view EXCEPT ![e] = NoBits]
             /\ pin' = [pin EXCEPT ![e] = FALSE]
             /\ out' = [out EXCEPT ![t] = [gen |-> gen[e], crc |-> NoBits, pin |-> FALSE]]
             /\ Goto(t, "storeOpen")
             /\ UNCHANGED <<up, ino, gen, setSince, clearedSince, pinTouched, dirty,
                            flock, faults>>
    <3>1. [gen |-> gen[e], crc |-> NoBits, pin |-> FALSE] \in Image
      BY DEF Image, TypeOK
    <3>2. out' \in [Threads -> Image]
      BY <2>3, <3>1 DEF TypeOK
    <3> QED BY Zenon, <2>1, <2>3, <3>2 DEF Goto, Label, TypeOK
  <2>4. CASE /\ Fault
             /\ data' \in {data, [data EXCEPT ![ino[e]] = NoBits]}
             /\ Destroyed(e)
             /\ flock' = Released(e)
             /\ Goto(t, "idle")
             /\ UNCHANGED out
    <3>1. pc' \in [Threads -> Label] /\ flock' \in [Inodes -> Entries \cup {None}] /\ EntryTypes'
      BY <2>4, GotoType, ReleasedType, DestroyedType DEF Label
    <3>2. faults' \in Nat
      BY <2>4 DEF Fault, TypeOK
    <3>3. [data EXCEPT ![ino[e]] = NoBits] \in [Inodes -> Bits] /\ data \in [Inodes -> Bits]
      BY Zenon DEF TypeOK
    <3>4. data' \in [Inodes -> Bits]
      BY <2>4, <3>3
    <3> QED BY <2>1, <2>4, <3>1, <3>2, <3>4 DEF EntryTypes, TypeOK
  <2> QED BY <1>4, <2>2, <2>3, <2>4 DEF OpenReload
<1>5. CASE OpenStored(t)
  BY <1>5 DEF OpenStored, Returned, NoDelta, Goto, Label, TypeOK
<1> QED BY <1>1, <1>2, <1>3, <1>4, <1>5 DEF Opening

LEMMA StoringType ==
    ASSUME TypeOK, NEW t \in Threads, Storing(t)
    PROVE  TypeOK'
<1> DEFINE e == EntryOf[t]
<1> USE ConstantsAssumption
<1>1. UNCHANGED <<data, used, path, entVars, then, pages, expect, got, snap, delta, out,
                  merged, ev, opens, crashes, unlinks, punches, marks>>
  BY ZenonT(30) DEF Storing, StoreOpen, StoreWrite, StoreRename
<1>2. /\ meta' \in Image \cup {None, Torn} /\ tmp' \in Image \cup {None, Torn}
  BY DEF Storing, StoreOpen, StoreWrite, StoreRename, StoreFails, TypeOK
<1>3. fd' \in [Threads -> {"tmp", "meta", "gone"}]
  <2>1. Unlinked("tmp") \in [Threads -> {"tmp", "meta", "gone"}]
    BY DEF Unlinked, TypeOK
  <2>2. CASE StoreOpen(t)
    BY Zenon, <2>2 DEF StoreOpen, TypeOK
  <2>3. CASE StoreWrite(t)
    BY Zenon, <2>1, <2>3 DEF StoreWrite, StoreFails, TypeOK
  <2>4. CASE StoreRename(t)
    BY ZenonT(30), <2>1, <2>4 DEF StoreRename, StoreFails, TypeOK
  <2> QED BY <2>2, <2>3, <2>4 DEF Storing
<1>4. stored' \in [Threads -> BOOLEAN]
  BY ZenonT(60) DEF Storing, StoreOpen, StoreWrite, StoreRename, StoreFails, TypeOK
<1>5. flock' \in [Inodes -> Entries \cup {None}]
  BY ReleasedType DEF Storing, StoreOpen, StoreWrite, StoreRename, StoreFails, TypeOK
<1>6. pc' \in [Threads -> Label]
  <2>1. \E l \in {"storeWrite", "storeRename", "stored"} : Goto(t, l)
    BY ZenonT(30) DEF Storing, StoreOpen, StoreWrite, StoreRename, StoreFails
  <2> QED BY <2>1, GotoType DEF Label
<1>7. faults' \in Nat
  BY DEF Storing, StoreOpen, StoreWrite, StoreRename, StoreFails, Fault, TypeOK
<1> QED BY <1>1, <1>2, <1>3, <1>4, <1>5, <1>6, <1>7 DEF TypeOK

LEMMA FlushingType ==
    ASSUME TypeOK, NEW t \in Threads, Flushing(t)
    PROVE  TypeOK'
<1> DEFINE e == EntryOf[t]
<1> USE ConstantsAssumption
<1>0. then[t] \in Label
  BY DEF TypeOK, Label
<1>1. CASE FlushSnapshot(t)
  <2>1. UNCHANGED <<diskVars, then, pages, expect, got, out, merged, stored, fd, ev, bounds>>
    BY <1>1 DEF FlushSnapshot
  <2>2. CASE ~dirty[e]
    <3>1. Goto(t, then[t]) /\ UNCHANGED <<entVars, snap, delta>>
      BY ZenonT(30), <1>1, <2>2 DEF FlushSnapshot
    <3> QED BY <1>0, <2>1, <3>1, GotoType DEF TypeOK
  <2>3. CASE dirty[e]
    <3>1. /\ snap' = [snap EXCEPT ![t] = [gen |-> gen[e], crc |-> view[e], pin |-> pin[e]]]
          /\ delta' = [delta EXCEPT ![t] = [set |-> setSince[e], clr |-> clearedSince[e],
                                            pin |-> pinTouched[e]]]
          /\ setSince' = [setSince EXCEPT ![e] = {}]
          /\ clearedSince' = [clearedSince EXCEPT ![e] = {}]
          /\ pinTouched' = [pinTouched EXCEPT ![e] = FALSE]
          /\ dirty' = [dirty EXCEPT ![e] = FALSE]
          /\ Goto(t, "flushLock")
          /\ UNCHANGED <<up, ino, gen, view, pin>>
      BY Zenon, <1>1, <2>3 DEF FlushSnapshot
    <3>2. snap' \in [Threads -> Image]
      BY <3>1 DEF TypeOK, Image
    <3>3. delta' \in [Threads -> [set : SUBSET Pages, clr : SUBSET Pages, pin : BOOLEAN]]
      BY <3>1 DEF TypeOK
    <3>4. pc' \in [Threads -> Label]
      BY Zenon, <3>1, GotoType DEF Label
    <3> QED BY <2>1, <3>1, <3>2, <3>3, <3>4 DEF TypeOK
  <2> QED BY <2>2, <2>3
<1>2. CASE FlushLock(t)
  <2>1. UNCHANGED <<data, used, path, meta, tmp, entVars, then, pages, expect, got, ev, bounds>>
    BY Zenon, <1>2 DEF FlushLock
  <2>2. flock' \in [Inodes -> Entries \cup {None}]
    <3>1. PICK h \in Entries \cup {None} : flock' = [flock EXCEPT ![ino[e]] = h]
      BY <1>2 DEF FlushLock
    <3> QED BY ZenonT(30), <3>1 DEF TypeOK
  <2>3. pc' \in [Threads -> Label]
    BY <1>0, <1>2, GotoType DEF FlushLock, Label
  <2>4. CommitTypes'
    <3>1. CASE UNCHANGED flushVars
      BY <3>1 DEF TypeOK, CommitTypes
    <3> QED BY <1>2, <3>1, ReturnedType DEF FlushLock
  <2> QED BY <2>1, <2>2, <2>3, <2>4 DEF TypeOK, CommitTypes
<1>3. CASE FlushLoad(t)
  <2>1. out' \in [Threads -> Image]
    BY ZenonT(30), <1>3, AdoptableType, MergeType DEF FlushLoad, TypeOK
  <2>2. pc' \in [Threads -> Label] /\ merged' \in [Threads -> BOOLEAN]
    BY <1>3, GotoType DEF FlushLoad, Label, TypeOK, Adoptable
  <2> QED BY <1>3, <2>1, <2>2 DEF FlushLoad, TypeOK
<1>4. CASE FlushStored(t)
  <2>1. UNCHANGED <<diskVars, up, ino, gen, then, pages, expect, got, ev, bounds>>
    BY <1>4 DEF FlushStored
  <2>2. pc' \in [Threads -> Label] /\ CommitTypes'
    BY <1>0, <1>4, GotoType, ReturnedType DEF FlushStored
  <2>3. CASE Rearm(e, delta[t])
    BY <2>1, <2>2, <2>3 DEF Rearm, TypeOK, CommitTypes
  <2>4. CASE AdoptCommitted(e, out[t])
    <3>1. out[t].crc \in Bits /\ out[t].pin \in BOOLEAN
      BY ImageFields DEF TypeOK
    <3>2. view' \in [Entries -> Bits] /\ pin' \in [Entries -> BOOLEAN]
      BY <2>4, <3>1 DEF AdoptCommitted, TypeOK, Bits
    <3> QED BY <2>1, <2>2, <2>4, <3>2 DEF AdoptCommitted, TypeOK, CommitTypes
  <2>5. CASE UNCHANGED <<view, setSince, clearedSince, pin, pinTouched, dirty>>
    BY <2>1, <2>2, <2>5 DEF TypeOK, CommitTypes
  <2> QED BY ZenonT(30), <1>4, <2>3, <2>4, <2>5 DEF FlushStored
<1> QED BY <1>1, <1>2, <1>3, <1>4 DEF Flushing

LEMMA FillingType ==
    ASSUME TypeOK, NEW t \in Threads, Filling(t)
    PROVE  TypeOK'
<1> DEFINE e == EntryOf[t]
<1> USE ConstantsAssumption
<1>1. ASSUME NEW S \in SUBSET Pages, WriteStart(t, S) PROVE TypeOK'
  BY ZenonT(30), <1>1 DEF WriteStart, Goto, Label, TypeOK
<1>2. CASE WriteData(t)
  <2>1. PICK written \in SUBSET pages[t], keep \in SUBSET pages[t] :
          /\ \/ UNCHANGED faults
             \/ Fault
          /\ data' = [data EXCEPT ![ino[e]] =
                        [p \in Pages |-> IF p \in written THEN gen[e] ELSE @[p]]]
          /\ pages' = [pages EXCEPT ![t] = keep]
    BY Zenon, <1>2 DEF WriteData
  <2>2. data' \in [Inodes -> Bits]
    <3>1. ASSUME ino[e] \in Inodes
          PROVE  [p \in Pages |-> IF p \in written THEN gen[e] ELSE data[ino[e]][p]] \in Bits
      BY <3>1 DEF TypeOK, Bits
    <3> QED BY ZenonT(30), <2>1, <3>1 DEF TypeOK
  <2>3. faults' \in Nat /\ pages' \in [Threads -> SUBSET Pages]
    BY <2>1 DEF TypeOK, Fault
  <2>4. pc' \in [Threads -> Label]
    BY <1>2, GotoType DEF WriteData, Label
  <2> QED BY <1>2, <2>2, <2>3, <2>4 DEF WriteData, TypeOK
<1>3. CASE Publish(t)
  <2>1. pc' \in [Threads -> Label]
    BY ZenonT(30), <1>3, GotoType DEF Publish, Label
  <2>2. view' \in [Entries -> Bits]
    BY <1>3 DEF Publish, PublishPages, TypeOK, Bits
  <2> QED BY Zenon, <1>3, <2>1, <2>2 DEF Publish, PublishPages, TypeOK
<1> QED BY <1>1, <1>2, <1>3 DEF Filling

LEMMA ReleasingType ==
    ASSUME TypeOK, NEW t \in Threads, Releasing(t)
    PROVE  TypeOK'
<1> DEFINE e == EntryOf[t]
<1> USE ConstantsAssumption
<1>1. ASSUME NEW S \in SUBSET Pages, ReleaseStart(t, S) PROVE TypeOK'
  <2>1. pc' \in [Threads -> Label] /\ then' \in [Threads -> {"idle", "punch", "close"}]
    BY <1>1, GotoType DEF ReleaseStart, Continue, Label, TypeOK
  <2>2. view' \in [Entries -> Bits]
    <3>1. view \in [Entries -> Bits] /\ e \in Entries
      BY ZenonT(30) DEF TypeOK
    <3>2. RetractPages(e, S \cap Present(e))
      BY Zenon, <1>1 DEF ReleaseStart
    <3> QED BY Zenon, <3>1, <3>2, RetractType
  <2>3. clearedSince' \in [Entries -> SUBSET Pages] /\ setSince' \in [Entries -> SUBSET Pages]
    BY <1>1 DEF ReleaseStart, RetractPages, Present, TypeOK
  <2>4. /\ dirty' \in [Entries -> BOOLEAN] /\ punches' \in Nat
        /\ pages' \in [Threads -> SUBSET Pages]
    BY <1>1 DEF ReleaseStart, TypeOK
  <2> QED BY ZenonT(30), <1>1, <2>1, <2>2, <2>3, <2>4 DEF ReleaseStart, TypeOK
<1>2. CASE Punch(t)
  <2>1. pc' \in [Threads -> Label] /\ then' \in [Threads -> {"idle", "punch", "close"}]
    BY <1>2, GotoType DEF Punch, Continue, Label, TypeOK
  <2>2. data' \in [Inodes -> Bits]
    <3>1. CASE data' = data
      BY <3>1 DEF TypeOK
    <3>2. CASE data' = [data EXCEPT ![ino[e]] =
                          [p \in Pages |-> IF p \in pages[t] THEN None ELSE @[p]]]
      <4>1. ASSUME ino[e] \in Inodes
            PROVE  [p \in Pages |-> IF p \in pages[t] THEN None ELSE data[ino[e]][p]] \in Bits
        BY <4>1 DEF TypeOK, Bits
      <4>2. data \in [Inodes -> Bits]
        BY DEF TypeOK
      <4> QED BY Zenon, <3>2, <4>1, <4>2
    <3> QED BY Zenon, <1>2, <3>1, <3>2 DEF Punch
  <2> QED BY ZenonT(60), <1>2, <2>1, <2>2 DEF Punch, TypeOK
<1> QED BY <1>1, <1>2 DEF Releasing

LEMMA ReadingType ==
    ASSUME TypeOK, NEW t \in Threads, Reading(t)
    PROVE  TypeOK'
<1> DEFINE e == EntryOf[t]
<1> USE ConstantsAssumption
<1>1. ASSUME NEW p \in Pages, ReadPlan(t, p) PROVE TypeOK'
  <2>1. view[e][p] \in Gens \cup {None}
    BY DEF TypeOK, Bits
  <2> QED BY <1>1, <2>1 DEF ReadPlan, Goto, Label, TypeOK
<1>2. CASE ReadDisk(t)
  <2>1. /\ UNCHANGED <<diskVars, flushVars, ev, opens, crashes, unlinks, punches, marks>>
        /\ pages' = [pages EXCEPT ![t] = {}]
        /\ expect' = [expect EXCEPT ![t] = None]
        /\ UNCHANGED <<then, up, ino, gen, pin, pinTouched>>
    BY Zenon, <1>2 DEF ReadDisk
  <2>2. pc' \in [Threads -> Label]
    BY Zenon, <1>2, GotoType DEF ReadDisk, Label
  <2>3. got' \in [Threads -> Gens \cup {None}] /\ faults' \in Nat
    <3>1. expect[t] \in Gens \cup {None}
      BY DEF TypeOK
    <3>2. got' = got \/ got' = [got EXCEPT ![t] = expect[t]]
      BY ZenonT(60), <1>2 DEF ReadDisk, Verifies
    <3>3. faults' = faults \/ faults' = faults + 1
      BY Zenon, <1>2 DEF ReadDisk, Fault
    <3>4. faults' \in Nat
      BY <3>3 DEF TypeOK
    <3>5. [got EXCEPT ![t] = expect[t]] \in [Threads -> Gens \cup {None}]
      BY <3>1 DEF TypeOK
    <3>6. got \in [Threads -> Gens \cup {None}]
      BY DEF TypeOK
    <3> QED BY <3>2, <3>4, <3>5, <3>6
  <2>4. CASE UNCHANGED entVars
    BY ZenonT(30), <2>1, <2>2, <2>3, <2>4 DEF TypeOK
  <2>5. CASE RetractPages(e, pages[t]) /\ dirty' = [dirty EXCEPT ![e] = TRUE]
    <3>1. view' \in [Entries -> Bits]
      <4>1. view \in [Entries -> Bits] /\ e \in Entries
        BY Zenon DEF TypeOK
      <4> QED BY Zenon, <2>5, <4>1, RetractType
    <3> QED BY ZenonT(60), <2>1, <2>2, <2>3, <2>5, <3>1 DEF RetractPages, TypeOK
  <2> QED BY ZenonT(60), <1>2, <2>4, <2>5 DEF ReadDisk
<1>3. CASE Return(t)
  BY ZenonT(30), <1>3 DEF Return, Goto, Label, TypeOK
<1> QED BY ZenonT(30), <1>1, <1>2, <1>3 DEF Reading

LEMMA MarkingType ==
    ASSUME TypeOK, NEW t \in Threads, Marking(t)
    PROVE  TypeOK'
<1> USE ConstantsAssumption
<1>1. ASSUME NEW b \in BOOLEAN, SetPinned(t, b) PROVE TypeOK'
  <2>1. pc' \in [Threads -> Label]
    BY <1>1, GotoType DEF SetPinned, Label
  <2>2. marks' \in Nat
    <3>1. marks \in Nat
      BY Zenon DEF TypeOK
    <3>2. marks' = marks + 1
      BY ZenonT(30), <1>1 DEF SetPinned, Mark
    <3> QED BY <3>1, <3>2
  <2> QED BY <1>1, <2>1, <2>2 DEF SetPinned, TypeOK
<1>2. CASE TouchAtime(t)
  <2>1. pc' \in [Threads -> Label] /\ marks' \in Nat
    <3>1. pc' \in [Threads -> Label]
      BY <1>2, GotoType DEF TouchAtime, Label
    <3>2. marks \in Nat
      BY Zenon DEF TypeOK
    <3>3. marks' = marks + 1
      BY Zenon, <1>2 DEF TouchAtime, Mark
    <3> QED BY <3>1, <3>2, <3>3
  <2>2. dirty' \in [Entries -> BOOLEAN]
    <3>1. dirty \in [Entries -> BOOLEAN] /\ dirty' = [dirty EXCEPT ![EntryOf[t]] = TRUE]
      BY Zenon, <1>2 DEF TouchAtime, TypeOK
    <3> QED BY <3>1
  <2> QED BY ZenonT(60), <1>2, <2>1, <2>2
          DEF TouchAtime, diskVars, flushVars, TypeOK
<1> QED BY Zenon, <1>1, <1>2 DEF Marking

LEMMA ClosingType ==
    ASSUME TypeOK, NEW t \in Threads, Closing(t)
    PROVE  TypeOK'
<1> USE ConstantsAssumption
<1>1. CASE CloseStart(t)
  BY <1>1 DEF CloseStart, Continue, Goto, Label, TypeOK
<1>2. CASE Close(t)
  <2>1. EntryTypes' /\ pc' \in [Threads -> Label]
    BY <1>2, GotoType, DestroyedType DEF Close, Label
  <2> QED BY ZenonT(60), <1>2, <2>1 DEF Close, Continue, EntryTypes, TypeOK
<1> QED BY ZenonT(30), <1>1, <1>2 DEF Closing

LEMMA CrashType ==
    ASSUME TypeOK, NEW e \in Entries, Crash(e)
    PROVE  TypeOK'
<1>1. EntryTypes' /\ CommitTypes'
  BY ZenonT(60), DestroyedType, ReturnedType DEF Crash
<1>2. flock' \in [Inodes -> Entries \cup {None}] /\ crashes' \in Nat
  <2>1. flock' \in [Inodes -> Entries \cup {None}]
    BY ReleasedType DEF Crash
  <2>2. crashes \in Nat
    BY Zenon DEF TypeOK
  <2>3. crashes' = crashes + 1
    BY Zenon DEF Crash, Dies
  <2> QED BY <2>1, <2>2, <2>3
<1>3. /\ pc' \in [Threads -> Label] /\ then' \in [Threads -> {"idle", "punch", "close"}]
      /\ pages' \in [Threads -> SUBSET Pages]
  BY ZenonT(30) DEF Crash, Label, TypeOK
<1>4. /\ expect' \in [Threads -> Gens \cup {None}]
      /\ got' \in [Threads -> Gens \cup {None}]
  BY DEF Crash, TypeOK
<1> QED BY ZenonT(30), <1>1, <1>2, <1>3, <1>4 DEF Crash, EntryTypes, CommitTypes, TypeOK

LEMMA PinningType ==
    ASSUME TypeOK, NEW t \in Threads, PinningByKey(t)
    PROVE  TypeOK'
<1> DEFINE e == EntryOf[t]
<1> USE ConstantsAssumption
<1>1. ASSUME NEW b \in BOOLEAN, PinOpen(t, b) PROVE TypeOK'
  <2>1. pc' \in [Threads -> Label] /\ marks' \in Nat
    <3>1. pc' \in [Threads -> Label]
      BY <1>1, GotoType DEF PinOpen, Label
    <3>2. marks \in Nat
      BY Zenon DEF TypeOK
    <3>3. marks' = marks + 1
      BY Zenon, <1>1 DEF PinOpen, Mark
    <3> QED BY <3>1, <3>2, <3>3
  <2> QED BY ZenonT(60), <1>1, <2>1 DEF PinOpen, TypeOK
<1>2. CASE PinLock(t)
  <2>1. EntryTypes'
    <3>1. CASE UNCHANGED entVars
      BY <3>1 DEF EntryTypes, TypeOK
    <3> QED BY <1>2, <3>1, DestroyedType DEF PinLock
  <2>2. pc' \in [Threads -> Label]
    BY ZenonT(30), <1>2, GotoType DEF PinLock, Label
  <2>3. flock' \in [Inodes -> Entries \cup {None}]
    <3>1. flock \in [Inodes -> Entries \cup {None}] /\ e \in Entries
      BY Zenon DEF TypeOK
    <3>2. flock' = flock \/ flock' = [flock EXCEPT ![ino[e]] = e]
      BY Zenon, <1>2 DEF PinLock, diskVars
    <3> QED BY <3>1, <3>2
  <2> QED BY ZenonT(30), <1>2, <2>1, <2>2, <2>3 DEF PinLock, EntryTypes, TypeOK
<1>3. CASE PinLoad(t)
  <2>1. UNCHANGED <<data, used, path, meta, tmp, then, pages, expect, got, snap, delta,
                    merged, stored, fd, ev, bounds>>
    BY <1>3 DEF PinLoad
  <2>2. CASE meta \in {None, Torn}
    <3>1. flock' = Released(e) /\ Destroyed(e) /\ Goto(t, "idle") /\ UNCHANGED out
      BY <1>3, <2>2 DEF PinLoad
    <3>2. EntryTypes' /\ flock' \in [Inodes -> Entries \cup {None}] /\ pc' \in [Threads -> Label]
      BY <3>1, DestroyedType, ReleasedType, GotoType DEF Label
    <3> QED BY Zenon, <2>1, <3>1, <3>2 DEF EntryTypes, TypeOK
  <2>3. CASE meta \notin {None, Torn}
    <3>1. /\ out' = [out EXCEPT ![t] = [meta EXCEPT !.pin = pin[e]]]
          /\ Goto(t, "storeOpen")
          /\ UNCHANGED <<flock, entVars>>
      BY <1>3, <2>3 DEF PinLoad
    <3>2. [meta EXCEPT !.pin = pin[e]] \in Image
      BY Zenon, <2>3 DEF TypeOK, Image
    <3>3. out' \in [Threads -> Image] /\ pc' \in [Threads -> Label]
      BY <3>1, <3>2, GotoType DEF TypeOK, Label
    <3> QED BY <2>1, <3>1, <3>3 DEF TypeOK
  <2> QED BY <2>2, <2>3
<1>4. CASE PinStored(t)
  <2>1. EntryTypes' /\ CommitTypes' /\ pc' \in [Threads -> Label]
    BY <1>4, DestroyedType, ReturnedType, GotoType DEF PinStored, Label
  <2> QED BY Zenon, <1>4, <2>1 DEF PinStored, EntryTypes, CommitTypes, TypeOK
<1> QED BY <1>1, <1>2, <1>3, <1>4 DEF PinningByKey

LEMMA UnlinkingType ==
    ASSUME TypeOK, Unlinking
    PROVE  TypeOK'
<1>1. CASE EvictCheck
  <2>1. unlinks \in Nat
    BY Zenon DEF TypeOK
  <2>2. unlinks' = unlinks + 1
    BY Zenon, <1>1 DEF EvictCheck
  <2>3. unlinks' \in Nat
    BY <2>1, <2>2
  <2> QED BY ZenonT(30), <1>1, <2>3 DEF EvictCheck, TypeOK
<1>2. CASE InvalidateStart
  <2>1. unlinks \in Nat
    BY Zenon DEF TypeOK
  <2>2. unlinks' = unlinks + 1
    BY ZenonT(30), <1>2 DEF InvalidateStart
  <2>3. unlinks' \in Nat
    BY <2>1, <2>2
  <2> QED BY ZenonT(30), <1>2, <2>3 DEF InvalidateStart, TypeOK
<1>3. CASE UnlinkData
  BY <1>3 DEF UnlinkData, TypeOK
<1>4. CASE UnlinkMeta
  BY ZenonT(60), <1>4 DEF UnlinkMeta, Unlinked, TypeOK
<1>5. CASE EvictorCrash
  BY <1>5 DEF EvictorCrash, Dies, TypeOK
<1> QED BY ZenonT(30), <1>1, <1>2, <1>3, <1>4, <1>5 DEF Unlinking

LEMMA NextType == TypeOK /\ [Next]_vars => TypeOK'
<1> SUFFICES ASSUME TypeOK, [Next]_vars PROVE TypeOK'
  OBVIOUS
<1>1. CASE UNCHANGED vars
  BY ZenonT(60), <1>1 DEF vars, TypeOK
<1> QED
  BY <1>1, OpeningType, StoringType, FlushingType, FillingType, ReleasingType, ReadingType,
     MarkingType, ClosingType, PinningType, CrashType, UnlinkingType DEF Next

\* Every variable of FileEntry keeps its type, for any number of processes,
\* threads, pages, generations and inodes.
THEOREM TypeCorrect == Spec => []TypeOK
BY InitType, NextType, PTL DEF Spec

-----------------------------------------------------------------------------
(* Generations are kept apart.  OwnGeneration is inductive together with   *)
(* what the program counters say: gen[e] changes only when an entry is     *)
(* opened or destroyed, and then no thread is inside it.                   *)

Steps(u) ==
    CASE u = "closed"  -> {"idle"}
      [] u = "opening" -> {"idle", "openLoad", "openLock", "openReload", "storeOpen",
                           "storeWrite", "storeRename", "stored"}
      [] u = "open"    -> Label \ {"openLoad", "openLock", "openReload", "close",
                                   "pinLock", "pinLoad"}
      [] u = "closing" -> {"idle", "flush", "flushLock", "flushLoad", "storeOpen",
                           "storeWrite", "storeRename", "stored", "close"}
      [] u = "pinning" -> {"idle", "pinLock", "pinLoad", "storeOpen", "storeWrite",
                           "storeRename", "stored"}

\* What holds of one thread, of two threads of one entry, of one entry, and of
\* the sidecar files.
ThreadInv(t) ==
    LET e == EntryOf[t] IN
    /\ pc[t] \in Steps(up[e])
    /\ then[t] = "close" => up[e] = "closing"
    /\ then[t] = "punch" => up[e] = "open"
    /\ then[t] # "idle" => pc[t] \in {"flush", "flushLock", "flushLoad", "storeOpen",
                                     "storeWrite", "storeRename", "stored", then[t]}
    /\ expect[t] # None => pc[t] = "read" /\ expect[t] = gen[e]
    /\ got[t] # None => pc[t] = "served" /\ got[t] = gen[e]
    /\ merged[t] => /\ pc[t] \in {"storeOpen", "storeWrite", "storeRename", "stored"}
                    /\ out[t].gen = gen[e]
    /\ pc[t] \in {"flushLock", "flushLoad"} => snap[t].gen = gen[e]
    /\ OneGeneration(snap[t]) /\ OneGeneration(out[t])

PairInv(t, u) ==
    (EntryOf[t] = EntryOf[u] /\ t # u /\ up[EntryOf[t]] # "open")
        => pc[t] = "idle" \/ pc[u] = "idle"

EntryInv(e) ==
    /\ up[e] = "closed" => view[e] = NoBits
    /\ \A p \in Pages : view[e][p] \in {None, gen[e]}

FileInv ==
    /\ meta \notin {None, Torn} => OneGeneration(meta)
    /\ tmp \notin {None, Torn} => OneGeneration(tmp)

IInv ==
    /\ FileInv
    /\ \A e \in Entries : EntryInv(e)
    /\ \A t \in Threads : ThreadInv(t)
    /\ \A t, u \in Threads : PairInv(t, u)

LEMMA IInvImplies == TypeOK /\ IInv => OwnGeneration /\ ServedOrigin
BY ConstantsAssumption
   DEF TypeOK, IInv, FileInv, EntryInv, ThreadInv, OwnGeneration, ServedOrigin

LEMMA InitInv == Init => IInv
BY ConstantsAssumption, BlankType
   DEF Init, IInv, FileInv, EntryInv, ThreadInv, PairInv, OneGeneration, Blank, NoBits, Steps

\* Where a thread can be.
LEMMA Where ==
    ASSUME TypeOK, IInv, NEW t \in Threads
    PROVE  /\ pc[t] \in {"write", "publish", "punch", "read", "served"} => up[EntryOf[t]] = "open"
           /\ pc[t] \in {"openLoad", "openLock", "openReload"} => up[EntryOf[t]] = "opening"
           /\ pc[t] \in {"flush", "flushLock", "flushLoad"}
                 => up[EntryOf[t]] \in {"open", "closing"}
           /\ pc[t] = "close" => up[EntryOf[t]] = "closing"
           /\ pc[t] \in {"pinLock", "pinLoad"} => up[EntryOf[t]] = "pinning"
           /\ up[EntryOf[t]] = "closed" => pc[t] = "idle"
<1>1. pc[t] \in Steps(up[EntryOf[t]])
  BY Zenon DEF IInv, ThreadInv
<1>2. up[EntryOf[t]] \in {"closed", "opening", "open", "closing", "pinning"}
  BY ConstantsAssumption DEF TypeOK
<1> QED BY <1>1, <1>2 DEF Steps, Label

LEMMA IdleSteps == \A u \in {"closed", "opening", "open", "closing", "pinning"} :
                       "idle" \in Steps(u)
BY DEF Steps, Label

\* A step that leaves a thread and its entry's state and generation alone keeps
\* the thread's invariant; so does one that leaves an entry's view alone.
SameEntry(x) == up'[x] = up[x] /\ gen'[x] = gen[x]
SameLocals(u) == /\ then'[u] = then[u] /\ expect'[u] = expect[u] /\ got'[u] = got[u]
                 /\ merged'[u] = merged[u] /\ snap'[u] = snap[u] /\ out'[u] = out[u]

LEMMA ThreadFrame ==
    ASSUME NEW u \in Threads, ThreadInv(u), SameLocals(u), SameEntry(EntryOf[u]),
           pc'[u] = pc[u]
    PROVE  ThreadInv(u)'
BY ZenonT(60) DEF ThreadInv, SameLocals, SameEntry, OneGeneration

\* A thread that is in no read and no commit after the step.
LEMMA ThreadQuiet ==
    ASSUME NEW u \in Threads,
           pc'[u] \in Steps(up'[EntryOf[u]]) \ {"flushLock", "flushLoad"},
           \/ then'[u] = "idle"
           \/ /\ then'[u] \in {"punch", "close"} /\ pc'[u] \in {"flush", then'[u]}
              /\ up'[EntryOf[u]] = IF then'[u] = "punch" THEN "open" ELSE "closing",
           expect'[u] = None, got'[u] = None, ~merged'[u],
           OneGeneration(snap'[u]), OneGeneration(out'[u])
    PROVE  ThreadInv(u)'
BY ZenonT(60) DEF ThreadInv, OneGeneration

\* Outside its commits and reads a thread has nothing to carry.
LEMMA ThreadIdle ==
    ASSUME TypeOK, IInv, NEW u \in Threads,
           pc[u] \notin {"read", "served", "flush", "flushLock", "flushLoad", "storeOpen",
                         "storeWrite", "storeRename", "stored", "punch", "close"}
    PROVE  /\ then[u] = "idle" /\ expect[u] = None /\ got[u] = None /\ ~merged[u]
           /\ OneGeneration(snap[u]) /\ OneGeneration(out[u])
<1>1. then \in [Threads -> {"idle", "punch", "close"}]
  BY Zenon DEF TypeOK
<1>2. ThreadInv(u)
  BY Zenon DEF IInv
<1> QED BY <1>1, <1>2 DEF ThreadInv

LEMMA EntryFrame ==
    ASSUME NEW x \in Entries, EntryInv(x), SameEntry(x), view'[x] = view[x]
    PROVE  EntryInv(x)'
BY DEF EntryInv, SameEntry

LEMMA FileFrame ==
    ASSUME FileInv, UNCHANGED <<meta, tmp>>
    PROVE  FileInv'
BY ZenonT(30) DEF FileInv, OneGeneration

\* No other thread is inside t's entry.
Alone(t) == \A u \in Threads \ {t} : EntryOf[u] = EntryOf[t] => pc[u] = "idle"

LEMMA AloneInside ==
    ASSUME TypeOK, IInv, NEW t \in Threads, up[EntryOf[t]] # "open",
           pc[t] # "idle" \/ up[EntryOf[t]] = "closed"
    PROVE  Alone(t)
BY Where DEF Alone, IInv, PairInv

\* What is left to show of a step of thread t.
LEMMA StepInv ==
    ASSUME TypeOK, IInv, NEW t \in Threads, TypeOK',
           \A u \in Threads \ {t} : SameLocals(u) /\ pc'[u] = pc[u],
           \A x \in Entries \ {EntryOf[t]} : SameEntry(x) /\ view'[x] = view[x],
           Alone(t) \/ (up[EntryOf[t]] = "open" /\ SameEntry(EntryOf[t])),
           ThreadInv(t)', EntryInv(EntryOf[t])', FileInv'
    PROVE  IInv'
<1> USE ConstantsAssumption
<1>1. ASSUME NEW x \in Entries PROVE EntryInv(x)'
  <2>1. CASE x = EntryOf[t]
    BY <2>1
  <2>2. CASE x # EntryOf[t]
    BY ZenonT(60), <2>2, EntryFrame DEF IInv
  <2> QED BY ZenonT(30), <2>1, <2>2
<1>2. ASSUME NEW u \in Threads PROVE ThreadInv(u)'
  <2>1. CASE u = t
    BY <2>1
  <2>2. CASE u # t /\ SameEntry(EntryOf[u])
    BY ZenonT(60), <2>2, ThreadFrame DEF IInv
  <2>3. CASE u # t /\ ~SameEntry(EntryOf[u])
    <3>1. EntryOf[u] = EntryOf[t] /\ pc[u] = "idle" /\ pc'[u] = "idle" /\ SameLocals(u)
      BY ZenonT(60), <2>3 DEF Alone, TypeOK
    <3>2. /\ then'[u] = "idle" /\ expect'[u] = None /\ got'[u] = None /\ ~merged'[u]
          /\ OneGeneration(snap'[u]) /\ OneGeneration(out'[u])
      BY ZenonT(60), <3>1, ThreadIdle DEF SameLocals
    <3>3. pc'[u] \in Steps(up'[EntryOf[u]]) \ {"flushLock", "flushLoad"}
      <4>1. up'[EntryOf[u]] \in {"closed", "opening", "open", "closing", "pinning"}
        <5>1. up' \in [Entries -> {"closed", "opening", "open", "closing", "pinning"}]
          BY Zenon DEF TypeOK
        <5> QED BY <5>1
      <4> QED BY ZenonT(30), <3>1, <4>1, IdleSteps
    <3> QED BY ZenonT(60), <3>2, <3>3, ThreadQuiet
  <2> QED BY <2>1, <2>2, <2>3
<1>3. ASSUME NEW u \in Threads, NEW v \in Threads PROVE PairInv(u, v)'
  <2>1. CASE EntryOf[u] # EntryOf[t]
    BY ZenonT(60), <2>1 DEF IInv, PairInv, SameEntry
  <2>2. CASE EntryOf[u] = EntryOf[t]
    <3>1. CASE Alone(t)
      <4>1. ASSUME NEW w \in Threads, w # t, EntryOf[w] = EntryOf[t] PROVE pc'[w] = "idle"
        BY Zenon, <3>1, <4>1 DEF Alone
      <4> QED BY Zenon, <2>2, <4>1 DEF PairInv
    <3>2. CASE up[EntryOf[t]] = "open" /\ SameEntry(EntryOf[t])
      BY Zenon, <2>2, <3>2 DEF PairInv, SameEntry
    <3> QED BY Zenon, <3>1, <3>2
  <2> QED BY Zenon, <2>1, <2>2
<1> QED BY ZenonT(60), <1>1, <1>2, <1>3 DEF IInv

LEMMA FillingInv ==
    ASSUME TypeOK, IInv, NEW t \in Threads, Filling(t)
    PROVE  IInv'
<1> DEFINE e == EntryOf[t]
<1> USE ConstantsAssumption
<1>1. up[e] = "open" /\ pc[t] \in {"idle", "write", "publish"}
  BY ZenonT(60), Where DEF Filling, WriteStart, WriteData, Publish, Idle
<1>2. pc' = [pc EXCEPT ![t] = pc'[t]] /\ pc'[t] \in {"write", "publish", "idle", "flush"}
  BY ZenonT(60) DEF Filling, WriteStart, WriteData, Publish, Goto, TypeOK
<1>3. UNCHANGED <<up, gen, then, expect, got, merged, snap, out, meta, tmp>>
  BY Zenon DEF Filling, WriteStart, WriteData, Publish
<1>4. FileInv'
  BY <1>3, FileFrame DEF IInv
<1>5. \/ view' = view
      \/ view' = [view EXCEPT ![e] = [p \in Pages |-> IF p \in pages[t] THEN gen[e]
                                                                      ELSE view[e][p]]]
  BY ZenonT(60) DEF Filling, WriteStart, WriteData, Publish, PublishPages
<1>6. EntryInv(e)'
  <2>1. view \in [Entries -> Bits]
    BY Zenon DEF TypeOK
  <2>2. \A p \in Pages : view'[e][p] \in {gen[e], view[e][p]}
    BY <1>5, <2>1 DEF Bits
  <2> QED BY ZenonT(60), <1>1, <1>3, <2>2 DEF IInv, EntryInv
<1>7. ThreadInv(t)'
  <2>1. pc'[t] \in Steps(up'[e]) \ {"flushLock", "flushLoad"}
    BY <1>1, <1>2, <1>3 DEF Steps, Label
  <2> QED BY Zenon, <1>1, <1>3, <2>1, ThreadIdle, ThreadQuiet
<1> QED BY Zenon, <1>1, <1>2, <1>3, <1>4, <1>5, <1>6, <1>7, FillingType, StepInv
       DEF SameLocals, SameEntry, TypeOK

LEMMA ReleasingInv ==
    ASSUME TypeOK, IInv, NEW t \in Threads, Releasing(t)
    PROVE  IInv'
<1> DEFINE e == EntryOf[t]
<1> USE ConstantsAssumption
<1>1. up[e] = "open" /\ pc[t] \in {"idle", "punch"}
  BY Zenon, Where DEF Releasing, ReleaseStart, Punch, Idle
<1>2. /\ pc' = [pc EXCEPT ![t] = pc'[t]] /\ then' = [then EXCEPT ![t] = then'[t]]
      /\ \/ pc'[t] = "idle" /\ then'[t] = "idle"
         \/ pc'[t] = "flush" /\ then'[t] = "punch"
  <2>1. CASE Punch(t)
    BY ZenonT(60), <2>1 DEF Punch, Goto, Continue, TypeOK
  <2>2. ASSUME NEW S \in SUBSET Pages, ReleaseStart(t, S)
        PROVE  /\ pc' = [pc EXCEPT ![t] = "flush"] /\ pc'[t] = "flush"
               /\ then' = [then EXCEPT ![t] = "punch"] /\ then'[t] = "punch"
    BY ZenonT(60), <2>2 DEF ReleaseStart, Goto, Continue, TypeOK
  <2> QED BY <2>1, <2>2 DEF Releasing
<1>3. UNCHANGED <<up, gen, expect, got, merged, snap, out, meta, tmp>>
  BY Zenon DEF Releasing, ReleaseStart, Punch
<1>4. FileInv'
  BY <1>3, FileFrame DEF IInv
<1>5. PICK S \in SUBSET Pages :
        view' = view \/ view' = [view EXCEPT ![e] = [p \in Pages |-> IF p \in S THEN None
                                                                     ELSE view[e][p]]]
  BY ZenonT(60) DEF Releasing, ReleaseStart, Punch, RetractPages, Present
<1>6. EntryInv(e)'
  <2>1. \A p \in Pages : view'[e][p] \in {None, view[e][p]}
    BY <1>5 DEF TypeOK
  <2> QED BY ZenonT(60), <1>1, <1>3, <2>1 DEF IInv, EntryInv
<1>7. ThreadInv(t)'
  <2>1. pc'[t] \in Steps(up'[e]) \ {"flushLock", "flushLoad"}
    BY <1>1, <1>2, <1>3 DEF Steps, Label
  <2>2. /\ expect'[t] = None /\ got'[t] = None /\ ~merged'[t]
        /\ OneGeneration(snap'[t]) /\ OneGeneration(out'[t])
    BY ZenonT(60), <1>1, <1>3 DEF IInv, ThreadInv
  <2> QED BY Zenon, <1>1, <1>2, <1>3, <2>1, <2>2, ThreadQuiet
<1> QED BY ZenonT(30), <1>1, <1>2, <1>3, <1>4, <1>5, <1>6, <1>7, ReleasingType, StepInv
       DEF SameLocals, SameEntry, TypeOK

LEMMA MarkingInv ==
    ASSUME TypeOK, IInv, NEW t \in Threads, Marking(t)
    PROVE  IInv'
<1> DEFINE e == EntryOf[t]
<1> USE ConstantsAssumption
<1>1. /\ up[e] = "open" /\ pc[t] = "idle"
      /\ pc' = [pc EXCEPT ![t] = "flush"]
      /\ UNCHANGED <<up, gen, view, then, expect, got, merged, snap, out, meta, tmp>>
  BY DEF Marking, SetPinned, TouchAtime, Idle, Goto
<1>2. FileInv' /\ EntryInv(e)'
  BY ZenonT(60), <1>1, FileFrame, EntryFrame DEF IInv, SameEntry
<1>3. ThreadInv(t)'
  <2>1. pc'[t] \in Steps(up'[e]) \ {"flushLock", "flushLoad"}
    BY <1>1 DEF Steps, Label, TypeOK
  <2> QED BY Zenon, <1>1, <2>1, ThreadIdle, ThreadQuiet
<1> QED BY ZenonT(60), <1>1, <1>2, <1>3, MarkingType, StepInv DEF SameLocals, SameEntry, TypeOK

LEMMA ReadingInv ==
    ASSUME TypeOK, IInv, NEW t \in Threads, Reading(t)
    PROVE  IInv'
<1> DEFINE e == EntryOf[t]
<1> USE ConstantsAssumption
<1>1. up[e] = "open" /\ pc[t] \in {"idle", "read", "served"}
  BY ZenonT(60), Where DEF Reading, ReadPlan, ReadDisk, Return, Idle
<1>2. pc' = [pc EXCEPT ![t] = pc'[t]]
  BY ZenonT(60) DEF Reading, ReadPlan, ReadDisk, Return, Goto, TypeOK
<1>3. UNCHANGED <<up, gen, then, merged, snap, out, meta, tmp>>
  BY Zenon DEF Reading, ReadPlan, ReadDisk, Return
<1>4. FileInv'
  BY <1>3, FileFrame DEF IInv
<1>5. /\ expect' = [expect EXCEPT ![t] = expect'[t]]
      /\ got' = [got EXCEPT ![t] = got'[t]]
  <2>1. expect \in [Threads -> Gens \cup {None}] /\ got \in [Threads -> Gens \cup {None}]
    BY Zenon DEF TypeOK
  <2>2. \/ expect' = expect
        \/ \E v : expect' = [expect EXCEPT ![t] = v]
    BY Zenon DEF Reading, ReadPlan, ReadDisk, Return
  <2>3. \/ got' = got
        \/ \E v : got' = [got EXCEPT ![t] = v]
    BY Zenon DEF Reading, ReadPlan, ReadDisk, Return
  <2> QED BY <2>1, <2>2, <2>3
<1>6. \/ view' = view
      \/ view' = [view EXCEPT ![e] = [p \in Pages |-> IF p \in pages[t] THEN None
                                                                      ELSE view[e][p]]]
  BY Zenon DEF Reading, ReadPlan, ReadDisk, Return, RetractPages
<1>7. EntryInv(e)'
  <2>1. \A p \in Pages : view'[e][p] \in {None, view[e][p]}
    BY <1>6 DEF TypeOK
  <2> QED BY ZenonT(60), <1>1, <1>3, <2>1 DEF IInv, EntryInv
<1>8. ThreadInv(t)'
  <2>1. /\ then'[t] = "idle" /\ ~merged'[t]
        /\ OneGeneration(snap'[t]) /\ OneGeneration(out'[t])
    BY ZenonT(60), <1>1, <1>3 DEF IInv, ThreadInv, TypeOK
  <2>2. /\ expect'[t] # None => pc'[t] = "read" /\ expect'[t] = gen[e]
        /\ got'[t] # None => pc'[t] = "served" /\ got'[t] = gen[e]
    <3>1. ASSUME NEW p \in Pages, ReadPlan(t, p)
          PROVE  /\ expect'[t] = view[e][p] /\ pc'[t] = "read"
                 /\ got'[t] = got[t] /\ pc[t] = "idle"
      BY Zenon, <3>1 DEF ReadPlan, Idle, Goto, TypeOK
    <3>2. CASE \E p \in Pages : ReadPlan(t, p)
      <4>1. PICK p \in Pages : ReadPlan(t, p)
        BY Zenon, <3>2
      <4>2. got[t] = None
        BY Zenon, <3>1, <4>1 DEF IInv, ThreadInv
      <4>3. view[e][p] \in {None, gen[e]}
        BY Zenon DEF IInv, EntryInv
      <4> QED BY Zenon, <3>1, <4>1, <4>2, <4>3
    <3>3. CASE ReadDisk(t)
      <4>1. expect'[t] = None /\ got[t] = None /\ expect[t] \in {None, gen[e]}
        BY ZenonT(60), <3>3 DEF ReadDisk, IInv, ThreadInv, TypeOK
      <4>2. got'[t] = got[t] \/ (got'[t] = expect[t] /\ pc'[t] = "served")
        BY Zenon, <3>3 DEF ReadDisk, Verifies, Goto, TypeOK
      <4> QED BY Zenon, <4>1, <4>2
    <3>4. CASE Return(t)
      BY ZenonT(60), <3>4 DEF Return, IInv, ThreadInv, TypeOK
    <3> QED BY ZenonT(60), <3>2, <3>3, <3>4 DEF Reading
  <2>3. pc'[t] \in {"read", "served", "idle", "flush"}
    BY ZenonT(30) DEF Reading, ReadPlan, ReadDisk, Return, Goto, TypeOK
  <2>4. pc'[t] \in Steps(up'[e])
    BY <1>1, <1>3, <2>3 DEF Steps, Label
  <2> QED BY ZenonT(60), <1>3, <2>1, <2>2, <2>3, <2>4 DEF ThreadInv, OneGeneration
<1> QED BY ZenonT(30), <1>1, <1>2, <1>3, <1>4, <1>5, <1>6, <1>7, <1>8, ReadingType, StepInv
       DEF SameLocals, SameEntry, TypeOK

LEMMA StoringInv ==
    ASSUME TypeOK, IInv, NEW t \in Threads, Storing(t)
    PROVE  IInv'
<1> DEFINE e == EntryOf[t]
           Store == {"storeOpen", "storeWrite", "storeRename", "stored"}
<1> USE ConstantsAssumption
<1>1. UNCHANGED <<up, gen, view, then, expect, got, merged, snap, out>>
  BY ZenonT(60) DEF Storing, StoreOpen, StoreWrite, StoreRename
<1>2. pc[t] \in Store /\ pc'[t] \in Store /\ pc' = [pc EXCEPT ![t] = pc'[t]]
  BY ZenonT(60) DEF Storing, StoreOpen, StoreWrite, StoreRename, StoreFails, Goto, TypeOK
<1>3. meta' \in {meta, tmp, out[t], Torn} /\ tmp' \in {tmp, out[t], None, Torn}
  BY ZenonT(60) DEF Storing, StoreOpen, StoreWrite, StoreRename, StoreFails
<1>4. OneGeneration(out[t])
  BY ZenonT(60) DEF IInv, ThreadInv
<1>5. FileInv'
  BY Zenon, <1>3, <1>4 DEF IInv, FileInv, OneGeneration
<1>6. EntryInv(e)'
  BY Zenon, <1>1, EntryFrame DEF IInv, SameEntry
<1>7. ThreadInv(t)'
  <2>1. up[e] \in {"closed", "opening", "open", "closing", "pinning"}
    BY ZenonT(30) DEF TypeOK
  <2>2. pc[t] \in Steps(up[e])
    BY DEF IInv, ThreadInv
  <2>3. pc'[t] \in Steps(up'[e])
    BY <1>1, <1>2, <2>1, <2>2 DEF Steps, Label
  <2> QED BY Zenon, <1>1, <1>2, <2>3 DEF IInv, ThreadInv, OneGeneration, TypeOK
<1>8. Alone(t) \/ up[e] = "open"
  BY <1>2, AloneInside
<1> QED BY ZenonT(60), <1>1, <1>2, <1>5, <1>6, <1>7, <1>8, StoringType, StepInv
       DEF SameLocals, SameEntry, TypeOK

\* A merge stays within one generation.
LEMMA MergeOneGeneration ==
    ASSUME NEW disk \in Image, NEW s \in Image, disk.gen = s.gen,
           NEW d \in [set : SUBSET Pages, clr : SUBSET Pages, pin : BOOLEAN],
           OneGeneration(disk), OneGeneration(s)
    PROVE  Merge(disk, d, s).gen = s.gen /\ OneGeneration(Merge(disk, d, s))
BY DEF Merge, OneGeneration, Image

LEMMA BlankOneGeneration == OneGeneration(Blank)
BY DEF Blank, NoBits, OneGeneration

LEMMA FlushingInv ==
    ASSUME TypeOK, IInv, NEW t \in Threads, Flushing(t)
    PROVE  IInv'
<1> DEFINE e == EntryOf[t]
<1> USE ConstantsAssumption
<1>1. /\ UNCHANGED <<up, gen, then, expect, got, meta, tmp>>
      /\ pc' = [pc EXCEPT ![t] = pc'[t]]
  BY ZenonT(60) DEF Flushing, FlushSnapshot, FlushLock, FlushLoad, FlushStored, Goto, TypeOK
<1>2. FileInv'
  BY <1>1, FileFrame DEF IInv
<1>3. up[e] \in {"open", "closing"} /\ pc[t] \in {"flush", "flushLock", "flushLoad", "stored"}
  BY ZenonT(60), Where DEF Flushing, FlushSnapshot, FlushLock, FlushLoad, FlushStored
<1>4. /\ expect[t] = None /\ got[t] = None
      /\ then[t] = "idle" \/ (then[t] = "punch" /\ up[e] = "open")
                         \/ (then[t] = "close" /\ up[e] = "closing")
      /\ OneGeneration(snap[t]) /\ OneGeneration(out[t])
  BY Zenon, <1>3 DEF IInv, ThreadInv, TypeOK
<1>5. Alone(t) \/ up[e] = "open"
  BY <1>3, AloneInside
<1>6. ASSUME NEW u \in Threads, u # t PROVE SameLocals(u) /\ pc'[u] = pc[u]
  <2>1. merged'[u] = merged[u] /\ snap'[u] = snap[u] /\ out'[u] = out[u]
    <3>1. CASE FlushSnapshot(t)
      <4>1. /\ UNCHANGED <<merged, out>>
            /\ snap' = snap \/ \E s : snap' = [snap EXCEPT ![t] = s]
        BY Zenon, <3>1 DEF FlushSnapshot
      <4>2. snap \in [Threads -> Image]
        BY Zenon DEF TypeOK
      <4> QED BY <1>6, <4>1, <4>2
    <3>2. CASE FlushLock(t)
      <4>1. UNCHANGED flushVars \/ Returned({t})
        BY ZenonT(60), <3>2 DEF FlushLock
      <4>2. CASE Returned({t})
        BY <1>6, <4>2 DEF Returned, TypeOK
      <4> QED BY Zenon, <4>1, <4>2
    <3>3. CASE FlushLoad(t)
      BY ZenonT(60), <1>6, <3>3 DEF FlushLoad, TypeOK
    <3>4. CASE FlushStored(t)
      BY ZenonT(60), <1>6, <3>4 DEF FlushStored, Returned, TypeOK
    <3> QED BY ZenonT(60), <3>1, <3>2, <3>3, <3>4 DEF Flushing
  <2> QED BY ZenonT(60), <1>1, <1>6, <2>1 DEF SameLocals, TypeOK
\* Moving on to where flushMeta was called from, with the locals gone.
<1>7. ASSUME Goto(t, then[t]), ~merged'[t], OneGeneration(snap'[t]), OneGeneration(out'[t])
      PROVE  ThreadInv(t)'
  <2>1. pc'[t] = then[t]
    BY Zenon, <1>7 DEF Goto, TypeOK
  <2>2. pc'[t] \in Steps(up'[e]) \ {"flushLock", "flushLoad"}
    BY <1>1, <1>3, <1>4, <2>1 DEF Steps, Label
  <2> QED BY ZenonT(60), <1>1, <1>4, <1>7, <2>1, <2>2, ThreadQuiet
<1>8. ASSUME Returned({t}) PROVE ~merged'[t] /\ OneGeneration(snap'[t]) /\ OneGeneration(out'[t])
  BY ZenonT(60), <1>8, BlankOneGeneration DEF Returned
<1>9. CASE FlushSnapshot(t)
  <2>1. view' = view /\ merged' = merged /\ out' = out /\ ~merged[t]
    BY ZenonT(60), <1>9 DEF FlushSnapshot, IInv, ThreadInv
  <2>2. EntryInv(e)'
    BY Zenon, <1>1, <2>1, EntryFrame DEF IInv, SameEntry
  <2>3. ThreadInv(t)'
    <3>1. CASE ~dirty[e]
      <4>1. Goto(t, then[t]) /\ snap' = snap
        BY ZenonT(60), <1>9, <3>1 DEF FlushSnapshot
      <4> QED BY ZenonT(60), <1>4, <1>7, <2>1, <4>1
    <3>2. CASE dirty[e]
      <4>1. /\ snap' = [snap EXCEPT ![t] = [gen |-> gen[e], crc |-> view[e], pin |-> pin[e]]]
            /\ Goto(t, "flushLock")
        BY ZenonT(60), <1>9, <3>2 DEF FlushSnapshot
      <4>2. snap'[t] = [gen |-> gen[e], crc |-> view[e], pin |-> pin[e]] /\ pc'[t] = "flushLock"
        BY ZenonT(30), <4>1 DEF Goto, TypeOK
      <4>3. OneGeneration(snap'[t]) /\ snap'[t].gen = gen[e]
        BY SMTT(60), <4>2 DEF OneGeneration, IInv, EntryInv
      <4>4. pc'[t] \in Steps(up'[e])
        BY <1>1, <1>3, <4>2 DEF Steps, Label
      <4> QED BY ZenonT(60), <1>1, <1>4, <2>1, <4>2, <4>3, <4>4 DEF ThreadInv, OneGeneration
    <3> QED BY <3>1, <3>2
  <2> QED BY ZenonT(60), <1>1, <1>2, <1>5, <1>6, <2>1, <2>2, <2>3, FlushingType, StepInv DEF SameEntry
<1>10. CASE FlushLock(t)
  <2>1. view' = view
    BY ZenonT(60), <1>10 DEF FlushLock
  <2>2. EntryInv(e)'
    BY ZenonT(60), <1>1, <2>1, EntryFrame DEF IInv, SameEntry
  <2>3. ThreadInv(t)'
    <3>1. CASE Goto(t, then[t]) /\ Returned({t})
      BY ZenonT(60), <1>7, <1>8, <3>1
    <3>2. CASE Goto(t, "flushLoad") /\ UNCHANGED flushVars
      <4>1. pc'[t] = "flushLoad" /\ pc[t] = "flushLock"
        BY ZenonT(60), <1>10, <3>2 DEF FlushLock, Goto, TypeOK
      <4>2. pc'[t] \in Steps(up'[e])
        BY <1>1, <1>3, <4>1 DEF Steps, Label
      <4> QED BY ZenonT(60), <1>1, <1>4, <3>2, <4>1, <4>2 DEF IInv, ThreadInv, OneGeneration
    <3> QED BY ZenonT(60), <1>10, <3>1, <3>2 DEF FlushLock
  <2> QED BY Zenon, <1>1, <1>2, <1>5, <1>6, <2>1, <2>2, <2>3, FlushingType, StepInv DEF SameEntry
<1>11. CASE FlushLoad(t)
  <2> DEFINE fromDisk == Adoptable(meta, snap[t].gen)
  <2>1. /\ view' = view /\ snap' = snap /\ pc'[t] = "storeOpen" /\ pc[t] = "flushLoad"
        /\ out'[t] = IF fromDisk THEN Merge(meta, delta[t], snap[t]) ELSE snap[t]
        /\ merged'[t] = fromDisk
    BY ZenonT(60), <1>11 DEF FlushLoad, Goto, TypeOK
  <2>2. EntryInv(e)'
    BY ZenonT(60), <1>1, <2>1, EntryFrame DEF IInv, SameEntry
  <2>3. snap[t].gen = gen[e] /\ snap[t] \in Image /\ OneGeneration(snap[t])
    BY ZenonT(60), <2>1 DEF IInv, ThreadInv, TypeOK
  <2>4. out'[t].gen = gen[e] /\ OneGeneration(out'[t])
    <3>1. CASE ~fromDisk
      BY ZenonT(60), <2>1, <2>3, <3>1
    <3>2. CASE fromDisk
      <4>1. meta \in Image /\ meta.gen = snap[t].gen /\ OneGeneration(meta)
        BY ZenonT(30), <3>2, AdoptableType DEF Adoptable, IInv, FileInv
      <4>2. delta[t] \in [set : SUBSET Pages, clr : SUBSET Pages, pin : BOOLEAN]
        BY DEF TypeOK
      <4>3. out'[t] = Merge(meta, delta[t], snap[t])
        BY ZenonT(30), <2>1, <3>2
      <4>4. /\ Merge(meta, delta[t], snap[t]).gen = snap[t].gen
            /\ OneGeneration(Merge(meta, delta[t], snap[t]))
        BY <2>3, <4>1, <4>2, MergeOneGeneration
      <4> QED BY <2>3, <4>3, <4>4
    <3> QED BY ZenonT(60), <3>1, <3>2
  <2>5. ThreadInv(t)'
    <3>1. pc'[t] \in Steps(up'[e])
      BY <1>1, <1>3, <2>1 DEF Steps, Label
    <3> QED BY Zenon, <1>1, <1>4, <2>1, <2>3, <2>4, <3>1 DEF ThreadInv, OneGeneration
  <2> QED BY ZenonT(60), <1>1, <1>2, <1>5, <1>6, <2>1, <2>2, <2>5, FlushingType, StepInv DEF SameEntry
<1>12. CASE FlushStored(t)
  <2>1. Goto(t, then[t]) /\ Returned({t})
    BY ZenonT(60), <1>12 DEF FlushStored
  <2>2. ThreadInv(t)'
    BY <1>7, <1>8, <2>1
  <2>3. \/ view' = view
        \/ /\ merged[t]
           /\ view' = [view EXCEPT ![e] = [p \in Pages |->
                 IF p \in setSince[e] \cup clearedSince[e] THEN view[e][p] ELSE out[t].crc[p]]]
    BY ZenonT(60), <1>12 DEF FlushStored, Rearm, AdoptCommitted
  <2>4. merged[t] => out[t].gen = gen[e]
    BY Zenon DEF IInv, ThreadInv
  <2>5. \A p \in Pages : view'[e][p] \in {None, gen[e]}
    <3>1. \A p \in Pages : view[e][p] \in {None, gen[e]}
      BY ZenonT(30) DEF IInv, EntryInv
    <3>2. merged[t] => \A p \in Pages : out[t].crc[p] \in {None, gen[e]}
      BY ZenonT(30), <1>4, <2>4 DEF OneGeneration
    <3>3. e \in DOMAIN view
      BY DEF TypeOK
    <3> QED BY <2>3, <3>1, <3>2, <3>3
  <2>6. EntryInv(e)'
    BY ZenonT(30), <1>1, <1>3, <2>5 DEF EntryInv
  <2>7. \A x \in Entries \ {e} : view'[x] = view[x]
    BY ZenonT(30), <2>3 DEF TypeOK
  <2> QED BY ZenonT(60), <1>1, <1>2, <1>5, <1>6, <2>2, <2>6, <2>7, FlushingType, StepInv DEF SameEntry
<1> QED BY <1>9, <1>10, <1>11, <1>12 DEF Flushing

\* An entry that is gone leaves nothing behind for its next generation.
LEMMA DestroyedEntry ==
    ASSUME TypeOK, NEW e \in Entries, Destroyed(e)
    PROVE  /\ EntryInv(e)' /\ up'[e] = "closed"
           /\ \A x \in Entries \ {e} : SameEntry(x) /\ view'[x] = view[x]
BY DEF Destroyed, EntryInv, SameEntry, NoBits, TypeOK

LEMMA OpeningInv ==
    ASSUME TypeOK, IInv, NEW t \in Threads, Opening(t)
    PROVE  IInv'
<1> DEFINE e == EntryOf[t]
<1> USE ConstantsAssumption
<1>1. UNCHANGED <<then, expect, got, meta, tmp>> /\ pc' = [pc EXCEPT ![t] = pc'[t]]
  <2>1. UNCHANGED <<then, expect, got, meta, tmp>>
    BY ZenonT(60) DEF Opening, OpenCreate, OpenLoad, OpenLock, OpenReload, OpenStored
  <2>2. \E l \in Label : Goto(t, l)
    BY Zenon DEF Opening, OpenCreate, OpenLoad, OpenLock, OpenReload, OpenStored, Label
  <2> QED BY <2>1, <2>2 DEF Goto, TypeOK
<1>2. FileInv'
  BY <1>1, FileFrame DEF IInv
<1>3. up[e] \in {"closed", "opening"} /\ (pc[t] # "idle" \/ up[e] = "closed")
  BY Zenon, Where DEF Opening, OpenCreate, OpenLoad, OpenLock, OpenReload, OpenStored
<1>4. Alone(t)
  BY <1>3, AloneInside
<1>5. then[t] = "idle" /\ expect[t] = None /\ got[t] = None
      /\ OneGeneration(snap[t]) /\ OneGeneration(out[t])
  <2>1. pc[t] \notin {"read", "served"}
    BY <1>3, Where
  <2> QED BY ZenonT(30), <1>3, <2>1 DEF IInv, ThreadInv, TypeOK
<1>6. ASSUME NEW u \in Threads, u # t,
             merged'[u] = merged[u], snap'[u] = snap[u], out'[u] = out[u]
      PROVE  SameLocals(u) /\ pc'[u] = pc[u]
  BY ZenonT(60), <1>1, <1>6 DEF SameLocals, TypeOK
<1>7. ASSUME pc'[t] \in Steps(up'[e]) \ {"flushLock", "flushLoad"}, ~merged'[t],
             OneGeneration(snap'[t]), OneGeneration(out'[t])
      PROVE  ThreadInv(t)'
  BY ZenonT(60), <1>1, <1>5, <1>7, ThreadQuiet
<1>8. ASSUME NEW g \in Gens, OpenCreate(t, g) PROVE IInv'
  <2>1. /\ up[e] = "closed" /\ up' = [up EXCEPT ![e] = "opening"]
        /\ gen' = [gen EXCEPT ![e] = g] /\ UNCHANGED <<view, merged, snap, out>>
        /\ pc'[t] = "openLoad"
    BY ZenonT(60), <1>8 DEF OpenCreate, Goto, TypeOK
  <2>2. EntryInv(e)'
    <3>1. view[e] = NoBits
      BY Zenon, <2>1 DEF IInv, EntryInv
    <3>2. view'[e] = NoBits /\ up'[e] = "opening"
      <4>1. up \in [Entries -> {"closed", "opening", "open", "closing", "pinning"}]
        BY Zenon DEF TypeOK
      <4> QED BY <2>1, <3>1, <4>1
    <3> QED BY Zenon, <3>2 DEF EntryInv, NoBits
  <2>3. pc'[t] \in Steps(up'[e]) \ {"flushLock", "flushLoad"}
    BY <2>1 DEF Steps, TypeOK
  <2>4. ThreadInv(t)'
    BY Zenon, <1>3, <1>5, <1>7, <2>1, <2>3, Where, ThreadIdle
  <2> QED BY ZenonT(30), <1>2, <1>4, <1>6, <1>8, <2>1, <2>2, <2>4, OpeningType, StepInv
         DEF SameEntry, TypeOK, Opening
<1>9. ASSUME pc[t] \in {"openLoad", "openLock", "openReload"}
      PROVE  ~merged[t]
  BY Zenon, <1>9, ThreadIdle
<1>10. CASE OpenLoad(t)
  <2>1. /\ UNCHANGED <<gen, merged, snap, out>> /\ ~merged[t] /\ up[e] = "opening"
    BY ZenonT(60), <1>9, <1>10, Where DEF OpenLoad, Adopt
  <2>2. CASE Adoptable(meta, gen[e])
    <3>1. /\ view' = [view EXCEPT ![e] = meta.crc] /\ up' = [up EXCEPT ![e] = "open"]
          /\ pc'[t] = "idle"
      BY ZenonT(60), <1>10, <2>2 DEF OpenLoad, Adopt, Goto, TypeOK
    <3>2. EntryInv(e)'
      BY Zenon, <2>1, <2>2, <3>1 DEF IInv, FileInv, Adoptable, OneGeneration, EntryInv, TypeOK
    <3>3. pc'[t] \in Steps(up'[e]) \ {"flushLock", "flushLoad"}
      BY <3>1 DEF Steps, Label, TypeOK
    <3>4. ThreadInv(t)'
      BY ZenonT(60), <1>5, <1>7, <2>1, <3>3
    <3> QED BY ZenonT(30), <1>2, <1>4, <1>6, <2>1, <3>1, <3>2, <3>4, OpeningType, StepInv
           DEF SameEntry, TypeOK
  <2>3. CASE ~Adoptable(meta, gen[e])
    <3>1. UNCHANGED <<view, up>> /\ pc'[t] = "openLock"
      BY ZenonT(60), <1>10, <2>3 DEF OpenLoad, Goto, TypeOK
    <3>2. EntryInv(e)'
      BY Zenon, <2>1, <3>1, EntryFrame DEF IInv, SameEntry
    <3>3. pc'[t] \in Steps(up'[e]) \ {"flushLock", "flushLoad"}
      BY <2>1, <3>1 DEF Steps
    <3>4. ThreadInv(t)'
      BY ZenonT(60), <1>5, <1>7, <2>1, <3>3
    <3> QED BY ZenonT(60), <1>2, <1>4, <1>6, <2>1, <3>1, <3>2, <3>4, OpeningType, StepInv
           DEF SameEntry
  <2> QED BY <2>2, <2>3
<1>11. CASE OpenLock(t)
  <2>1. /\ UNCHANGED <<gen, view, up, merged, snap, out>> /\ ~merged[t] /\ up[e] = "opening"
        /\ pc'[t] = "openReload"
    BY ZenonT(60), <1>9, <1>11, Where DEF OpenLock, Goto, TypeOK
  <2>2. EntryInv(e)'
    BY Zenon, <2>1, EntryFrame DEF IInv, SameEntry
  <2>3. pc'[t] \in Steps(up'[e]) \ {"flushLock", "flushLoad"}
    BY <2>1 DEF Steps
  <2>4. ThreadInv(t)'
    BY ZenonT(60), <1>5, <1>7, <2>1, <2>3
  <2> QED BY ZenonT(60), <1>2, <1>4, <1>6, <2>1, <2>2, <2>4, OpeningType, StepInv DEF SameEntry
<1>12. CASE OpenReload(t)
  <2>1. UNCHANGED <<merged, snap>> /\ ~merged[t] /\ up[e] = "opening"
    BY ZenonT(60), <1>9, <1>12, Where DEF OpenReload
  <2>2. CASE /\ Adoptable(meta, gen[e]) /\ Adopt(e) /\ Goto(t, "idle") /\ UNCHANGED out
    <3>1. /\ view' = [view EXCEPT ![e] = meta.crc] /\ up' = [up EXCEPT ![e] = "open"]
          /\ pc'[t] = "idle" /\ UNCHANGED gen
      BY <2>2 DEF Adopt, Goto, TypeOK
    <3>2. EntryInv(e)'
      BY ZenonT(30), <2>1, <2>2, <3>1 DEF IInv, FileInv, Adoptable, OneGeneration, EntryInv, TypeOK
    <3>3. pc'[t] \in Steps(up'[e]) \ {"flushLock", "flushLoad"}
      BY <3>1 DEF Steps, Label, TypeOK
    <3>4. ThreadInv(t)'
      BY ZenonT(60), <1>5, <1>7, <2>1, <2>2, <3>3
    <3> QED BY Zenon, <1>2, <1>4, <1>6, <2>1, <2>2, <3>1, <3>2, <3>4, OpeningType, StepInv
           DEF SameEntry, TypeOK
  <2>3. CASE /\ view' = [view EXCEPT ![e] = NoBits]
             /\ out' = [out EXCEPT ![t] = [gen |-> gen[e], crc |-> NoBits, pin |-> FALSE]]
             /\ Goto(t, "storeOpen") /\ UNCHANGED <<up, gen>>
    <3>1. /\ view'[e] = NoBits /\ pc'[t] = "storeOpen"
          /\ out'[t] = [gen |-> gen[e], crc |-> NoBits, pin |-> FALSE]
      BY ZenonT(60), <2>3 DEF Goto, TypeOK
    <3>2. EntryInv(e)' /\ OneGeneration(out'[t])
      <4>1. \A p \in Pages : NoBits[p] = None
        BY DEF NoBits
      <4>2. EntryInv(e)'
        BY ZenonT(30), <3>1, <4>1 DEF EntryInv
      <4>3. out'[t].gen = gen[e] /\ out'[t].crc = NoBits
        BY <3>1
      <4> QED BY Zenon, <4>1, <4>2, <4>3 DEF OneGeneration
    <3>3. pc'[t] \in Steps(up'[e]) \ {"flushLock", "flushLoad"}
      BY <2>1, <2>3, <3>1 DEF Steps
    <3>4. ThreadInv(t)'
      BY Zenon, <1>5, <1>7, <2>1, <3>2, <3>3
    <3> QED BY ZenonT(30), <1>2, <1>4, <1>6, <2>1, <2>3, <3>2, <3>4, OpeningType, StepInv
           DEF SameEntry, TypeOK
  <2>4. CASE Destroyed(e) /\ Goto(t, "idle") /\ UNCHANGED out
    <3>1. pc'[t] = "idle"
      BY <2>4 DEF Goto, TypeOK
    <3>2. pc'[t] \in Steps(up'[e]) \ {"flushLock", "flushLoad"}
      BY <2>4, <3>1, DestroyedEntry DEF Steps
    <3>3. ThreadInv(t)'
      BY ZenonT(60), <1>5, <1>7, <2>1, <2>4, <3>2
    <3> QED BY ZenonT(60), <1>2, <1>4, <1>6, <2>1, <2>4, <3>3, OpeningType, StepInv, DestroyedEntry
  <2> QED BY ZenonT(60), <1>12, <2>2, <2>3, <2>4 DEF OpenReload
<1>13. CASE OpenStored(t)
  <2>1. /\ up' = [up EXCEPT ![e] = "open"] /\ UNCHANGED <<gen, view>> /\ Returned({t})
        /\ pc'[t] = "idle" /\ up[e] = "opening"
    BY ZenonT(60), <1>13 DEF OpenStored, Goto, TypeOK
  <2>2. EntryInv(e)'
    BY ZenonT(60), <2>1 DEF IInv, EntryInv, TypeOK
  <2>3. ~merged'[t] /\ OneGeneration(snap'[t]) /\ OneGeneration(out'[t])
    BY ZenonT(60), <2>1, BlankOneGeneration DEF Returned
  <2>4. \A u \in Threads \ {t} : merged'[u] = merged[u] /\ snap'[u] = snap[u] /\ out'[u] = out[u]
    BY Zenon, <2>1 DEF Returned, TypeOK
  <2>5. pc'[t] \in Steps(up'[e]) \ {"flushLock", "flushLoad"}
    BY SMTT(20), <2>1 DEF Steps, Label, TypeOK
  <2>6. ThreadInv(t)'
    BY <1>7, <2>3, <2>5
  <2> QED BY ZenonT(30), <1>2, <1>4, <1>6, <2>1, <2>2, <2>4, <2>6, OpeningType, StepInv
         DEF SameEntry, TypeOK
<1> QED BY ZenonT(30), <1>8, <1>10, <1>11, <1>12, <1>13 DEF Opening

LEMMA ClosingInv ==
    ASSUME TypeOK, IInv, NEW t \in Threads, Closing(t)
    PROVE  IInv'
<1> DEFINE e == EntryOf[t]
<1> USE ConstantsAssumption
<1>1. CASE CloseStart(t)
  <2>1. /\ Alone(t) /\ pc[t] = "idle"
        /\ up' = [up EXCEPT ![e] = "closing"] /\ pc' = [pc EXCEPT ![t] = "flush"]
        /\ then' = [then EXCEPT ![t] = "close"] /\ up[e] = "open"
        /\ UNCHANGED <<gen, view, expect, got, merged, snap, out, meta, tmp>>
    BY <1>1 DEF CloseStart, Alone, Goto, Continue
  <2>2. up'[e] = "closing" /\ pc'[t] = "flush" /\ then'[t] = "close"
    BY ZenonT(60), <2>1 DEF TypeOK
  <2>3. FileInv' /\ EntryInv(e)'
    BY Zenon, <2>1, <2>2, FileFrame DEF IInv, EntryInv
  <2>4. pc'[t] \in Steps(up'[e]) \ {"flushLock", "flushLoad"}
    BY <2>2 DEF Steps
  <2>5. ThreadInv(t)'
    BY ZenonT(60), <2>1, <2>2, <2>4, ThreadIdle, ThreadQuiet
  <2> QED BY ZenonT(60), <2>1, <2>3, <2>5, ClosingType, StepInv DEF SameEntry, SameLocals, TypeOK
<1>2. CASE Close(t)
  <2>1. /\ pc[t] = "close" /\ Destroyed(e)
        /\ pc' = [pc EXCEPT ![t] = "idle"] /\ then' = [then EXCEPT ![t] = "idle"]
        /\ UNCHANGED <<expect, got, merged, snap, out, meta, tmp>>
    BY ZenonT(30), <1>2 DEF Close, Goto, Continue
  <2>2. pc'[t] = "idle" /\ then'[t] = "idle"
    BY <2>1 DEF TypeOK
  <2>3. Alone(t)
    BY <2>1, Where, AloneInside
  <2>4. FileInv' /\ EntryInv(e)' /\ up'[e] = "closed"
    BY ZenonT(60), <2>1, FileFrame, DestroyedEntry DEF IInv
  <2>5. /\ expect'[t] = None /\ got'[t] = None /\ ~merged'[t]
        /\ OneGeneration(snap'[t]) /\ OneGeneration(out'[t])
    BY Zenon, <2>1 DEF IInv, ThreadInv
  <2>6. pc'[t] \in Steps(up'[e]) \ {"flushLock", "flushLoad"}
    BY <2>2, <2>4 DEF Steps
  <2>7. ThreadInv(t)'
    BY ZenonT(60), <2>2, <2>5, <2>6, ThreadQuiet
  <2>8. \A u \in Threads \ {t} : SameLocals(u) /\ pc'[u] = pc[u]
    BY ZenonT(60), <2>1 DEF SameLocals, TypeOK
  <2> QED BY Zenon, <2>1, <2>3, <2>4, <2>7, <2>8, DestroyedEntry, ClosingType, StepInv
<1> QED BY <1>1, <1>2 DEF Closing

LEMMA PinningInv ==
    ASSUME TypeOK, IInv, NEW t \in Threads, PinningByKey(t)
    PROVE  IInv'
<1> DEFINE e == EntryOf[t]
<1> USE ConstantsAssumption
<1>1. UNCHANGED <<then, expect, got, meta, tmp>> /\ \E l \in Label : Goto(t, l)
  BY ZenonT(30) DEF PinningByKey, PinOpen, PinLock, PinLoad, PinStored, Label
<1>2. pc' = [pc EXCEPT ![t] = pc'[t]]
  BY <1>1 DEF Goto, TypeOK
<1>3. up[e] \in {"closed", "pinning"} /\ (pc[t] # "idle" \/ up[e] = "closed")
  BY ZenonT(30), Where DEF PinningByKey, PinOpen, PinLock, PinLoad, PinStored
<1>4. Alone(t) /\ FileInv'
  BY <1>1, <1>3, AloneInside, FileFrame DEF IInv
<1>5. /\ then[t] = "idle" /\ expect[t] = None /\ got[t] = None
      /\ OneGeneration(snap[t]) /\ OneGeneration(out[t])
  <2>1. pc[t] \notin {"read", "served"}
    BY <1>3, Where
  <2> QED BY ZenonT(30), <1>3, <2>1 DEF IInv, ThreadInv, TypeOK
<1>6. ASSUME NEW u \in Threads, u # t,
             merged'[u] = merged[u], snap'[u] = snap[u], out'[u] = out[u]
      PROVE  SameLocals(u) /\ pc'[u] = pc[u]
  BY ZenonT(60), <1>1, <1>2, <1>6 DEF SameLocals, TypeOK
<1>7. ASSUME pc'[t] \in Steps(up'[e]) \ {"flushLock", "flushLoad"}, ~merged'[t],
             OneGeneration(snap'[t]), OneGeneration(out'[t])
      PROVE  ThreadInv(t)'
  BY ZenonT(60), <1>1, <1>5, <1>7, ThreadQuiet
<1>8. pc[t] \in {"idle", "pinLock", "pinLoad"} => ~merged[t]
  BY ZenonT(60), ThreadIdle
\* The descriptor is closed without a store.
<1>9. ASSUME Destroyed(e), Goto(t, "idle"), UNCHANGED <<merged, snap, out>>, ~merged[t]
      PROVE  IInv'
  <2>1. pc'[t] = "idle"
    BY <1>9 DEF Goto, TypeOK
  <2>2. pc'[t] \in Steps(up'[e]) \ {"flushLock", "flushLoad"}
    BY <1>9, <2>1, DestroyedEntry DEF Steps
  <2>3. ThreadInv(t)'
    BY ZenonT(60), <1>5, <1>7, <1>9, <2>2
  <2> QED BY ZenonT(60), <1>4, <1>6, <1>9, <2>3, DestroyedEntry, PinningType, StepInv
<1>10. ASSUME NEW b \in BOOLEAN, PinOpen(t, b) PROVE IInv'
  <2>1. /\ up[e] = "closed" /\ up' = [up EXCEPT ![e] = "pinning"]
        /\ UNCHANGED <<gen, view, merged, snap, out>> /\ pc'[t] = "pinLock"
    BY ZenonT(60), <1>10 DEF PinOpen, Goto, TypeOK
  <2>2. up'[e] = "pinning" /\ pc[t] = "idle"
    BY ZenonT(60), <2>1, Where DEF TypeOK
  <2>3. EntryInv(e)'
    BY Zenon, <2>1, <2>2 DEF IInv, EntryInv
  <2>4. pc'[t] \in Steps(up'[e]) \ {"flushLock", "flushLoad"}
    BY <2>1, <2>2 DEF Steps
  <2>5. ThreadInv(t)'
    BY ZenonT(60), <1>5, <1>7, <1>8, <2>1, <2>2, <2>4
  <2> QED BY ZenonT(30), <1>4, <1>6, <2>1, <2>3, <2>5, PinningType, StepInv DEF SameEntry, TypeOK
<1>11. CASE PinLock(t)
  <2>1. UNCHANGED <<merged, snap, out>> /\ ~merged[t] /\ up[e] = "pinning"
    BY ZenonT(60), <1>8, <1>11, Where DEF PinLock
  <2>2. CASE Goto(t, "pinLoad") /\ UNCHANGED entVars
    <3>1. UNCHANGED <<up, gen, view>> /\ pc'[t] = "pinLoad"
      BY ZenonT(60), <2>2 DEF Goto, TypeOK
    <3>2. EntryInv(e)'
      BY Zenon, <3>1, EntryFrame DEF IInv, SameEntry
    <3>3. pc'[t] \in Steps(up'[e]) \ {"flushLock", "flushLoad"}
      BY <2>1, <3>1 DEF Steps
    <3>4. ThreadInv(t)'
      BY Zenon, <1>5, <1>7, <2>1, <3>3
    <3> QED BY ZenonT(60), <1>4, <1>6, <2>1, <3>1, <3>2, <3>4, PinningType, StepInv DEF SameEntry
  <2> QED BY ZenonT(60), <1>9, <1>11, <2>1, <2>2 DEF PinLock
<1>12. CASE PinLoad(t)
  <2>1. UNCHANGED <<merged, snap>> /\ ~merged[t] /\ up[e] = "pinning"
    BY <1>8, <1>12, Where DEF PinLoad
  <2>2. CASE meta \in {None, Torn}
    BY <1>9, <1>12, <2>1, <2>2 DEF PinLoad
  <2>3. CASE meta \notin {None, Torn}
    <3>1. /\ out' = [out EXCEPT ![t] = [meta EXCEPT !.pin = pin[e]]]
          /\ Goto(t, "storeOpen") /\ UNCHANGED <<up, gen, view>>
      BY <1>12, <2>3 DEF PinLoad
    <3>2. pc'[t] = "storeOpen" /\ out'[t] = [meta EXCEPT !.pin = pin[e]]
      BY <3>1 DEF Goto, TypeOK
    <3>3. OneGeneration(out'[t])
      <4>1. meta \in Image /\ OneGeneration(meta)
        BY Zenon, <2>3 DEF TypeOK, IInv, FileInv
      <4> QED BY <3>2, <4>1 DEF OneGeneration, Image
    <3>4. EntryInv(e)'
      BY <3>1, EntryFrame DEF IInv, SameEntry
    <3>5. pc'[t] \in Steps(up'[e]) \ {"flushLock", "flushLoad"}
      BY <2>1, <3>1, <3>2 DEF Steps
    <3>6. ThreadInv(t)'
      BY ZenonT(60), <1>5, <1>7, <2>1, <3>3, <3>5
    <3> QED BY ZenonT(30), <1>4, <1>6, <2>1, <3>1, <3>4, <3>6, PinningType, StepInv DEF SameEntry, TypeOK
  <2> QED BY <2>2, <2>3
<1>13. CASE PinStored(t)
  <2>1. Destroyed(e) /\ Returned({t}) /\ pc'[t] = "idle"
    BY ZenonT(60), <1>13 DEF PinStored, Goto, TypeOK
  <2>2. ~merged'[t] /\ OneGeneration(snap'[t]) /\ OneGeneration(out'[t])
    BY ZenonT(60), <2>1, BlankOneGeneration DEF Returned
  <2>3. \A u \in Threads \ {t} : merged'[u] = merged[u] /\ snap'[u] = snap[u] /\ out'[u] = out[u]
    BY Zenon, <2>1 DEF Returned, TypeOK
  <2>4. pc'[t] \in Steps(up'[e]) \ {"flushLock", "flushLoad"}
    BY <2>1, DestroyedEntry DEF Steps
  <2>5. ThreadInv(t)'
    BY <1>7, <2>2, <2>4
  <2> QED BY ZenonT(60), <1>4, <1>6, <2>1, <2>3, <2>5, DestroyedEntry, PinningType, StepInv
<1> QED BY <1>10, <1>11, <1>12, <1>13 DEF PinningByKey

LEMMA CrashInv ==
    ASSUME TypeOK, IInv, NEW e \in Entries, Crash(e)
    PROVE  IInv'
<1> DEFINE mine == {t \in Threads : EntryOf[t] = e}
<1> USE ConstantsAssumption
<1>1. UNCHANGED <<meta, tmp>> /\ Destroyed(e) /\ Returned(mine)
  BY ZenonT(60) DEF Crash
<1>2. FileInv' /\ up'[e] = "closed"
  BY ZenonT(60), <1>1, FileFrame, DestroyedEntry DEF IInv
<1>3. ASSUME NEW x \in Entries PROVE EntryInv(x)'
  BY Zenon, <1>1, DestroyedEntry, EntryFrame DEF IInv
<1>4. ASSUME NEW u \in Threads PROVE ThreadInv(u)'
  <2>1. CASE u \in mine
    <3>1. /\ pc'[u] = "idle" /\ then'[u] = "idle" /\ expect'[u] = None /\ got'[u] = None
          /\ EntryOf[u] = e
      BY ZenonT(60), <2>1 DEF Crash
    <3>2. ~merged'[u] /\ OneGeneration(snap'[u]) /\ OneGeneration(out'[u])
      BY Zenon, <1>1, <2>1, BlankOneGeneration DEF Returned
    <3>3. pc'[u] \in Steps(up'[EntryOf[u]]) \ {"flushLock", "flushLoad"}
      BY <1>2, <3>1 DEF Steps
    <3> QED BY ZenonT(60), <3>1, <3>2, <3>3, ThreadQuiet
  <2>2. CASE u \notin mine
    <3>1. pc'[u] = pc[u] /\ then'[u] = then[u] /\ expect'[u] = expect[u] /\ got'[u] = got[u]
      BY ZenonT(60), <2>2 DEF Crash
    <3>2. merged'[u] = merged[u] /\ snap'[u] = snap[u] /\ out'[u] = out[u]
      BY ZenonT(60), <1>1, <2>2 DEF Returned, TypeOK
    <3>3. SameEntry(EntryOf[u])
      BY Zenon, <1>1, <2>2, DestroyedEntry
    <3> QED BY ZenonT(60), <3>1, <3>2, <3>3, ThreadFrame DEF IInv, SameLocals
  <2> QED BY <2>1, <2>2
<1>5. ASSUME NEW u \in Threads, NEW v \in Threads PROVE PairInv(u, v)'
  <2>1. CASE EntryOf[u] = e
    BY ZenonT(60), <2>1 DEF Crash, PairInv
  <2>2. CASE EntryOf[u] # e
    <3>1. SameEntry(EntryOf[u]) /\ pc'[u] = pc[u] /\ (EntryOf[v] = EntryOf[u] => pc'[v] = pc[v])
      BY ZenonT(60), <1>1, <2>2, DestroyedEntry DEF Crash
    <3> QED BY ZenonT(60), <3>1 DEF IInv, PairInv, SameEntry
  <2> QED BY <2>1, <2>2
<1> QED BY <1>2, <1>3, <1>4, <1>5 DEF IInv

LEMMA UnlinkingInv ==
    ASSUME TypeOK, IInv, Unlinking
    PROVE  IInv'
<1>1. UNCHANGED <<entVars, pc, then, expect, got, merged, snap, out, tmp>>
  BY ZenonT(60) DEF Unlinking, EvictCheck, InvalidateStart, UnlinkData, UnlinkMeta, EvictorCrash
<1>2. meta' \in {meta, None}
  BY Zenon DEF Unlinking, EvictCheck, InvalidateStart, UnlinkData, UnlinkMeta, EvictorCrash
<1>3. FileInv'
  BY <1>1, <1>2 DEF IInv, FileInv, OneGeneration
<1> QED BY ZenonT(60), <1>1, <1>3 DEF IInv, EntryInv, ThreadInv, PairInv, OneGeneration

LEMMA NextInv == TypeOK /\ IInv /\ [Next]_vars => IInv'
<1> SUFFICES ASSUME TypeOK, IInv, [Next]_vars PROVE IInv'
  OBVIOUS
<1>1. CASE UNCHANGED vars
  BY ZenonT(60), <1>1 DEF vars, IInv, FileInv, EntryInv, ThreadInv, PairInv, OneGeneration
<1> QED
  BY <1>1, OpeningInv, StoringInv, FlushingInv, FillingInv, ReleasingInv, ReadingInv,
     MarkingInv, ClosingInv, PinningInv, CrashInv, UnlinkingInv DEF Next

\* No sidecar, view, commit or expected CRC ever mixes generations: what
\* adoptable() compares is enough, whoever opens, commits, evicts or dies.
THEOREM GenerationsKeptApart == Spec => []OwnGeneration
BY InitInv, NextInv, IInvImplies, TypeCorrect, PTL DEF Spec

\* readCached hands out only bytes of the generation its handle was opened for.
THEOREM ReadsServeOrigin == Spec => []ServedOrigin
BY InitInv, NextInv, IInvImplies, TypeCorrect, PTL DEF Spec
=============================================================================
