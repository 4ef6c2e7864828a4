----------------------------- MODULE Relocation -----------------------------
(***************************************************************************)
(* The layout a TTree file is shown in while it is converted on its first  *)
(* read (FillLayout.cc): every basket of a relocatable branch gets a slot  *)
(* past the end of the file, the tree's metadata key comes first there,    *)
(* and the header and the keys list are patched in place.  Then, basket by *)
(* basket, the record that goes into a slot, and which pages of the        *)
(* original file the byte cache still keeps (ColdRun.cc: storableRuns,     *)
(* pageDeadLocked and the punch at the end of a commit).                   *)
(*                                                                         *)
(* Sizes are small numbers: Big stands for 2^31, HeaderBytes for the 75    *)
(* bytes of a 64-bit header, ListFrom for the 100 bytes the keys list has  *)
(* to keep clear of.  A record is its kind and its length.                 *)
(***************************************************************************)
EXTENDS Ranges

CONSTANTS
    Files,        \* the files: see the fields layoutForFill reads
    Results,      \* what converting a basket can give: codec, raw and zstd size
    Factor100,    \* the slot factor, in hundredths
    Align, Big, HeaderBytes, ListFrom,
    Page,         \* the byte cache's page size
    KeepHead,     \* the first bytes of the file are never released
    MaxForgets,   \* bound on records whose check fails
    Declined, Unknown

VARIABLES
    file,         \* the file
    layout,       \* its layout; Declined serves the file as it is
    slot,         \* slot[i]: where the record of basket i is, its kind and length,
                  \* and whether its original came from the byte cache
    pages,        \* pages of the original in the byte cache
    failed,       \* a request was answered with an error
    forgets

lvars == <<file, layout, slot, pages, failed, forgets>>

NoRecord == [at |-> "none", kind |-> "none", len |-> 0, cached |-> FALSE]

-----------------------------------------------------------------------------
(* A key's fSeekKey at its own width.                                      *)
putKeySeek(wide, seek) == wide \/ seek < Big

headerWindow(large, end) ==
    IF large THEN <<2, 4>> ELSE IF end < Big THEN <<2, 3>> ELSE <<0, HeaderBytes>>

Listed(codec) == codec = "listed"
Inside(b, fend) == b.seek > 0 /\ b.len > 0 /\ b.seek + b.len <= fend
Relocatable(br, fend) ==
    /\ br.baskets # <<>> /\ ~br.external /\ Listed(br.codec)
    /\ \A i \in DOMAIN br.baskets : Inside(br.baskets[i], fend)

(* Slots in branch order, one after the other.                             *)
SlotLen(len) == (len * Factor100) \div 100
SlotStep(slots, b, begin) ==
    Append(slots, [orig |-> b.seek, olen |-> b.len, wide |-> b.wide, vlen |-> SlotLen(b.len),
                   v |-> IF slots = <<>> THEN begin ELSE Last(slots).v + Last(slots).vlen])
Slots(f, begin) ==
    LET of(br) == IF Relocatable(br, f.fend) THEN br.baskets ELSE <<>>
        all == FoldLeft(LAMBDA s, br : s \o of(br), <<>>, f.branches) IN
    FoldLeft(LAMBDA s, b : SlotStep(s, b, begin), <<>>, all)

(* The tree record, compressed where that shrinks it.                      *)
MetaLen(f) == f.keylen + Lesser(f.blob, f.zblob)
Located(f) == f.listSeek >= ListFrom /\ f.listSeek + f.listLen <= f.size

layoutForFill(f) ==
    LET metaSeek == ((f.size + Align - 1) \div Align) * Align
        begin == metaSeek + f.keylen + f.blob
        slots == Slots(f, begin) IN
    IF \/ ~f.readable \/ Factor100 < 100 \/ f.headerEnd # f.fend
       \/ slots = <<>> \/ f.size # f.fend
       \/ ~putKeySeek(f.treeWide, metaSeek) \/ ~Located(f) \/ ~putKeySeek(f.listWide, metaSeek)
    THEN Declined
    ELSE LET end == Last(slots).v + Last(slots).vlen IN
         [originSize |-> f.size, metaSeek |-> metaSeek, metaLen |-> MetaLen(f),
          slotsBegin |-> begin, slots |-> slots, virtualSize |-> end,
          windows |-> <<headerWindow(f.large, end), <<f.listSeek, f.listSeek + f.listLen>> >>]

Lay ==
    /\ layout = Unknown
    /\ layout' = layoutForFill(file)
    /\ UNCHANGED <<file, slot, pages, failed, forgets>>

-----------------------------------------------------------------------------
(* convertBasket: the kind and the length of the record; the original fits *)
(* its slot and is kept when nothing better does, or nothing is known.     *)
Converted(s, r) ==
    IF ~Listed(r.codec) THEN <<"kept", s.olen>>
    ELSE IF r.zstd < r.raw
         THEN IF r.zstd <= s.vlen THEN <<"zstd", r.zstd>> ELSE <<"kept", s.olen>>
         ELSE IF r.raw <= s.vlen THEN <<"raw", r.raw>> ELSE <<"kept", s.olen>>

PageSpan(p) == <<p * Page, Lesser((p + 1) * Page, layout.originSize)>>
PagesOver(a, b) == {p \in 0 .. (layout.originSize - 1) \div Page : PageSpan(p)[1] < b /\ PageSpan(p)[2] > a}
PagesIn(a, b) == {p \in 0 .. (layout.originSize - 1) \div Page : a <= PageSpan(p)[1] /\ PageSpan(p)[2] <= b}
Slots1 == DOMAIN layout.slots
Ready == layout \notin {Unknown, Declined}

(* The origin's answer is converted; a key that cannot name its slot fails *)
(* the request.  A kept basket goes to the byte cache, the only place it   *)
(* is served from.                                                         *)
Convert(i) ==
    /\ Ready /\ i \in Slots1 /\ slot[i].at = "none"
    /\ \E r \in Results :
          LET s == layout.slots[i]
              c == Converted(s, r)
              over == PagesOver(s.orig, s.orig + s.olen)
              had == over \subseteq pages IN
          \/ /\ ~putKeySeek(s.wide, s.v)
             /\ failed' = TRUE /\ UNCHANGED <<slot, pages>>
          \/ /\ putKeySeek(s.wide, s.v)
             /\ slot' = [slot EXCEPT ![i] = [at |-> "memory", kind |-> c[1], len |-> c[2],
                                             cached |-> had /\ c[1] # "kept"]]
             /\ pages' = IF c[1] = "kept" THEN pages \cup over ELSE pages
             /\ UNCHANGED failed
    /\ UNCHANGED <<file, layout, forgets>>

(* storableRuns: of what was fetched as original bytes, the pages that lie *)
(* inside the relocated baskets are not stored, except in the head.        *)
Baskets == Merged({<<layout.slots[i].orig, layout.slots[i].orig + layout.slots[i].olen>> : i \in Slots1})
Storable(p) ==
    ~ /\ PageSpan(p)[1] >= KeepHead
      /\ \E k \in DOMAIN Baskets : Baskets[k][1] <= PageSpan(p)[1] /\ PageSpan(p)[2] <= Baskets[k][2]
Store(p) ==
    /\ Ready /\ p * Page < layout.originSize
    /\ Storable(p)
    /\ pages' = pages \cup {p}
    /\ UNCHANGED <<file, layout, slot, failed, forgets>>

(* A handle that reads the file as it is fills pages before the layout.    *)
Fill(p) ==
    /\ layout = Unknown /\ p * Page < file.size
    /\ pages' = pages \cup {p}
    /\ UNCHANGED <<file, layout, slot, failed, forgets>>

-----------------------------------------------------------------------------
(* pageDeadLocked: every byte of the page, in order, in a committed        *)
(* converted basket.                                                       *)
ServedBySlot(sl, i) == sl[i].at = "store" /\ sl[i].kind # "kept"

ByOrigin == SetToSortSeq(Slots1, LAMBDA i, j : layout.slots[i].orig < layout.slots[j].orig)
CoverStep(sl, covered, i, b) ==      \* -1: given up
    LET s == layout.slots[i] IN
    IF covered < 0 \/ covered >= b \/ s.orig + s.olen <= covered THEN covered
    ELSE IF s.orig > covered \/ ~ServedBySlot(sl, i) THEN -1
    ELSE Greater(covered, s.orig + s.olen)
pageDead(sl, p) ==
    LET a == PageSpan(p)[1]
        b == PageSpan(p)[2] IN
    /\ a >= KeepHead /\ a < b
    /\ FoldLeft(LAMBDA c, i : CoverStep(sl, c, i, b), a, ByOrigin) >= b

(* The end of a commit: the ranges of this batch that had come from the    *)
(* byte cache, merged, each end moved out over a page that died with it.   *)
Widen(sl, r) ==
    <<IF (r[1] % Page) # 0 /\ pageDead(sl, r[1] \div Page) THEN r[1] - (r[1] % Page) ELSE r[1],
      IF (r[2] % Page) # 0 /\ r[2] < layout.originSize /\ pageDead(sl, r[2] \div Page)
      THEN Lesser(r[2] + Page - (r[2] % Page), layout.originSize) ELSE r[2]>>
AsFound(a) == a            \* mutant: the head goes too
PastHead(a) == Greater(a, KeepHead)
Punch(sl, batch) ==
    LET runs == Merged({<<layout.slots[i].orig, layout.slots[i].orig + layout.slots[i].olen>> :
                        i \in {j \in batch : slot[j].cached /\ slot[j].kind # "kept"}})
        wide == [k \in DOMAIN runs |-> Widen(sl, runs[k])] IN
    UNION {PagesIn(PastHead(wide[k][1]), wide[k][2]) : k \in DOMAIN wide}

Commit(batch) ==
    /\ Ready /\ batch # {} /\ \A i \in batch : slot[i].at = "memory"
    /\ LET sl == [i \in DOMAIN slot |-> IF i \in batch THEN [slot[i] EXCEPT !.at = "store"] ELSE slot[i]] IN
       /\ slot' = [i \in DOMAIN slot |-> IF i \in batch THEN [sl[i] EXCEPT !.cached = FALSE] ELSE sl[i]]
       /\ pages' = pages \ Punch(sl, batch)
    /\ UNCHANGED <<file, layout, failed, forgets>>

(* A record in the store fails its check: the basket is absent again.      *)
Forget(i) ==
    /\ Ready /\ i \in Slots1 /\ slot[i].at = "store" /\ slot[i].kind # "kept"
    /\ forgets < MaxForgets /\ forgets' = forgets + 1
    /\ slot' = [slot EXCEPT ![i] = NoRecord]
    /\ UNCHANGED <<file, layout, pages, failed>>

Init ==
    /\ file \in Files /\ layout = Unknown
    /\ slot = [i \in 1 .. 3 |-> NoRecord]
    /\ pages = {} /\ failed = FALSE /\ forgets = 0
Next ==
    \/ Lay
    \/ \E i \in 1 .. 3 : Convert(i) \/ Forget(i)
    \/ \E p \in 0 .. file.size \div Page : Store(p) \/ Fill(p)
    \/ \E batch \in SUBSET (1 .. 3) : Commit(batch)
Spec == Init /\ [][Next]_lvars

-----------------------------------------------------------------------------
(* What the reader is shown is one file: the original, the metadata record *)
(* in its reservation and the slots do not overlap, the two patched        *)
(* windows are ascending, apart and inside the original, every patched     *)
(* 32-bit field can hold its value, and a record always fits the slot it   *)
(* is placed in (layoutForFill, headerWindowForEnd, convertBasket).        *)
LayoutSound ==
    Ready =>
        /\ layout.originSize <= layout.metaSeek
        /\ layout.metaSeek + layout.metaLen <= layout.slotsBegin
        /\ \A i \in Slots1 :
              /\ layout.slots[i].v = IF i = 1 THEN layout.slotsBegin
                                     ELSE layout.slots[i - 1].v + layout.slots[i - 1].vlen
              /\ layout.slots[i].olen <= layout.slots[i].vlen
              /\ slot[i].len <= layout.slots[i].vlen
              /\ slot[i].at # "none" => layout.slots[i].wide \/ layout.slots[i].v < Big
        /\ layout.windows[1][2] <= layout.windows[2][1]
        /\ layout.windows[2][2] <= layout.originSize
        /\ layout.virtualSize < Big \/ file.large \/ layout.windows[1] = <<0, HeaderBytes>>
        /\ (file.treeWide /\ file.listWide) \/ layout.metaSeek < Big

(* A basket kept as its original is served from the byte cache, the only   *)
(* copy: whatever its neighbours' commits release, and wherever baskets    *)
(* share a page, its pages stay (Commit: "A kept basket's original is the  *)
(* only copy: never punched").                                             *)
KeptIsThere ==
    Ready => \A i \in Slots1 : slot[i].kind = "kept" =>
        PagesOver(layout.slots[i].orig, layout.slots[i].orig + layout.slots[i].olen) \subseteq pages

(* A page is released only once every byte of it is served by a committed  *)
(* converted record, and the head of the file never is: the file's own     *)
(* records stay local (pageDeadLocked, the punch of a commit).             *)
Dead(p) ==
    /\ PageSpan(p)[1] >= KeepHead
    /\ \A b \in BytesOf(PageSpan(p)) : \E i \in Slots1 :
          /\ b \in layout.slots[i].orig .. layout.slots[i].orig + layout.slots[i].olen - 1
          /\ slot'[i].at = "store" /\ slot'[i].kind # "kept"
OnlyDeadReleased == [][\A p \in pages \ pages' : Dead(p)]_lvars
=============================================================================
