------------------------------ MODULE ReadPlan ------------------------------
(***************************************************************************)
(* How one request becomes byte ranges: the vector read issued for its     *)
(* missing chunks and the scatter of its answer (UCacheFile.cc), the       *)
(* elements of a read-ahead window (Prefetch.cc), and the map, the origin  *)
(* ranges and the checked read of a replica (ReplicaStore.cc).             *)
(*                                                                         *)
(* Each action plans one request and keeps the request with what was       *)
(* planned; the invariants compare it with what it has to mean, byte for   *)
(* byte.  A byte of the answer is the offset it was copied from.           *)
(***************************************************************************)
EXTENDS Ranges

CONSTANTS
    Shapes,     \* page size, file size, element ceiling, length limit, bridge,
                \* and the data of a file read directly (none otherwise)
    Chunks,     \* chunks a reader may ask for: off, len
    Cands,      \* baskets read-ahead may predict: <<seek, size>>
    Views,      \* replicas: virtualSize, originSize, extents, origMap, tdata, page, cap
    Asks,       \* <<off, len>> asked of a replica
    Nothing

VARIABLES shape, plan
pvars == <<shape, plan>>

Round(off, len) == roundSpan(shape.page, shape.size, shape.limit, off, len)
Pieces(s, e) == Cut(s, e, shape.page, shape.ceiling)
Elements(runs) == FlattenSeq([i \in DOMAIN runs |-> Pieces(runs[i][1], runs[i][2])])

-----------------------------------------------------------------------------
(* issueMissVRead: data of a file read directly as asked, all else rounded *)
(* out; sorted, merged, cut.                                               *)
ReadsData(off, len) == \E d \in shape.data : off < d[2] /\ off + len > d[1]
Span(c) == IF ReadsData(c.off, c.len) THEN <<c.off, c.off + c.len>> ELSE Round(c.off, c.len)
WireUncut(chunks) == Merged({Span(c) : c \in chunks})     \* mutant: runs are not cut
Wire(chunks) == Elements(Merged({Span(c) : c \in chunks}))

(* The scatter: from the last element that starts at or before the chunk,  *)
(* on through adjacent elements.  A chunk left over is an internal error.  *)
FindWire(wire, at) ==
    LET upto == {i \in DOMAIN wire : wire[i][1] <= at} IN IF upto = {} THEN 1 ELSE Max(upto)
RECURSIVE Copied(_, _, _, _)
Copied(wire, w, at, left) ==
    IF left = 0 \/ w > Len(wire) \/ at < wire[w][1] \/ at >= wire[w][2] THEN <<>>
    ELSE LET n == Lesser(left, wire[w][2] - at) IN
         [i \in 1 .. n |-> at + i - 1] \o Copied(wire, w + 1, at + n, left - n)
Scatter(wire, c) == Copied(wire, FindWire(wire, c.off), c.off, c.len)

(* What the entry keeps of an answer: the pages that lie whole in one      *)
(* element, and of a file read directly only those that hold no data       *)
(* (persistPagesReserved, persistWithoutData).                             *)
PageOf(p) == <<p * shape.page, Lesser((p + 1) * shape.page, shape.size)>>
Pages == 0 .. (shape.size - 1) \div shape.page
WholePages(wire) ==
    {p \in Pages : \E i \in DOMAIN wire : wire[i][1] <= PageOf(p)[1] /\ wire[i][2] >= PageOf(p)[2]}
Kept(wire) == {p \in WholePages(wire) : ~ReadsData(PageOf(p)[1], PageOf(p)[2] - PageOf(p)[1])}

(* A request with a chunk that is empty or ends past the file is relayed   *)
(* whole and never gets here (VectorRead).                                 *)
MissRead(chunks) ==
    /\ \A c \in chunks : c.len > 0 /\ c.off + c.len <= shape.size
    /\ plan' = [kind |-> "miss", chunks |-> chunks, wire |-> Wire(chunks),
                filled |-> [c \in chunks |-> Scatter(Wire(chunks), c)],
                kept |-> Kept(Wire(chunks))]
    /\ UNCHANGED shape

-----------------------------------------------------------------------------
(* absentRuns: the pages of [s, e) that are not there, as merged ranges.   *)
AbsentRuns(absent, s, e) ==
    Merged({<<Greater(s, p * shape.page), Lesser(e, (p + 1) * shape.page)>> :
            p \in {q \in absent : q * shape.page < e /\ (q + 1) * shape.page > s}})
Absent(absent, cands) ==
    LET runs == Merged({Round(c[1], c[2]) : c \in cands}) IN
    FlattenSeq([i \in DOMAIN runs |-> AbsentRuns(absent, runs[i][1], runs[i][2])])

(* issue: absent ranges joined across small gaps, up to the ceiling, then  *)
(* cut; an element stages only what was absent.                            *)
Joins(group, r) ==
    /\ r[1] >= Last(group)[2] /\ r[1] - Last(group)[2] <= shape.bridge
    /\ r[2] - group[1][1] <= shape.ceiling
GroupStep(groups, r) ==
    IF groups # <<>> /\ Joins(Last(groups), r)
    THEN Front(groups) \o << Append(Last(groups), r) >>
    ELSE Append(groups, <<r>>)
Stage(keep, el) ==
    SelectSeq([i \in DOMAIN keep |-> <<Greater(keep[i][1], el[1]), Lesser(keep[i][2], el[2])>>],
              LAMBDA r : r[1] < r[2])
ElementsOf(keep) ==
    LET els == Pieces(keep[1][1], Last(keep)[2])
        all == [i \in DOMAIN els |-> [span |-> els[i], stage |-> Stage(keep, els[i])]] IN
    SelectSeq(all, LAMBDA el : el.stage # <<>>)

ReadAhead(absent, cands) ==
    LET runs == Absent(absent, cands)
        groups == FoldLeft(GroupStep, <<>>, runs) IN
    /\ plan' = [kind |-> "ahead", absent |-> absent, cands |-> cands,
                elems |-> FlattenSeq([i \in DOMAIN groups |-> ElementsOf(groups[i])])]
    /\ UNCHANGED shape

-----------------------------------------------------------------------------
(* ReplicaView::map: the extents and the gaps between them, from the first *)
(* extent that ends past `off`.                                            *)
FirstAt(exts, off) ==    \* mutant: the extent that begins before `off` is passed over
    LET past == {i \in DOMAIN exts : exts[i].virt >= off} IN
    IF past = {} THEN Len(exts) + 1 ELSE Min(past)
First(exts, off) ==
    LET past == {i \in DOMAIN exts : exts[i].virt + exts[i].len > off} IN
    IF past = {} THEN Len(exts) + 1 ELSE Min(past)
RECURSIVE Segments(_, _, _, _)
Segments(exts, i, pos, end) ==
    IF pos >= end THEN <<>>
    ELSE IF i > Len(exts) THEN <<[overlay |-> FALSE, at |-> pos, len |-> end - pos]>>
    ELSE IF exts[i].virt >= end THEN <<[overlay |-> FALSE, at |-> pos, len |-> end - pos]>>
    ELSE LET from == Greater(pos, exts[i].virt)
             to == Lesser(end, exts[i].virt + exts[i].len) IN
         (IF pos < from THEN <<[overlay |-> FALSE, at |-> pos, len |-> from - pos]>> ELSE <<>>)
         \o <<[overlay |-> TRUE, at |-> exts[i].tdata + from - exts[i].virt, len |-> to - from]>>
         \o Segments(exts, i + 1, to, end)
MapOfView(v, off, len) ==
    LET end == Lesser(off + len, v.virtualSize) IN
    IF end <= off THEN <<>> ELSE Segments(v.extents, First(v.extents, off), off, end)

(* originRanges: whole original ranges for what was moved; what passes     *)
(* through stops at the end of the original file.                          *)
PassThrough(v, a, b) == IF Lesser(b, v.originSize) > a THEN {<<a, Lesser(b, v.originSize)>>} ELSE {}
OriginRanges(v, off, len) ==
    LET end == Lesser(off + len, v.virtualSize)
        om == v.origMap
        segs == IF om = <<>> \/ end <= off THEN <<>> ELSE Segments(om, First(om, off), off, end) IN
    IF segs = <<>> THEN {}
    ELSE {<<om[k].orig, om[k].orig + om[k].origLen>> :
             k \in {m \in DOMAIN om : om[m].virt < end /\ om[m].virt + om[m].len > off}}
         \cup UNION {PassThrough(v, segs[i].at, segs[i].at + segs[i].len) :
                        i \in {j \in DOMAIN segs : ~segs[j].overlay}}

(* ReplicaView::read: runs of pages up to the coalescing cap, every page   *)
(* checked whole, the edges through scratch.                               *)
PageEnd(v, i) == Lesser((i + 1) * v.page, v.tdata)
RECURSIVE RunEnd(_, _, _, _)
RunEnd(v, rf, rl, last) ==
    IF rl < last /\ PageEnd(v, rl + 1) - rf * v.page <= v.cap THEN RunEnd(v, rf, rl + 1, last) ELSE rl
RECURSIVE Checked(_, _, _, _, _, _)
Checked(v, bad, rf, last, off, end) ==      \* the bytes copied out, or Nothing
    IF rf > last THEN <<>>
    ELSE LET rl == RunEnd(v, rf, rf, last)
             from == Greater(off, rf * v.page)
             to == Lesser(end, PageEnd(v, rl))
             rest == Checked(v, bad, rl + 1, last, off, end) IN
         IF \E i \in rf .. rl : i \in bad THEN Nothing
         ELSE IF rest = Nothing THEN Nothing
         ELSE [i \in 1 .. to - from |-> from + i - 1] \o rest
ReadView(v, bad, off, len) ==
    IF len = 0 THEN <<>>
    ELSE IF off + len > v.tdata THEN Nothing
    ELSE Checked(v, bad, off \div v.page, (off + len - 1) \div v.page, off, off + len)

ViewRead(v, ask, bad) ==
    /\ plan' = [kind |-> "view", v |-> v, off |-> ask[1], len |-> ask[2], bad |-> bad,
                segs |-> MapOfView(v, ask[1], ask[2]),
                origin |-> OriginRanges(v, ask[1], ask[2]),
                bytes |-> ReadView(v, bad, ask[1], ask[2])]
    /\ UNCHANGED shape

-----------------------------------------------------------------------------
Init == shape \in Shapes /\ plan = [kind |-> "none"]
Next ==
    /\ plan.kind = "none"
    /\ \/ \E a, b \in Chunks : MissRead({a, b})
       \/ \E a, b \in Cands, absent \in SUBSET Pages :
             ReadAhead(absent, {a, b})
       \/ \E v \in Views, ask \in Asks, bad \in {{}, {0}, {1}} : ViewRead(v, ask, bad)
Spec == Init /\ [][Next]_pvars

-----------------------------------------------------------------------------
Legal(el) == el[2] > el[1] /\ el[2] - el[1] <= Greater(shape.ceiling, shape.page)
Apart(els) == \A i, j \in DOMAIN els : i < j => els[i][2] <= els[j][1]

(* Every wire request is one the protocol accepts: elements in order, none *)
(* overlapping, none above the ceiling (readvElemEnd, issueMissVRead,      *)
(* Prefetch issue); an oversized one would fail the whole request.         *)
ElementsLegal ==
    LET els == CASE plan.kind = "miss"  -> plan.wire
                 [] plan.kind = "ahead" -> [i \in DOMAIN plan.elems |-> plan.elems[i].span]
                 [] OTHER -> <<>> IN
    Apart(els) /\ \A i \in DOMAIN els : Legal(els[i])

(* A reader gets the bytes it asked for, each from its own offset, however *)
(* its chunks overlap or share pages.  Every page they touch is then kept, *)
(* so that the next pass hits (roundSpan: a span that ended mid-page would *)
(* miss for ever), except the data of a file read directly, no byte of     *)
(* which is kept.                                                          *)
ChunksServed ==
    plan.kind = "miss" => \A c \in plan.chunks :
        /\ plan.filled[c] = [i \in 1 .. c.len |-> c.off + i - 1]
        /\ ~ReadsData(c.off, c.len) /\ shape.limit > shape.size =>
              \A p \in {q \in Pages : PageOf(q)[1] < c.off + c.len /\ PageOf(q)[2] > c.off} :
                  p \in plan.kept \/ ReadsData(PageOf(p)[1], PageOf(p)[2] - PageOf(p)[1])
        /\ \A p \in plan.kept, d \in shape.data : BytesOf(PageOf(p)) \cap BytesOf(d) = {}

(* Read-ahead stages exactly the absent pages of what it predicted, each   *)
(* byte once: what only bridges a gap, or is in flight already, is not     *)
(* staged (Prefetch issue).                                                *)
StagesAbsent ==
    plan.kind = "ahead" =>
        LET bytes == {b \in Union(Merged({Round(c[1], c[2]) : c \in plan.cands})) :
                         b \div shape.page \in plan.absent}
            staged == [i \in DOMAIN plan.elems |-> Union(plan.elems[i].stage)] IN
        /\ UNION {staged[i] : i \in DOMAIN staged} = bytes
        /\ \A i \in DOMAIN staged : staged[i] \subseteq BytesOf(plan.elems[i].span)

(* A replica means one file: a read of it is made of segments that follow  *)
(* one another, each byte from the extent that covers it and from the byte *)
(* tier otherwise; its origin ranges never pass the end of the original    *)
(* file; and no byte of a page that fails its checksum is handed out.      *)
ByteOf(v, b) ==
    LET cov == {i \in DOMAIN v.extents : v.extents[i].virt <= b /\ b < v.extents[i].virt + v.extents[i].len} IN
    IF cov = {} THEN <<FALSE, b>>
    ELSE LET e == v.extents[CHOOSE i \in cov : TRUE] IN <<TRUE, e.tdata + b - e.virt>>
ViewMeansFile ==
    plan.kind = "view" =>
        LET v == plan.v
            bytes == FlattenSeq([i \in DOMAIN plan.segs |->
                        [k \in 1 .. plan.segs[i].len |-> <<plan.segs[i].overlay, plan.segs[i].at + k - 1>>]])
            n == Greater(0, Lesser(plan.off + plan.len, v.virtualSize) - plan.off) IN
        /\ bytes = [k \in 1 .. n |-> ByteOf(v, plan.off + k - 1)]
        /\ \A r \in plan.origin : r[2] <= v.originSize
        /\ plan.bytes # Nothing =>
              /\ plan.bytes = [k \in 1 .. plan.len |-> plan.off + k - 1]
              /\ \A k \in 1 .. plan.len : (plan.off + k - 1) \div v.page \notin plan.bad
=============================================================================
