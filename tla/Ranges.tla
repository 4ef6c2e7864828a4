------------------------------- MODULE Ranges -------------------------------
(***************************************************************************)
(* Byte ranges, as the read path handles them: half-open intervals         *)
(* <<start, end>>, sorted, merged where they touch, rounded out to pages   *)
(* and cut into elements the protocol accepts (ReadRounding.h, and the     *)
(* sort-and-merge loops of UCacheFile.cc, Prefetch.cc, ColdRun.cc and      *)
(* ReadMap.cc).                                                            *)
(***************************************************************************)
EXTENDS Integers, Sequences, FiniteSets, SequencesExt, FiniteSetsExt

Lesser(a, b)  == IF a < b THEN a ELSE b
Greater(a, b) == IF a > b THEN a ELSE b

(* The bytes of an interval, and of a sequence of them: what the           *)
(* algorithms are compared with.                                           *)
BytesOf(r) == r[1] .. r[2] - 1
Union(rs)  == UNION {BytesOf(rs[i]) : i \in DOMAIN rs}

(* std::sort of pairs                                                      *)
SortedPairs(S) ==
    SetToSortSeq(S, LAMBDA a, b : a[1] < b[1] \/ (a[1] = b[1] /\ a[2] < b[2]))

(* One step of the merge: extend the last run, or begin another.           *)
MergeStep(runs, r) ==
    IF runs # <<>> /\ r[1] <= Last(runs)[2]
    THEN Front(runs) \o << <<Last(runs)[1], Greater(Last(runs)[2], r[2])>> >>
    ELSE Append(runs, r)
Merged(S) == FoldLeft(MergeStep, <<>>, SortedPairs(S))

(* roundSpan: out to page boundaries, not past the end of the file; as it  *)
(* is at or past the end, or where the length would outgrow its 32 bits.   *)
roundSpan(pageSize, fileSize, limit, off, len) ==
    LET start == (off \div pageSize) * pageSize
        end == Lesser(((off + len + pageSize - 1) \div pageSize) * pageSize, fileSize) IN
    IF end <= start \/ end - start > limit THEN <<off, off + len>> ELSE <<start, end>>

(* readvElemEnd: where a piece that starts at `start` is cut.              *)
readvElemEnd(start, end, pageSize, ceiling) ==
    IF end - start <= ceiling THEN end
    ELSE LET cut == ((start + ceiling) \div pageSize) * pageSize IN
         Lesser(IF cut <= start THEN start + pageSize ELSE cut, end)

RECURSIVE Cut(_, _, _, _)
Cut(start, end, pageSize, ceiling) ==
    IF start >= end THEN <<>>
    ELSE LET c == readvElemEnd(start, end, pageSize, ceiling) IN
         << <<start, c>> >> \o Cut(c, end, pageSize, ceiling)
=============================================================================
