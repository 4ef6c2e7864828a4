---------------------------- MODULE MCFetchGate ----------------------------
(* FetchGate for TLC: a read of one page and a vector read of both through *)
(* two handles, with read-ahead of each page.                              *)
EXTENDS FetchGate

CONSTANTS r1, v1, f1, f2, p1, p2, h1, h2

MCWant == [x \in Requests \cup Fills |->
             IF x \in VReads THEN {p1, p2} ELSE IF x = f2 THEN {p2} ELSE {p1}]

MCHandleOf == [x \in Requests \cup Fills |-> IF x \in {r1, f1} THEN h1 ELSE h2]
=============================================================================
