---------------------------- MODULE MCFileEntry ----------------------------
(* FileEntry for TLC: two threads of one process.                          *)
EXTENDS FileEntry

CONSTANT e1

TwoThreads == {<<e1, 1>>, <<e1, 2>>}
MCEntryOf == [t \in Threads |-> t[1]]
=============================================================================
