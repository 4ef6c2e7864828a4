------------------------------- MODULE MCEntry -------------------------------
(* Two processes of one thread each that share an entry, for TLC.  In one    *)
(* part a second generation of the file appears and the entry is unlinked;   *)
(* in the other calls fail, pages are punched and pins set: all of it in one *)
(* behaviour is too much for an instance.                                    *)
EXTENDS FileEntry, TLC

CONSTANTS e1, e2, g1

VARIABLE part

MCEntryOf == [t \in Threads |-> t[1]]
TwoProcesses == {<<e1, 1>>, <<e2, 1>>}

Commits == INSTANCE FileEntry WITH
    Gens <- {g1}, MaxFaults <- 1, MaxUnlinks <- 0, MaxPunches <- 1, MaxMarks <- 1

\* Entries, pages and inodes are compared only for equality.
Symmetric == Permutations(Entries) \cup Permutations(Pages) \cup Permutations(Inodes)

PartsInit == \/ part = "generations" /\ Init
             \/ part = "commits" /\ Commits!Init

PartsNext ==
    /\ UNCHANGED part
    /\ \/ part = "generations" /\ Next
       \/ part = "commits" /\ Commits!Next

PartsSpec == PartsInit /\ [][PartsNext]_<<part, vars>>

\* While the file stays the same and its entry in place, the sidecar is whole and a
\* page it names has its bytes on disk: FileEntry!SidecarTrue.  (After an unlink two
\* processes can hold the locks of two inodes and write one .meta.tmp.)
SidecarHolds == part = "commits" => SidecarTrue

\* While nothing is unlinked and the file stays the same, "the sidecar is shared state
\* and is COMMITTED, never replaced" (FileEntry.h:32): FileEntry implements
\* EntryContents (FileEntry!CommitsAreAtomic).
CommitsApply ==
    /\ part = "commits" => Commits!Contents!Init
    /\ [][part = "commits" => Commits!Contents!Next \/ UNCHANGED Commits!Contents!vars]_vars
==============================================================================
