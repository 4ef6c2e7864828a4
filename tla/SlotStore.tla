----------------------------- MODULE SlotStore ------------------------------
(***************************************************************************)
(* The slot store of one cached file: an append-only file of commit blocks *)
(* shared by every process that converts the file's baskets.  A commit     *)
(* takes an exclusive flock, checks that the path still names its file,    *)
(* picks up the blocks others wrote, skips the slots they committed, and   *)
(* writes one block past everything written or claimed.  Reading takes the *)
(* shared lock without waiting.                                            *)
(*                                                                         *)
(* The file is a sequence of 4 KiB units.  A block is a unit with its      *)
(* header and entries followed by one unit per record; a unit of a write   *)
(* that never landed is a Hole.  Checksums are taken to be injective: a    *)
(* unit is what was written there, or it fails its check.  SlotStore files *)
(* are told apart by inode, the header and layout blob of one are written  *)
(* before it is linked into place and are not part of the sequence.        *)
(***************************************************************************)
EXTENDS Integers, Sequences, FiniteSets, FiniteSetsExt, SequencesExt

CONSTANTS
    Procs,
    Slots,
    Inodes,
    None,
    MaxUnits,    \* bound on the length of a store
    MaxCommits,  \* bound on commits begun
    MaxTorn,     \* bound on commits that die or fall short
    MaxDrops     \* bound on removals of the store

ASSUME SlotStoreAssumption ==
    /\ None \notin Procs \cup Inodes
    /\ {MaxUnits, MaxCommits, MaxTorn, MaxDrops} \subseteq Nat

VARIABLES
    file,       \* file[n]: the units of the store with inode n
    path,       \* the inode <hash>.slots names
    used,       \* inodes that have been created
    lock,       \* lock[n]: the process in a commit of n
    open,       \* open[p]: the store p has open
    gone,       \* gone[p]: storeGone, nothing more is committed to it
    known,      \* known[p]: committed entries p has applied, by slot
    pending,    \* pending[p]: slots p converted and has still to commit
    readOff,    \* first unit p has not read
    claimedEnd, \* first unit past every block p has seen claimed
    pc,         \* where p's commit is
    base,       \* where p's block goes
    batch,      \* the slots it collected, then those it writes
    done,       \* the blocks whose commit returned success
    commits, torn, drops

disk == <<file, path, used, lock>>
reader == <<readOff, claimedEnd>>
commit == <<pc, base, batch>>
bounds == <<commits, torn, drops>>
vars == <<disk, open, gone, known, pending, reader, commit, done, bounds>>

Hole == [kind |-> "hole"]
Record(i) == [kind |-> "record", slot |-> i]
\* A block header that claims len units and carries the entries of the slots
\* in S; whole says whether the entries landed with it.
Header(len, S, whole) == [kind |-> "header", len |-> len, slots |-> S, whole |-> whole]

\* The units of a block committing S: its records lie in ascending order.
Block(S) ==
    <<Header(1 + Cardinality(S), S, TRUE)>>
        \o [k \in 1 .. Cardinality(S) |-> Record(SetToSortSeq(S, LAMBDA a, b : a < b)[k])]

\* Where the block at unit at keeps the record of slot i.
RecordUnit(at, S, i) == at + Cardinality({j \in S : j <= i})

\* What a process remembers of a committed slot: the unit its record is in.
Absent == 0

Init ==
    /\ file = [n \in Inodes |-> <<>>]
    /\ path = None /\ used = {}
    /\ lock = [n \in Inodes |-> None]
    /\ open = [p \in Procs |-> None]
    /\ gone = [p \in Procs |-> FALSE]
    /\ known = [p \in Procs |-> [i \in Slots |-> Absent]]
    /\ pending = [p \in Procs |-> {}]
    /\ readOff = [p \in Procs |-> 1]
    /\ claimedEnd = [p \in Procs |-> 1]
    /\ pc = [p \in Procs |-> "idle"]
    /\ base = [p \in Procs |-> 0]
    /\ batch = [p \in Procs |-> {}]
    /\ done = {}
    /\ commits = 0 /\ torn = 0 /\ drops = 0

-----------------------------------------------------------------------------
(* readBlocks.                                                             *)

\* A block readBlocks accepts: its header and entries check, and the file is
\* as long as it claims.
Valid(f, at) ==
    /\ f[at].kind = "header" /\ f[at].whole
    /\ at + f[at].len - 1 <= Len(f)

\* The units at which readBlocks looks for a block, from unit at on: past a
\* block it accepts, or on the next boundary.
Looks(f, from) ==
    LET looks[at \in 1 .. Len(f) + 1] ==
            IF at > Len(f) THEN {}
            ELSE {at} \cup looks[IF Valid(f, at) THEN at + f[at].len ELSE at + 1]
    IN  IF from > Len(f) THEN {} ELSE looks[from]

Found(f, from) == {at \in Looks(f, from) : Valid(f, at)}

\* The last entry for a slot wins.
Applied(old, f, from) ==
    [i \in Slots |->
        LET ats == {at \in Found(f, from) : i \in f[at].slots}
        IN  IF ats = {} THEN old[i] ELSE RecordUnit(Max(ats), f[Max(ats)].slots, i)]

ClaimedBy(f, from) == {at + f[at].len : at \in {a \in Looks(f, from) : f[a].kind = "header"}}

\* Process p reads everything written since it last looked.
ReadBlocks(p) ==
    LET f == file[open[p]]
    IN  /\ known' = [known EXCEPT ![p] = Applied(@, f, readOff[p])]
        /\ claimedEnd' = [claimedEnd EXCEPT ![p] = Max({@} \cup ClaimedBy(f, readOff[p]))]
        /\ readOff' = [readOff EXCEPT ![p] = Max({@, Len(f) + 1})]

-----------------------------------------------------------------------------
(* Opening, dropping and reading.                                          *)

\* open, or openOrCreate: link() puts a whole store in place, or the one that
\* got there first is used.
OpenOrCreate(p) ==
    /\ open[p] = None
    /\ \/ /\ path # None
          /\ open' = [open EXCEPT ![p] = path]
          /\ UNCHANGED <<path, used>>
       \/ /\ path = None
          /\ \E n \in Inodes \ used :
                path' = n /\ used' = used \cup {n} /\ open' = [open EXCEPT ![p] = n]
    /\ UNCHANGED <<file, lock, gone, known, pending, reader, commit, done, bounds>>

\* Eviction, invalidation or a user's command removes the store.
Drop ==
    /\ drops < MaxDrops /\ path # None
    /\ drops' = drops + 1
    /\ path' = None
    /\ UNCHANGED <<file, used, lock, open, gone, known, pending, reader, commit, done, commits, torn>>

\* dropIfCurrent: an attach that cannot use the store it has just opened removes
\* it, unless a commit holds it or the path names another by now, and lets go.
DropIfCurrent(p) ==
    /\ open[p] # None /\ pc[p] = "idle"
    /\ pending[p] = {} /\ readOff[p] = 1 /\ ~gone[p]
    /\ drops < MaxDrops
    /\ path = open[p] /\ lock[open[p]] = None
    /\ drops' = drops + 1
    /\ path' = None
    /\ open' = [open EXCEPT ![p] = None]
    /\ UNCHANGED <<file, used, lock, gone, known, pending, reader, commit, done, commits, torn>>

\* The process's last handle of the file closes; a later one opens the store anew.
Detach(p) ==
    /\ open[p] # None /\ pc[p] = "idle" /\ pending[p] = {}
    /\ open' = [open EXCEPT ![p] = None]
    /\ gone' = [gone EXCEPT ![p] = FALSE]
    /\ known' = [known EXCEPT ![p] = [i \in Slots |-> Absent]]
    /\ readOff' = [readOff EXCEPT ![p] = 1]
    /\ claimedEnd' = [claimedEnd EXCEPT ![p] = 1]
    /\ UNCHANGED <<disk, pending, commit, done, bounds>>

\* refresh: skipped while a commit holds the lock.
RefreshUnlocked(p) ==
    /\ open[p] # None /\ pc[p] = "idle"
    /\ readOff[p] <= Len(file[open[p]])
    /\ ReadBlocks(p)
    /\ UNCHANGED <<disk, open, gone, pending, commit, done, bounds>>

Refresh(p) ==
    /\ open[p] # None /\ pc[p] = "idle"
    /\ lock[open[p]] = None
    /\ readOff[p] <= Len(file[open[p]])
    /\ ReadBlocks(p)
    /\ UNCHANGED <<disk, open, gone, pending, commit, done, bounds>>

\* The record p would read for slot i passes its check.
Readable(p, i) ==
    /\ known[p][i] \in 1 .. Len(file[open[p]])
    /\ file[open[p]][known[p][i]] = Record(i)

\* A record that fails its check (its block was accepted, its own units were
\* lost in a crash) is forgotten, to be converted again.
Forget(p, i) ==
    /\ open[p] # None /\ known[p][i] # Absent
    /\ ~Readable(p, i)
    /\ known' = [known EXCEPT ![p][i] = Absent]
    /\ UNCHANGED <<disk, open, gone, pending, reader, commit, done, bounds>>

\* A slot that is not known to be committed was read: convert it, to be
\* committed.
Stage(p, i) ==
    /\ open[p] # None /\ ~gone[p]
    /\ known[p][i] = Absent /\ i \notin pending[p] \cup batch[p]
    /\ pending' = [pending EXCEPT ![p] = @ \cup {i}]
    /\ UNCHANGED <<disk, open, gone, known, reader, commit, done, bounds>>

-----------------------------------------------------------------------------
(* Committing.                                                             *)

Unlocked(p) == lock' = [lock EXCEPT ![open[p]] = None]

\* The locals of a commit go out of scope; a record it did not write is not kept.
Return(p) ==
    /\ pc' = [pc EXCEPT ![p] = "idle"]
    /\ base' = [base EXCEPT ![p] = 0]
    /\ batch' = [batch EXCEPT ![p] = {}]

\* The records waiting are collected, and commit waits for the exclusive lock.
CommitLock(p) ==
    /\ pc[p] = "idle" /\ pending[p] # {}
    /\ commits < MaxCommits
    /\ lock[open[p]] = None
    /\ lock' = [lock EXCEPT ![open[p]] = p]
    /\ batch' = [batch EXCEPT ![p] = pending[p]]
    /\ pending' = [pending EXCEPT ![p] = {}]
    /\ pc' = [pc EXCEPT ![p] = "locked"]
    /\ commits' = commits + 1
    /\ UNCHANGED <<file, path, used, open, gone, known, reader, base, done, torn, drops>>

\* -ESTALE: the path no longer names this file.
CommitStale(p) ==
    /\ pc[p] = "locked" /\ path # open[p]
    /\ gone' = [gone EXCEPT ![p] = TRUE]
    /\ Unlocked(p) /\ Return(p)
    /\ UNCHANGED <<file, path, used, open, known, pending, reader, done, bounds>>

\* Where the block goes: past the file's end, the blocks read, and the extent
\* of any block cut short.
BaseUnclaimed(p) == Max({Len(file[open[p]]) + 1, readOff'[p]})

Base(p) == Max({Len(file[open[p]]) + 1, readOff'[p], claimedEnd'[p]})

\* The slots of the batch nobody has committed.
Untaken(p) == {i \in batch[p] : known'[p][i] = Absent}

\* Read what others committed, skip their slots, and place the rest.
CommitRead(p) ==
    /\ pc[p] = "locked" /\ path = open[p]
    /\ ReadBlocks(p)
    /\ IF Untaken(p) = {}
       THEN Unlocked(p) /\ Return(p)
       ELSE /\ base' = [base EXCEPT ![p] = Base(p)]
            /\ batch' = [batch EXCEPT ![p] = Untaken(p)]
            /\ pc' = [pc EXCEPT ![p] = "write"]
            /\ base'[p] + Cardinality(batch'[p]) <= MaxUnits
            /\ UNCHANGED lock
    /\ UNCHANGED <<file, path, used, open, gone, pending, done, bounds>>

\* The file f with the units of block b, placed at unit at, that are in L.
Landed(f, at, b, L) ==
    LET end == IF L = {} THEN Len(f) ELSE Max({Len(f), Max(L)})
    IN  [k \in 1 .. end |->
            IF k \in L THEN b[k - at + 1] ELSE IF k <= Len(f) THEN f[k] ELSE Hole]

Extent(p) == base[p] .. base[p] + Cardinality(batch[p])

\* The write is under way: the file has grown, its units land in any order.
CommitGrows(p) ==
    /\ pc[p] = "write"
    /\ file' = [file EXCEPT ![open[p]] =
                   [k \in 1 .. Max(Extent(p)) |-> IF k <= Len(@) THEN @[k] ELSE Hole]]
    /\ pc' = [pc EXCEPT ![p] = "growing"]
    /\ UNCHANGED <<path, used, lock, open, gone, known, pending, reader, base, batch, done, bounds>>

\* The block is written whole: its entries are committed.
CommitWrite(p) ==
    LET n == open[p]
        S == batch[p]
    IN  /\ pc[p] = "growing"
        /\ file' = [file EXCEPT ![n] = Landed(@, base[p], Block(S), Extent(p))]
        /\ known' = [known EXCEPT ![p] =
                        [i \in Slots |-> IF i \in S THEN RecordUnit(base[p], S, i) ELSE @[i]]]
        /\ readOff' = [readOff EXCEPT ![p] = base[p] + 1 + Cardinality(S)]
        /\ claimedEnd' = [claimedEnd EXCEPT ![p] = Max({@, base[p] + 1 + Cardinality(S)})]
        /\ done' = done \cup {[ino |-> n, at |-> base[p], slots |-> S]}
        /\ Unlocked(p) /\ Return(p)
        /\ UNCHANGED <<path, used, open, gone, pending, bounds>>

\* pwrite falls short after k units: an error, and the records are not kept.
CommitShort(p, k) ==
    LET n == open[p]
    IN  /\ pc[p] = "write" /\ torn < MaxTorn
        /\ torn' = torn + 1
        /\ file' = [file EXCEPT ![n] =
                       Landed(@, base[p], Block(batch[p]), base[p] .. base[p] + k - 1)]
        /\ Unlocked(p) /\ Return(p)
        /\ UNCHANGED <<path, used, open, gone, known, pending, reader, done, commits, drops>>

\* The block with the entries lost though the header's own sector landed.
EntriesLost(b) == [b EXCEPT ![1] = Header(b[1].len, b[1].slots, FALSE)]

\* The machine stops during p's write: the units of L landed, and every
\* process starts again.
Crash(p, L, whole) ==
    /\ pc[p] = "growing" /\ torn < MaxTorn
    /\ torn' = torn + 1
    /\ file' = [file EXCEPT ![open[p]] =
                   Landed(SubSeq(@, 1, Min({Len(@), base[p] - 1})), base[p],
                          IF whole THEN Block(batch[p]) ELSE EntriesLost(Block(batch[p])), L)]
    /\ lock' = [n \in Inodes |-> None]
    /\ open' = [q \in Procs |-> None]
    /\ gone' = [q \in Procs |-> FALSE]
    /\ known' = [q \in Procs |-> [i \in Slots |-> Absent]]
    /\ pending' = [q \in Procs |-> {}]
    /\ readOff' = [q \in Procs |-> 1]
    /\ claimedEnd' = [q \in Procs |-> 1]
    /\ pc' = [q \in Procs |-> "idle"]
    /\ base' = [q \in Procs |-> 0]
    /\ batch' = [q \in Procs |-> {}]
    /\ UNCHANGED <<path, used, done, commits, drops>>

-----------------------------------------------------------------------------

Commit(p) ==
    \/ CommitLock(p) \/ CommitStale(p) \/ CommitRead(p) \/ CommitGrows(p) \/ CommitWrite(p)
    \/ \E k \in 0 .. Cardinality(batch[p]) : CommitShort(p, k)
    \/ \E L \in SUBSET Extent(p), whole \in BOOLEAN : Crash(p, L, whole)

Next ==
    \/ Drop
    \/ \E p \in Procs :
          \/ OpenOrCreate(p) \/ Detach(p) \/ DropIfCurrent(p) \/ Refresh(p) \/ Commit(p)
          \/ \E i \in Slots : Stage(p, i) \/ Forget(p, i)

Spec == Init /\ [][Next]_vars

-----------------------------------------------------------------------------
(* Properties.                                                             *)

Unit == {Hole} \cup {Record(i) : i \in Slots}
            \cup {Header(1 + Cardinality(S), S, w) : S \in SUBSET Slots, w \in BOOLEAN}

TypeOK ==
    /\ \A n \in Inodes : Len(file[n]) <= MaxUnits /\ \A k \in DOMAIN file[n] : file[n][k] \in Unit
    /\ used \subseteq Inodes /\ path \in used \cup {None}
    /\ lock \in [Inodes -> Procs \cup {None}]
    /\ open \in [Procs -> Inodes \cup {None}] /\ gone \in [Procs -> BOOLEAN]
    /\ known \in [Procs -> [Slots -> 0 .. MaxUnits]]
    /\ pending \in [Procs -> SUBSET Slots] /\ batch \in [Procs -> SUBSET Slots]
    /\ readOff \in [Procs -> 1 .. MaxUnits + 1] /\ claimedEnd \in [Procs -> 1 .. MaxUnits + 1]
    /\ pc \in [Procs -> {"idle", "locked", "write", "growing"}]
    /\ base \in [Procs -> 0 .. MaxUnits]

\* A block whose commit returned success is never written over and never lost
\* behind the extent of a block that a crash cut short (SlotStore.h:171): a
\* process that reads the store from its start finds it, with all its records.
NeverBuried ==
    \A b \in done :
        /\ b.at \in Found(file[b.ino], 1)
        /\ SubSeq(file[b.ino], b.at, b.at + Cardinality(b.slots)) = Block(b.slots)

\* However its refreshes, commits and those of others interleave, a process has
\* applied every committed block or finds it the next time it reads.
ReadersCatchUp ==
    \A b \in done, p \in Procs :
        open[p] = b.ino =>
            \/ b.at \in Found(file[b.ino], readOff[p])
            \/ \A i \in b.slots : known[p][i] >= RecordUnit(b.at, b.slots, i)

\* "so no slot is written twice" (ColdRun.cc:1902): two processes that convert
\* the same slot do not both commit it to one store.
WrittenOnce ==
    \A b, c \in done : b # c /\ b.ino = c.ino => b.slots \cap c.slots = {}
=============================================================================
