------------------------------ MODULE Footprint ------------------------------
(***************************************************************************)
(* What a run says it read.  Every read of the application is noted, in    *)
(* the origin's coordinates, in a footprint of buckets that all handles on *)
(* the file share for the life of the process (core/ReadFootprint.cc,      *)
(* CacheStore::footprintFor); a record with the footprint's signature is   *)
(* written when an entry or a relayed handle goes away, and loadFiles      *)
(* merges a file's records.  Two runs are compared by these signatures.    *)
(*                                                                         *)
(* A read is of one bucket of the layout its handle was shown, Back gives  *)
(* the origin's buckets behind it.  A signature is the set it hashes.      *)
(***************************************************************************)
EXTENDS Integers, Sequences, FiniteSets

CONSTANTS Urls, Handles, Buckets, Size, Back, MaxBucket, MaxTracked,
          MaxReads, MaxOpens, Unknown

VARIABLES
  relayFp,   \* the footprint the store keeps for a file, for those it tracks
  entry,     \* each file's live entry: its own footprint, and whether it uses it
  handle,    \* each handle: its file and how it is shown
  records,   \* the per-file records written
  read,      \* history: the origin's buckets each file's reads really covered
  ended, reads, opens

fvars == <<relayFp, entry, handle, records, read, ended, reads, opens>>

Fresh == [bits |-> {}, poisoned |-> FALSE]
NoEntry == [live |-> FALSE, shared |-> FALSE, own |-> Fresh]
Closed == [at |-> "closed", url |-> Unknown, form |-> "none", relayed |-> FALSE]

Noted(fp, bs) == [fp EXCEPT !.bits = @ \union {b \in bs : b <= MaxBucket}]
Poisoned(fp) == [fp EXCEPT !.poisoned = TRUE]

\* A limit of zero is no limit.
Within(bs, limit) == {b \in bs : limit = 0 \/ b < limit}

\* sigAndCount: both from one state of the footprint, or neither.
SigAndCount(fp, limit) ==
  LET bs == Within(fp.bits, limit)
  IN  IF fp.poisoned \/ bs = {} THEN [sig |-> Unknown, count |-> 0]
      ELSE [sig |-> bs, count |-> Cardinality(bs)]

\* footprintFor: a file is tracked from its first use on, until the table is full.
Tracked(u) == u \in DOMAIN relayFp
FootprintFor(u) ==
  IF Tracked(u) \/ Cardinality(DOMAIN relayFp) >= MaxTracked THEN relayFp
  ELSE [v \in DOMAIN relayFp \union {u} |-> IF v = u THEN Fresh ELSE relayFp[v]]

\* FileEntry::footprint.
EntryFootprint(u) == IF entry[u].shared THEN relayFp[u] ELSE entry[u].own
UpdateEntry(u, fp) ==
  IF entry[u].shared
    THEN relayFp' = [relayFp EXCEPT ![u] = fp] /\ UNCHANGED entry
    ELSE entry' = [entry EXCEPT ![u].own = fp] /\ UNCHANGED relayFp

\* A record, and what the file's reads covered when it was written.
Written(u, sc) ==
  records' = Append(records, [url |-> u, sig |-> sc.sig, count |-> sc.count,
                              covered |-> Within(read[u], Size[u])])

\* Mutant: a file the store does not track fills its entry's own footprint.
OwnClean(shared) == Fresh

\* useSharedFootprint: the entry of a file the store declines to track says nothing.
Own(shared) == IF shared THEN Fresh ELSE Poisoned(Fresh)

-----------------------------------------------------------------------------
\* A handle that relays (a copy, a write, the cache off) has no entry; the others
\* share the file's, made by the first.
Open(h) ==
  /\ ~ended /\ handle[h].at = "closed" /\ opens < MaxOpens
  /\ \E u \in Urls, f \in DOMAIN Back :
       /\ handle' = [handle EXCEPT ![h] = [Closed EXCEPT !.at = "open", !.url = u, !.form = f]]
       /\ IF f = "relay" \/ entry[u].live
            THEN UNCHANGED <<entry, relayFp>>
            ELSE /\ relayFp' = FootprintFor(u)
                 /\ LET shared == u \in DOMAIN relayFp'
                    IN  entry' = [entry EXCEPT ![u] =
                          [live |-> TRUE, shared |-> shared, own |-> Own(shared)]]
  /\ opens' = opens + 1
  /\ UNCHANGED <<records, read, ended, reads>>

\* noteAppRead, and the read itself.
Read(h) ==
  /\ ~ended /\ handle[h].at = "open" /\ reads < MaxReads
  /\ \E b \in Buckets :
       LET u == handle[h].url
           f == handle[h].form
           bs == Back[f][b]
       IN  /\ read' = [read EXCEPT ![u] = @ \union bs]
           /\ CASE f = "relay" ->  \* an untracked file's reads go to a sink
                     /\ relayFp' = LET t == FootprintFor(u)
                                   IN  [v \in DOMAIN t |-> IF v = u THEN Noted(t[v], bs) ELSE t[v]]
                     /\ UNCHANGED entry
                [] f = "unmapped" -> UpdateEntry(u, Poisoned(EntryFootprint(u)))
                [] OTHER -> UpdateEntry(u, Noted(EntryFootprint(u), bs))
  /\ handle' = [handle EXCEPT ![h].relayed = @ \/ handle[h].form = "relay"]
  /\ reads' = reads + 1
  /\ UNCHANGED <<records, ended, opens>>

\* The last handle of an entry takes it along, and it writes its record
\* (FileEntry::emitObsRecord).
LastOf(h, u) == \A o \in Handles \ {h} : handle[o].url = u => handle[o].form \in {"none", "relay"}

CloseEntry(h) ==
  /\ ~ended /\ handle[h].at = "open" /\ handle[h].form # "relay"
  /\ LET u == handle[h].url
     IN  IF LastOf(h, u)
           THEN /\ Written(u, SigAndCount(EntryFootprint(u), Size[u]))
                /\ entry' = [entry EXCEPT ![u] = NoEntry]
           ELSE UNCHANGED <<records, entry>>
  /\ handle' = [handle EXCEPT ![h] = Closed]
  /\ UNCHANGED <<relayFp, read, ended, reads, opens>>

\* emitRelayObs, recordRelayObs: nothing for a handle that read nothing, and no
\* signature when the origin's size is not known.
CloseRelay(h) ==
  /\ ~ended /\ handle[h].at = "open" /\ handle[h].form = "relay"
  /\ LET u == handle[h].url
     IN  IF ~handle[h].relayed THEN UNCHANGED <<records, relayFp>>
         ELSE /\ relayFp' = FootprintFor(u)
              /\ \E sizeKnown \in BOOLEAN :
                   Written(u, IF sizeKnown /\ u \in DOMAIN relayFp'
                                THEN SigAndCount(relayFp'[u], Size[u])
                                ELSE [sig |-> Unknown, count |-> 0])
  /\ handle' = [handle EXCEPT ![h] = Closed]
  /\ UNCHANGED <<entry, read, ended, reads, opens>>

\* dumpStats at the end of the process: live entries write their records.
FinalDump ==
  /\ ~ended /\ ended' = TRUE
  /\ records' = records \o
       [i \in 1 .. Cardinality({u \in Urls : entry[u].live}) |->
          LET us == {u \in Urls : entry[u].live}
              u == CHOOSE v \in us : Cardinality({w \in us : w < v}) = i - 1
              sc == SigAndCount(EntryFootprint(u), Size[u])
          IN  [url |-> u, sig |-> sc.sig, count |-> sc.count,
               covered |-> Within(read[u], Size[u])]]
  /\ UNCHANGED <<relayFp, entry, handle, read, reads, opens>>

Init ==
  /\ relayFp = <<>>
  /\ entry = [u \in Urls |-> NoEntry]
  /\ handle = [h \in Handles |-> Closed]
  /\ records = <<>>
  /\ read = [u \in Urls |-> {}]
  /\ ended = FALSE /\ reads = 0 /\ opens = 0

Next ==
  \/ \E h \in Handles : Open(h) \/ Read(h) \/ CloseEntry(h) \/ CloseRelay(h)
  \/ FinalDump

Spec == Init /\ [][Next]_fvars

-----------------------------------------------------------------------------
\* loadFiles: a later record with a signature and no fewer buckets replaces an earlier.
Merge(f, r) == IF r.sig # Unknown /\ r.count >= f.count
                 THEN [sig |-> r.sig, count |-> r.count] ELSE f
Loaded[i \in Nat, u \in Urls] ==
  IF i = 0 THEN [sig |-> Unknown, count |-> 0]
  ELSE IF records[i].url = u THEN Merge(Loaded[i - 1, u], records[i]) ELSE Loaded[i - 1, u]

(***************************************************************************)
(* A signature in a record covers everything the process had read of the   *)
(* file by then, through all its handles and layouts, and nothing past the *)
(* end of the file: never the half one of two handles read, whether or not *)
(* the table of footprints was full when the file was opened.              *)
(***************************************************************************)
RecordTrue ==
  \A i \in DOMAIN records : records[i].sig # Unknown =>
    records[i].sig = records[i].covered /\ records[i].count = Cardinality(records[i].covered)

(***************************************************************************)
(* The signature a run is known by for a file covers every signature its   *)
(* records gave for it, in whichever order handles and entries wrote them  *)
(* (loadFiles: "A footprint only grows", so the last one is the answer).   *)
(***************************************************************************)
LoadedCovers ==
  \A i \in DOMAIN records : records[i].sig # Unknown =>
    LET f == Loaded[Len(records), records[i].url]
    IN  f.sig # Unknown /\ records[i].sig \subseteq f.sig
=============================================================================
