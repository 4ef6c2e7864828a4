----------------------------- MODULE Publishing -----------------------------
(***************************************************************************)
(* The `ucache` commands that publish (publish, netbench, bench, identity) *)
(* run by several processes of one user over one cache directory.  They    *)
(* share three files: the identity (one per user, it holds the salt), the  *)
(* cache's install-id, and the payload kept for a retry; and they reach    *)
(* one service.                                                            *)
(*                                                                         *)
(* Each system call on a shared file is a step; what a process computes    *)
(* between two of them belongs to the second.  A file created exclusively  *)
(* is empty until its creator writes it.  An identity, or an instance id,  *)
(* is named by the process that drew it; a payload is who built it and the *)
(* two ids it carries.  What redaction leaves of a record is left out.     *)
(***************************************************************************)
EXTENDS Integers, FiniteSets

CONSTANTS
    Procs,      \* the command processes
    Casts,      \* the scenarios: see Init
    Attempts,   \* how often sendPayload tries
    MaxLosses,  \* bound on attempts that fail in a way worth another one
    MaxKills,   \* bound on processes killed
    None        \* no id; no payload

VARIABLES
    cmd,        \* cmd[p]: the command line of p
    pc,         \* what p does next
    homeOk,     \* the user's directories can be written
    cacheOk,    \* the cache directory can be written
    idFile,     \* the identity file
    instFile,   \* the cache's install-id file
    stored,     \* kinds of records in the per-user store
    owner,      \* owner[p]: the identity p publishes under
    inst,       \* inst[p]: the instance id p publishes
    attempt,    \* the attempt p is at
    item,       \* the record of its own that p is at (bench publishes each)
    rc,         \* the exit code so far
    received,   \* payloads that reached the service
    kept,       \* the payload in last-payload.json
    confirmed,  \* payloads the user agreed to send (history)
    saved,      \* payloads given to saveForRetry (history)
    losses, kills

files   == <<idFile, instFile, stored, kept>>
world   == <<cmd, homeOk, cacheOk>>
history == <<received, confirmed, saved, losses, kills>>
vars    == <<pc, owner, inst, attempt, item, rc, files, world, history>>

-----------------------------------------------------------------------------
(* A file is absent, or an inode (named by its creator) and its text: an   *)
(* id, nothing yet, something that is no id, or not readable at all.       *)
Absent    == [inode |-> None, text |-> "absent"]
Empty     == "empty"
Holding(i, t) == [inode |-> i, text |-> t]
Ids       == Procs \cup {"old", "given"}
Valid(f)  == f.text \in Ids
Shape     == "shape"        \* an identity drawn for a dry run's printout
Placeholder == "placeholder"

(* createFileExclusive's open.  The write comes next.                      *)
Claimable(f, writable) == f = Absent /\ writable
Claimed(p) == Holding(p, Empty)
Overwritten(f, p) == Holding(p, p)
(* The write goes to the inode p created, wherever the path leads by now;  *)
(* a write that fails unlinks the path.                                    *)
Written(f, p) == IF f.inode = p THEN Holding(p, p) ELSE f

(* The store also remembers labels and what was published.                 *)
Sendable     == stored \ {"label", "published"}
Record(k)    == stored' = IF homeOk THEN stored \cup {k} ELSE stored
Publishes(p) == cmd[p].publish
Creates(p) == Publishes(p) /\ ~cmd[p].dry
Payload(p)   == [by |-> p, item |-> item[p], owner |-> owner[p], inst |-> inst[p]]

Goto(p, l)   == pc' = [pc EXCEPT ![p] = l]
Exit(p, c)   == Goto(p, "done") /\ rc' = [rc EXCEPT ![p] = c]
Alive(p, l)  == pc[p] = l

(* Where a command goes when it knows its owner.                           *)
AfterOwner(p) == IF cmd[p].kind = "netbench" /\ ~cmd[p].through THEN "confirm" ELSE "instance"
OwnedBy(p, o) ==
    /\ owner' = [owner EXCEPT ![p] = IF o = None /\ cmd[p].dry THEN Shape ELSE o]
    /\ Goto(p, AfterOwner(p))
    /\ UNCHANGED rc
Instance(p, i) ==
    /\ inst' = [inst EXCEPT ![p] =
                   IF i = None /\ cmd[p].kind = "publish" THEN Placeholder ELSE i]
    /\ Goto(p, "confirm")
    /\ UNCHANGED rc

-----------------------------------------------------------------------------
(* cmdPublish up to ensureIdentity: bad arguments, no cache directory, or  *)
(* nothing to send, before any file is made.                               *)
Publish(p) ==
    /\ Alive(p, "start") /\ cmd[p].kind = "publish"
    /\ \/ cmd[p].bad /\ Exit(p, 2)
       \/ ~cmd[p].bad /\ Sendable = {} /\ Exit(p, 1)
       \/ ~cmd[p].bad /\ Sendable # {} /\ Goto(p, "owner") /\ UNCHANGED rc
    /\ UNCHANGED <<owner, inst, attempt, item, files, world, history>>

(* cmdNetbench: the helper runs, its record is kept whatever comes next,   *)
(* and only a complete measurement goes on to be published.                *)
Netbench(p) ==
    /\ Alive(p, "start") /\ cmd[p].kind = "netbench"
    /\ \/ /\ cmd[p].bad
          /\ Exit(p, 2) /\ UNCHANGED stored
       \/ \E c \in {0, 1} :                       \* the helper's exit code
             /\ ~cmd[p].bad
             /\ Record("netbench")
             /\ IF Publishes(p) /\ c = 0
                THEN Goto(p, "owner") /\ UNCHANGED rc
                ELSE Exit(p, c)
    /\ UNCHANGED <<owner, inst, attempt, item, idFile, instFile, kept, world, history>>

(* cmdBench after the measurement: every record is kept, then the identity *)
(* is looked up even when nothing is published (the public line needs it). *)
Bench(p) ==
    /\ Alive(p, "start") /\ cmd[p].kind = "bench"
    /\ \/ cmd[p].bad /\ Exit(p, 2) /\ UNCHANGED stored
       \/ /\ ~cmd[p].bad
          /\ Record("bench")
          /\ Goto(p, "owner") /\ UNCHANGED rc
    /\ UNCHANGED <<owner, inst, attempt, item, idFile, instFile, kept, world, history>>

(* ensureIdentity                                                          *)
LoadIdentity(p) ==
    /\ Alive(p, "owner")
    /\ \/ Valid(idFile) /\ OwnedBy(p, idFile.text)
       \/ ~Valid(idFile) /\ (idFile # Absent \/ ~Creates(p)) /\ OwnedBy(p, None)
       \/ idFile = Absent /\ Creates(p) /\ Goto(p, "mint") /\ UNCHANGED <<owner, rc>>
    /\ UNCHANGED <<inst, attempt, item, files, world, history>>

CreateIdentity(p) ==
    /\ Alive(p, "mint")
    /\ \/ /\ Claimable(idFile, homeOk)
          /\ idFile' = Claimed(p)
          /\ Goto(p, "write") /\ UNCHANGED <<owner, rc>>
       \/ /\ idFile # Absent                      \* EEXIST
          /\ Goto(p, "adopt") /\ UNCHANGED <<owner, rc, idFile>>
       \/ /\ idFile = Absent /\ ~homeOk
          /\ OwnedBy(p, None) /\ UNCHANGED idFile
    /\ UNCHANGED <<inst, attempt, item, instFile, stored, kept, world, history>>

WriteIdentity(p) ==
    /\ Alive(p, "write")
    /\ \/ idFile' = Written(idFile, p) /\ OwnedBy(p, p) /\ UNCHANGED losses
       \/ /\ losses < MaxLosses /\ losses' = losses + 1
          /\ idFile' = Absent /\ OwnedBy(p, None)
    /\ UNCHANGED <<inst, attempt, item, instFile, stored, kept, world, received, confirmed, saved, kills>>

Adopted(p) == IF Valid(idFile) THEN idFile.text ELSE None
AdoptIdentity(p) ==
    /\ Alive(p, "adopt")
    /\ OwnedBy(p, Adopted(p))
    /\ UNCHANGED <<inst, attempt, item, files, world, history>>

-----------------------------------------------------------------------------
(* installId, with create false for bench and for a dry run.               *)
MayCreate(p) == Creates(p) /\ cmd[p].kind # "bench"

ReadInstance(p) ==
    /\ Alive(p, "instance")
    /\ \/ Valid(instFile) /\ Instance(p, instFile.text)
       \/ /\ instFile.text \in {Empty, "garbled"}          \* "replacing it"
          /\ IF MayCreate(p) THEN Goto(p, "replace") /\ UNCHANGED <<inst, rc>>
                             ELSE Instance(p, None)
       \/ /\ instFile.text \in {"absent", "denied"}        \* the open failed
          /\ Goto(p, "stat") /\ UNCHANGED <<inst, rc>>
    /\ UNCHANGED <<owner, attempt, item, files, world, history>>

(* There after all: not ours to replace.                                   *)
StatInstance(p) ==
    /\ Alive(p, "stat")
    /\ IF instFile # Absent \/ ~MayCreate(p)
       THEN Instance(p, None)
       ELSE Goto(p, "mintInst") /\ UNCHANGED <<inst, rc>>
    /\ UNCHANGED <<owner, attempt, item, files, world, history>>

ReplaceInstance(p) ==
    /\ Alive(p, "replace")
    /\ instFile' = IF cacheOk THEN Overwritten(instFile, p) ELSE instFile
    /\ Instance(p, p)
    /\ UNCHANGED <<owner, attempt, item, idFile, stored, kept, world, history>>

CreateInstance(p) ==
    /\ Alive(p, "mintInst")
    /\ \/ /\ Claimable(instFile, cacheOk)
          /\ instFile' = Claimed(p)
          /\ Goto(p, "writeInst") /\ UNCHANGED <<inst, rc>>
       \/ /\ instFile # Absent
          /\ Instance(p, IF Valid(instFile) THEN instFile.text ELSE None)
          /\ UNCHANGED instFile
       \/ /\ instFile = Absent /\ ~cacheOk        \* a fresh id on every publish
          /\ Instance(p, p) /\ UNCHANGED instFile
    /\ UNCHANGED <<owner, attempt, item, idFile, stored, kept, world, history>>

WriteInstance(p) ==
    /\ Alive(p, "writeInst")
    /\ \/ instFile' = Written(instFile, p) /\ UNCHANGED losses
       \/ losses < MaxLosses /\ losses' = losses + 1 /\ instFile' = Absent
    /\ Instance(p, p)
    /\ UNCHANGED <<owner, attempt, item, idFile, stored, kept, world, received, confirmed, saved, kills>>

-----------------------------------------------------------------------------
(* publishPayload returned c: bench goes on to its next record, keeping    *)
(* the first bad exit code.                                                *)
Returned(p, c) ==
    /\ rc' = [rc EXCEPT ![p] = IF @ = 0 THEN c ELSE @]
    /\ IF item[p] < cmd[p].items
       THEN /\ item' = [item EXCEPT ![p] = @ + 1]
            /\ attempt' = [attempt EXCEPT ![p] = 1]
            /\ Goto(p, "instance")
       ELSE Goto(p, "done") /\ UNCHANGED <<item, attempt>>

(* diskLabel and rememberLabel, then publishPayload up to the send: a dry  *)
(* run only prints, and whoever does not say yes sends nothing.            *)
Remembers(p) == cmd[p].label /\ Publishes(p) /\ ~cmd[p].dry /\ cmd[p].kind # "netbench"
Confirm(p) ==
    /\ Alive(p, "confirm")
    /\ IF Remembers(p) THEN Record("label") ELSE UNCHANGED stored
    /\ \/ (~Publishes(p) \/ cmd[p].dry) /\ Returned(p, 0)
       \/ Creates(p) /\ ~cmd[p].yes /\ Returned(p, 1)
       \/ Creates(p) /\ cmd[p].yes /\ Goto(p, "send") /\ UNCHANGED <<rc, item, attempt>>
    /\ confirmed' = IF Creates(p) /\ cmd[p].yes THEN confirmed \cup {Payload(p)} ELSE confirmed
    /\ UNCHANGED <<owner, inst, idFile, instFile, kept, world, received, saved, losses, kills>>

(* sendPayload.  saveForRetry keeps the payload beside the record store.   *)
SaveForRetry(p) ==
    /\ kept' = IF homeOk THEN Payload(p) ELSE kept
    /\ saved' = saved \cup {Payload(p)}
    /\ Returned(p, 1)
    /\ UNCHANGED stored

(* A reply the loop waits out: a network failure before or after the       *)
(* payload arrived, a restarting service, a short Retry-After.             *)
Temporary == {"lost", "replyLost", "restarting", "wait"}
(* Not worth another attempt: no curl or no work directory, a curl failure *)
(* of another kind, a long Retry-After, any other status.                  *)
Permanent == {"noCurl", "refused"}

GivesUp(p, reply) == reply \in Permanent \/ attempt[p] = Attempts
Send(p) ==
    /\ Alive(p, "send")
    /\ \E reply \in Temporary \cup Permanent :
          /\ losses < MaxLosses /\ losses' = losses + 1
          /\ received' = IF reply = "replyLost" THEN received \cup {Payload(p)} ELSE received
          /\ \/ GivesUp(p, reply) /\ SaveForRetry(p)
             \/ /\ ~GivesUp(p, reply)
                /\ attempt' = [attempt EXCEPT ![p] = @ + 1]
                /\ UNCHANGED <<pc, rc, item, stored, kept, saved>>
    /\ UNCHANGED <<owner, inst, idFile, instFile, world, confirmed, kills>>

(* 200 or 201.  A reply without a report URL fails but is not kept: the    *)
(* service has the payload.                                                *)
Accepted(p) ==
    /\ Alive(p, "send")
    /\ received' = received \cup {Payload(p)}
    /\ \E url \in BOOLEAN :
          /\ IF url THEN Record("published") ELSE UNCHANGED stored
          /\ Returned(p, IF url THEN 0 ELSE 1)
    /\ UNCHANGED <<owner, inst, idFile, instFile, kept, world, confirmed, saved, losses, kills>>

-----------------------------------------------------------------------------
(* cmdIdentity: --new and --set replace the file by rename; without either *)
(* it only shows it.                                                       *)
ShowIdentity(p) ==
    /\ Alive(p, "start") /\ cmd[p].kind = "identity" /\ cmd[p].to = None
    /\ Exit(p, IF Valid(idFile) THEN 0 ELSE IF idFile = Absent THEN 1 ELSE 2)
    /\ UNCHANGED <<owner, inst, attempt, item, files, world, history>>

SetIdentity(p) ==
    /\ Alive(p, "start") /\ cmd[p].kind = "identity" /\ cmd[p].to # None
    /\ \/ cmd[p].bad /\ Exit(p, 2) /\ UNCHANGED idFile
       \/ ~cmd[p].bad /\ ~homeOk /\ Exit(p, 1) /\ UNCHANGED idFile
       \/ ~cmd[p].bad /\ homeOk /\ Exit(p, 0) /\ idFile' = Holding(p, cmd[p].to)
    /\ UNCHANGED <<owner, inst, attempt, item, instFile, stored, kept, world, history>>

(* The user or the system ends a command: its files stay as they are.      *)
Kill(p) ==
    /\ kills < MaxKills /\ kills' = kills + 1
    /\ pc[p] \notin {"start", "done"}
    /\ Exit(p, 3)
    /\ UNCHANGED <<owner, inst, attempt, item, files, world, received, confirmed, saved, losses>>

Init ==
    /\ \E c \in Casts :
          /\ cmd = c.cmd
          /\ homeOk = c.home /\ cacheOk = c.cache
          /\ idFile = c.identity /\ instFile = c.install
          /\ stored = c.stored
    /\ pc = [p \in Procs |-> IF cmd[p] = None THEN "done" ELSE "start"]
    /\ owner = [p \in Procs |-> None] /\ inst = [p \in Procs |-> None]
    /\ attempt = [p \in Procs |-> 1] /\ item = [p \in Procs |-> 1]
    /\ rc = [p \in Procs |-> 0]
    /\ received = {} /\ confirmed = {} /\ saved = {} /\ kept = None
    /\ losses = 0 /\ kills = 0

Step(p) ==
    \/ Publish(p) \/ Netbench(p) \/ Bench(p) \/ ShowIdentity(p) \/ SetIdentity(p)
    \/ LoadIdentity(p) \/ CreateIdentity(p) \/ WriteIdentity(p) \/ AdoptIdentity(p)
    \/ ReadInstance(p) \/ StatInstance(p) \/ ReplaceInstance(p)
    \/ CreateInstance(p) \/ WriteInstance(p)
    \/ Confirm(p) \/ Send(p) \/ Accepted(p) \/ Kill(p)

Next == \E p \in Procs : Step(p)
Spec == Init /\ [][Next]_vars

-----------------------------------------------------------------------------
Asked(p) == cmd[p].publish /\ ~cmd[p].dry
IdentityCommands == {p \in Procs : cmd[p] # None /\ cmd[p].kind = "identity"}

(* Unless the user replaced the identity, every payload that names an      *)
(* owner names the one in the identity file, however many first publishes  *)
(* raced to mint it (ensureIdentity, createFileExclusive): the salt of a   *)
(* discarded identity could never be found again.                          *)
OneOwner ==
    (\A p \in IdentityCommands : cmd[p].to = None) =>
        \A m \in received : m.owner \in {None, idFile.text}

(* Nothing leaves the machine, and no identity, instance id, label or kept *)
(* payload is left behind, by a dry run or a command without --publish;    *)
(* nothing is sent or kept without a yes; a publish with nothing to send   *)
(* mints no identity (cmdPublish, publishPayload, confirmPublish).         *)
OnlyWhenAsked ==
    \A p \in Procs \ IdentityCommands : cmd[p] # None =>
        /\ ~Asked(p) => idFile.inode # p /\ instFile.inode # p
        /\ ~(Asked(p) /\ cmd[p].yes) =>
              \A m \in received \cup saved : m.by # p
        /\ pc[p] = "done" /\ cmd[p].kind = "publish" /\ rc[p] = 1 /\ Sendable = {} =>
              idFile.inode # p /\ instFile.inode # p

(* A payload the user agreed to send is never dropped: when the command    *)
(* returns the service has it or it was saved for a retry by hand, the     *)
(* last one saved is the one on disk, and a command that exits 0 had all   *)
(* of its payloads received (sendPayload, cmdBench).                       *)
SentOrKept ==
    /\ homeOk /\ saved # {} => kept \in saved
    /\ \A m \in confirmed : pc[m.by] = "done" /\ rc[m.by] # 3 =>
          m \in received \/ (m \in saved /\ rc[m.by] # 0)
=============================================================================
