---------------------------- MODULE EntryContents ----------------------------
(***************************************************************************)
(* What the processes sharing one cached object may rely on: the sidecar   *)
(* is one shared record of the pages on disk, every handle's changes wait  *)
(* with the handle until it commits them, and a commit applies exactly     *)
(* those changes to the record as it stands at that instant.               *)
(***************************************************************************)
CONSTANTS Entries, Pages, None

VARIABLES
    record,   \* [on : SUBSET Pages, pin : BOOLEAN], or None before creation
    held,     \* entries some process holds open
    toSet,    \* toSet[e]: pages e published and has not committed
    toClear,  \* toClear[e]: pages e retracted and has not committed
    toPin     \* toPin[e]: the pin e set and has not committed, or None

vars == <<record, held, toSet, toClear, toPin>>

Init ==
    /\ record = None
    /\ held = {}
    /\ toSet = [e \in Entries |-> {}]
    /\ toClear = [e \in Entries |-> {}]
    /\ toPin = [e \in Entries |-> None]

\* The first opener creates the record; opening publishes nothing.
Create ==
    /\ record = None
    /\ record' = [on |-> {}, pin |-> FALSE]
    /\ UNCHANGED <<held, toSet, toClear, toPin>>

Hold(e) ==
    /\ held' = held \cup {e}
    /\ UNCHANGED <<record, toSet, toClear, toPin>>

\* The newest transition of a page is the one that waits.
NotePublished(e, S) ==
    /\ e \in held
    /\ toSet' = [toSet EXCEPT ![e] = @ \cup S]
    /\ toClear' = [toClear EXCEPT ![e] = @ \ S]
    /\ UNCHANGED <<record, held, toPin>>

NoteRetracted(e, S) ==
    /\ e \in held
    /\ toClear' = [toClear EXCEPT ![e] = @ \cup S]
    /\ toSet' = [toSet EXCEPT ![e] = @ \ S]
    /\ UNCHANGED <<record, held, toPin>>

NotePin(e, b) ==
    /\ e \in held
    /\ toPin' = [toPin EXCEPT ![e] = b]
    /\ UNCHANGED <<record, held, toSet, toClear>>

NothingWaits(e) ==
    /\ toSet' = [toSet EXCEPT ![e] = {}]
    /\ toClear' = [toClear EXCEPT ![e] = {}]
    /\ toPin' = [toPin EXCEPT ![e] = None]

\* Everything that waits is applied, and to the record of this instant.
Commit(e) ==
    LET now == IF record = None THEN [on |-> {}, pin |-> FALSE] ELSE record IN
    /\ e \in held
    /\ record' = [on  |-> (now.on \ toClear[e]) \cup toSet[e],
                  pin |-> IF toPin[e] = None THEN now.pin ELSE toPin[e]]
    /\ NothingWaits(e)
    /\ UNCHANGED held

\* Only closing, or dying, loses what has not been committed.
Forget(e) ==
    /\ held' = held \ {e}
    /\ NothingWaits(e)
    /\ UNCHANGED record

\* A pin written straight into the record, by a process with no handle.
PinRecord(b) ==
    /\ record # None
    /\ record' = [record EXCEPT !.pin = b]
    /\ UNCHANGED <<held, toSet, toClear, toPin>>

Next ==
    \/ Create
    \/ \E e \in Entries :
          \/ \E S \in SUBSET Pages : NotePublished(e, S) \/ NoteRetracted(e, S)
          \/ \E b \in BOOLEAN : NotePin(e, b)
          \/ Hold(e) \/ Commit(e) \/ Forget(e)
    \/ \E b \in BOOLEAN : PinRecord(b)

Spec == Init /\ [][Next]_vars
=============================================================================
