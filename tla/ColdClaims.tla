----------------------------- MODULE ColdClaims -----------------------------
(***************************************************************************)
(* How the reads of one file served in the slot layout share the           *)
(* conversion of its slots.  A slot is absent, being fetched by the        *)
(* request that claimed it, or ready.  A request holds what is ready,      *)
(* claims what is absent and waits for what another request is fetching;   *)
(* it finishes when its last fetch, conversion or wait has ended.  A       *)
(* request that failed gives its claims back and sends whoever waited on   *)
(* them round again, at most twice.                                        *)
(*                                                                         *)
(* A record is "mem" while the process holds it and "disk" once anyone's   *)
(* commit put it in the slot store.  Each claimed slot is a part of the    *)
(* fetch of its own, the worst case of cutting the fetch into parts; Whole *)
(* stands for the part with original bytes the byte cache did not have.    *)
(***************************************************************************)
EXTENDS Naturals, FiniteSets, FiniteSetsExt

CONSTANTS
    Requests,
    Slots,       \* 1, 2, ...
    Want,        \* Want[r]: the slots the request's chunks touch
    Original,    \* the requests that also fetch original bytes
    MaxFails,    \* bound on fetches and conversions that fail
    MaxDrops,    \* bound on records forgotten or found damaged
    MaxApplies   \* bound on records other processes commit

VARIABLES
    state,      \* per slot: "absent", "fetching" or "ready"
    stored,     \* slots whose record is committed (Info::inStore)
    waiters,    \* waiters[i]: requests told when slot i is done
    pc,         \* where the request is
    attempt,    \* times the request was sent round again
    todo,       \* slots the request has still to look at, or to claim
    need,       \* slots it found not ready
    held,       \* held[r][i]: what the request keeps of slot i
    claimed, converted,
    parts,      \* its fetches and conversions not yet done
    failed, retry,
    outcome,    \* "none", "ok", "origin" (its own error) or "data" (errDataError)
    fails, drops, applies

slotVars == <<state, stored, waiters>>
reqVars == <<pc, attempt, todo, need, held, claimed, converted, parts, failed, retry, outcome>>
bounds == <<fails, drops, applies>>
vars == <<slotVars, reqVars, bounds>>

\* The part with original bytes.
Whole == 0

Nothing == [i \in Slots |-> "no"]

Init ==
    /\ state = [i \in Slots |-> "absent"]
    /\ stored = {}
    /\ waiters = [i \in Slots |-> {}]
    /\ pc = [r \in Requests |-> "new"]
    /\ attempt = [r \in Requests |-> 0]
    /\ todo = Want
    /\ need = [r \in Requests |-> {}]
    /\ held = [r \in Requests |-> Nothing]
    /\ claimed = [r \in Requests |-> {}]
    /\ converted = [r \in Requests |-> {}]
    /\ parts = [r \in Requests |-> {}]
    /\ failed = [r \in Requests |-> FALSE]
    /\ retry = [r \in Requests |-> FALSE]
    /\ outcome = [r \in Requests |-> "none"]
    /\ fails = 0 /\ drops = 0 /\ applies = 0

-----------------------------------------------------------------------------
(* Looking and claiming.                                                   *)

\* What where() finds of slot i.
Where(i) ==
    IF state[i] # "ready" THEN "no" ELSE IF i \in stored THEN "disk" ELSE "mem"

Goto(r, l) == pc' = [pc EXCEPT ![r] = l]

\* coldServe: the request arrives.
Serve(r) ==
    /\ pc[r] = "new"
    /\ Goto(r, "classify")
    /\ UNCHANGED <<slotVars, attempt, todo, need, held, claimed, converted, parts, failed, retry,
                   outcome, bounds>>

\* classify looks at one slot's state ...
Classify(r) ==
    /\ pc[r] = "classify" /\ todo[r] # {}
    /\ LET i == Min(todo[r])
       IN  IF state[i] = "ready"
           THEN Goto(r, "hold") /\ UNCHANGED <<todo, need>>
           ELSE /\ todo' = [todo EXCEPT ![r] = @ \ {i}]
                /\ need' = [need EXCEPT ![r] = @ \cup {i}]
                /\ UNCHANGED pc
    /\ UNCHANGED <<slotVars, attempt, held, claimed, converted, parts, failed, retry, outcome,
                   bounds>>

\* ... and holdReady keeps where its bytes are, if it is still ready.
HoldReady(r, from, back) ==
    LET i == Min(todo[r])
    IN  /\ pc[r] = from
        /\ todo' = [todo EXCEPT ![r] = @ \ {i}]
        /\ held' = [held EXCEPT ![r][i] = IF @ = "no" THEN Where(i) ELSE @]
        /\ Goto(r, back)
        /\ UNCHANGED <<slotVars, attempt, need, claimed, converted, parts, failed, retry, outcome,
                       bounds>>

Classified(r) ==
    /\ pc[r] = "classify" /\ todo[r] = {}
    /\ todo' = [todo EXCEPT ![r] = need[r]]
    /\ Goto(r, "claim")
    /\ UNCHANGED <<slotVars, attempt, need, held, claimed, converted, parts, failed, retry,
                   outcome, bounds>>

\* claimOrWait for the next slot, in ascending order.
ClaimOrWait(r) ==
    LET i == Min(todo[r])
    IN  /\ pc[r] = "claim" /\ todo[r] # {}
        /\ \/ /\ state[i] = "absent"
              /\ state' = [state EXCEPT ![i] = "fetching"]
              /\ claimed' = [claimed EXCEPT ![r] = @ \cup {i}]
              /\ todo' = [todo EXCEPT ![r] = @ \ {i}]
              /\ UNCHANGED <<waiters, pc>>
           \/ /\ state[i] = "fetching"
              /\ waiters' = [waiters EXCEPT ![i] = @ \cup {r}]
              /\ todo' = [todo EXCEPT ![r] = @ \ {i}]
              /\ UNCHANGED <<state, claimed, pc>>
           \/ /\ state[i] = "ready"
              /\ Goto(r, "holdClaim")
              /\ UNCHANGED <<state, waiters, claimed, todo>>
        /\ UNCHANGED <<stored, attempt, need, held, converted, parts, failed, retry, outcome,
                       bounds>>

\* Everything claimed goes to the origin or to the conversion pool, and the
\* issuing stage lets go of its own hold.
Issue(r) ==
    /\ pc[r] = "claim" /\ todo[r] = {}
    /\ parts' = [parts EXCEPT ![r] = claimed[r] \cup (IF r \in Original THEN {Whole} ELSE {})]
    /\ Goto(r, "issued")
    /\ UNCHANGED <<slotVars, attempt, todo, need, held, claimed, converted, failed, retry, outcome,
                   bounds>>

-----------------------------------------------------------------------------
(* Fetching and converting.                                                *)

\* convertOne stages slot i: its waiters get the record, and the slot stays
\* ready unless nothing of it is kept.
StageSilent(r, i, keep) ==
    /\ pc[r] = "issued" /\ i \in parts[r] \cap Slots
    /\ state' = [state EXCEPT ![i] = IF keep \/ i \in stored THEN "ready" ELSE "absent"]
    /\ held' = [held EXCEPT ![r][i] = "mem"]
    /\ converted' = [converted EXCEPT ![r] = @ \cup {i}]
    /\ parts' = [parts EXCEPT ![r] = @ \ {i}]
    /\ UNCHANGED <<stored, waiters, pc, attempt, todo, need, claimed, failed, retry, outcome,
                   bounds>>

Stage(r, i, keep) ==
    /\ pc[r] = "issued" /\ i \in parts[r] \cap Slots
    /\ state' = [state EXCEPT ![i] = IF keep \/ i \in stored THEN "ready" ELSE "absent"]
    /\ waiters' = [waiters EXCEPT ![i] = {}]
    /\ held' = [q \in Requests |->
                  IF q = r \/ q \in waiters[i] THEN [held[q] EXCEPT ![i] = "mem"] ELSE held[q]]
    /\ converted' = [converted EXCEPT ![r] = @ \cup {i}]
    /\ parts' = [parts EXCEPT ![r] = @ \ {i}]
    /\ UNCHANGED <<stored, pc, attempt, todo, need, claimed, failed, retry, outcome, bounds>>

\* The original bytes land.
OriginalLands(r) ==
    /\ pc[r] = "issued" /\ Whole \in parts[r]
    /\ parts' = [parts EXCEPT ![r] = @ \ {Whole}]
    /\ UNCHANGED <<slotVars, pc, attempt, todo, need, held, claimed, converted, failed, retry,
                   outcome, bounds>>

\* A fetch is refused or fails, or a conversion does.
PartFails(r, i) ==
    /\ pc[r] = "issued" /\ i \in parts[r]
    /\ fails < MaxFails
    /\ fails' = fails + 1
    /\ failed' = [failed EXCEPT ![r] = TRUE]
    /\ parts' = [parts EXCEPT ![r] = @ \ {i}]
    /\ UNCHANGED <<slotVars, pc, attempt, todo, need, held, claimed, converted, retry, outcome,
                   drops, applies>>

-----------------------------------------------------------------------------
(* Finishing.                                                              *)

\* No hold on the request is left: no part, and no wait.
Done(r) ==
    /\ pc[r] = "issued"
    /\ parts[r] = {}
    /\ \A i \in Slots : r \notin waiters[i]

Complete(r, how) ==
    /\ outcome' = [outcome EXCEPT ![r] = how]
    /\ Goto(r, "answered")

\* abandon every slot of A: free the claim, and tell whoever waited.
AbandonNothing(A) == UNCHANGED <<state, waiters, retry>>

Abandon(A) ==
    /\ state' = [i \in Slots |-> IF i \in A /\ state[i] = "fetching" THEN "absent" ELSE state[i]]
    /\ waiters' = [i \in Slots |-> IF i \in A THEN {} ELSE waiters[i]]
    /\ retry' = [q \in Requests |-> retry[q] \/ \E i \in A : q \in waiters[i]]


StillClaimed(r) == claimed[r] \ converted[r]

FinishFailed(r) ==
    /\ Done(r) /\ failed[r]
    /\ Abandon(StillClaimed(r))
    /\ Complete(r, "origin")
    /\ UNCHANGED <<stored, attempt, todo, need, held, claimed, converted, parts, failed, bounds>>

MayRetry(r) == attempt[r] < 2

\* A slot's bytes were not to be had: serve the request again, or give up.
Again(r) ==
    /\ IF MayRetry(r)
       THEN /\ attempt' = [attempt EXCEPT ![r] = @ + 1]
            /\ todo' = [todo EXCEPT ![r] = Want[r]]
            /\ need' = [need EXCEPT ![r] = {}]
            /\ held' = [held EXCEPT ![r] = Nothing]
            /\ claimed' = [claimed EXCEPT ![r] = {}]
            /\ converted' = [converted EXCEPT ![r] = {}]
            /\ retry' = [retry EXCEPT ![r] = FALSE]
            /\ Goto(r, "classify")
            /\ UNCHANGED outcome
       ELSE /\ Complete(r, "data")
            /\ UNCHANGED <<attempt, todo, need, held, claimed, converted, retry>>
    /\ UNCHANGED <<waiters, parts, failed>>

\* The request holds slot i, or finds it ready now.
Copies(r, i) == held[r][i] # "no" \/ state[i] = "ready"

FinishLost(r) ==
    /\ Done(r) /\ ~failed[r]
    /\ retry[r] \/ \E i \in Want[r] : ~Copies(r, i)
    /\ Again(r)
    /\ UNCHANGED <<state, stored, bounds>>

\* copySlot finds the record it reads from disk damaged, and forgets the slot.
FinishDamaged(r, i) ==
    /\ Done(r) /\ ~failed[r] /\ ~retry[r]
    /\ i \in Want[r]
    /\ held[r][i] = "disk" \/ (held[r][i] = "no" /\ Where(i) = "disk")
    /\ drops < MaxDrops
    /\ drops' = drops + 1
    /\ state' = [state EXCEPT ![i] = IF @ = "ready" THEN "absent" ELSE @]
    /\ stored' = stored \ {i}
    /\ Again(r)
    /\ UNCHANGED <<fails, applies>>

FinishOk(r) ==
    /\ Done(r) /\ ~failed[r] /\ ~retry[r]
    /\ \A i \in Want[r] : Copies(r, i)
    /\ Complete(r, "ok")
    /\ UNCHANGED <<slotVars, attempt, todo, need, held, claimed, converted, parts, failed, retry,
                   bounds>>

-----------------------------------------------------------------------------
(* What else happens to a slot.                                            *)

\* apply: a committed record was found, this process's or another's.
Apply(i) ==
    /\ applies < MaxApplies
    /\ applies' = applies + 1
    /\ stored' = stored \cup {i}
    /\ state' = [state EXCEPT ![i] = "ready"]
    /\ waiters' = IF state[i] = "ready" THEN waiters ELSE [waiters EXCEPT ![i] = {}]
    /\ UNCHANGED <<reqVars, fails, drops>>

\* forgetLocked: the transient budget, a commit that will not happen, a
\* damaged record or a kept original that is gone.
Forget(i) ==
    /\ drops < MaxDrops
    /\ state[i] = "ready"
    /\ drops' = drops + 1
    /\ state' = [state EXCEPT ![i] = "absent"]
    /\ stored' = stored \ {i}
    /\ UNCHANGED <<waiters, reqVars, fails, applies>>

-----------------------------------------------------------------------------

Finish(r) ==
    \/ FinishFailed(r) \/ FinishLost(r) \/ FinishOk(r)
    \/ \E i \in Slots : FinishDamaged(r, i)

\* The executor, the conversion pool and the origin, for one request.
Step(r) ==
    \/ Classify(r) \/ HoldReady(r, "hold", "classify") \/ Classified(r)
    \/ ClaimOrWait(r) \/ HoldReady(r, "holdClaim", "claim") \/ Issue(r)
    \/ \E i \in Slots, keep \in BOOLEAN : Stage(r, i, keep)
    \/ OriginalLands(r)
    \/ \E i \in Slots \cup {Whole} : PartFails(r, i)
    \/ Finish(r)

Next ==
    \/ \E r \in Requests : Serve(r) \/ Step(r)
    \/ \E i \in Slots : Apply(i) \/ Forget(i)

Spec == Init /\ [][Next]_vars

\* Tasks run and the origin answers each fetch, with data or an error.
Fairness == \A r \in Requests : WF_vars(Step(r))
FairSpec == Spec /\ Fairness

-----------------------------------------------------------------------------
(* Properties.                                                             *)

TypeOK ==
    /\ state \in [Slots -> {"absent", "fetching", "ready"}]
    /\ stored \subseteq {i \in Slots : state[i] = "ready"}
    /\ waiters \in [Slots -> SUBSET Requests]
    /\ pc \in [Requests -> {"new", "classify", "hold", "claim", "holdClaim", "issued", "answered"}]
    /\ attempt \in [Requests -> 0 .. 2]
    /\ todo \in [Requests -> SUBSET Slots] /\ need \in [Requests -> SUBSET Slots]
    /\ held \in [Requests -> [Slots -> {"no", "mem", "disk"}]]
    /\ claimed \in [Requests -> SUBSET Slots] /\ converted \in [Requests -> SUBSET Slots]
    /\ parts \in [Requests -> SUBSET (Slots \cup {Whole})]
    /\ failed \in [Requests -> BOOLEAN] /\ retry \in [Requests -> BOOLEAN]
    /\ outcome \in [Requests -> {"none", "ok", "origin", "data"}]
    /\ fails \in Nat /\ drops \in Nat /\ applies \in Nat

\* The requests that still have to stage slot i or give it back.
Fetchers(i) == {r \in Requests : pc[r] # "answered" /\ i \in claimed[r] \ converted[r]}

\* A slot is never left marked as being fetched by a request that is gone: it
\* would be waited on for as long as the process lives (abandon, ColdRun.cc:262).
ClaimsOwned == \A i \in Slots : state[i] = "fetching" => Fetchers(i) # {}

\* Whoever waits on a slot waits on a request that will tell it: no wake-up is
\* lost between claimOrWait's two looks, stage, apply and abandon.
WaitersHaveFetcher == \A i \in Slots : waiters[i] # {} => Fetchers(i) # {}

\* "claimed by exactly one caller" (ColdRun.cc:277): while no other process
\* commits, a slot is fetched and converted by one request at a time, even
\* when it is staged, dropped, claimed anew and its first request then fails.
OneFetcher == \A i \in Slots : Cardinality(Fetchers(i)) <= 1


\* A reader is refused for want of bytes others failed to bring only when that
\* happened to each of its three attempts, by three separate faults.
RefusedOnlyAfterThree ==
    \A r \in Requests : outcome[r] = "data" => fails + drops >= 3

\* "Completes `user` exactly once" (ColdRun.h): every request is answered.
RequestsAnswered == \A r \in Requests : pc[r] = "classify" ~> pc[r] = "answered"

=============================================================================
