------------------------------- MODULE MCCold -------------------------------
(* The cold path, for TLC: the requests that claim and wait for slots       *)
(* (ColdClaims), and what becomes of the records they stage (ColdCommit).   *)
(* ColdCommit has its own claims and stagings, so a behaviour is one of one *)
(* part, chosen by Init, and the other stays as it began.                   *)
EXTENDS ColdCommit

CONSTANTS w1, w2,    \* the two threads of the commit pool
          r1, r2     \* requests

VARIABLES part,
          slot, stored, waiters, place, attempt, todo, need, held, claimed, converted, parts,
          failed, retry, outcome, fails, drops, applies

-----------------------------------------------------------------------------
(* Two slots, one of them kept as stored, and at most two runs of the file, *)
(* the second replacing the first.                                          *)

Cast(build, join, claim, waste, forget, apply, refuse, exits) ==
    [build |-> build, join |-> join, claim |-> claim, waste |-> waste, forget |-> forget,
     apply |-> apply, refuse |-> refuse, exit |-> exits]

\* Two records and an exit; conversions given up or not kept; records
\* committed elsewhere and found unreadable; a refused commit; two runs.
MCCasts ==
    {Cast(1, 0, 2, 0, 0, 0, 0, 1), Cast(1, 1, 1, 1, 0, 0, 0, 0), Cast(1, 0, 2, 0, 0, 1, 0, 0),
     Cast(1, 0, 2, 0, 1, 0, 0, 0), Cast(1, 0, 2, 0, 0, 0, 1, 0), Cast(2, 0, 1, 0, 0, 0, 0, 0)}

Unused == INSTANCE ColdCommit WITH Casts <- {Cast(0, 0, 0, 0, 0, 0, 0, 0)}

(* Two requests for both slots, one of which also fetches original bytes,  *)
(* one failed fetch, one record dropped and one committed elsewhere.       *)
C == INSTANCE ColdClaims WITH
        Requests <- {r1, r2}, Want <- [r \in {r1, r2} |-> {1, 2}], Original <- {r2},
        MaxFails <- 1, MaxDrops <- 1, MaxApplies <- 1, state <- slot, pc <- place

CVars == <<slot, stored, waiters, place, attempt, todo, need, held, claimed, converted, parts,
           failed, retry, outcome, fails, drops, applies>>

-----------------------------------------------------------------------------
PartsInit ==
    /\ part \in {"claims", "commit"}
    /\ IF part = "commit" THEN Init ELSE Unused!Init
    /\ C!Init

PartsNext ==
    /\ UNCHANGED part
    /\ \/ part = "commit" /\ Next /\ UNCHANGED CVars
       \/ part = "claims" /\ C!Next /\ UNCHANGED vars

\* The fairness of ColdCommit and of ColdClaims.
PartsFairness ==
    /\ \A r \in Runs : /\ WF_vars(part = "commit" /\ QueueCommit(r))
                       /\ WF_vars(part = "commit" /\ PostCommit(r))
    /\ \A w \in Workers : WF_vars(part = "commit" /\ Work(w))
    /\ \A q \in {r1, r2} : WF_CVars(part = "claims" /\ C!Step(q))

PartsSpec == PartsInit /\ [][PartsNext]_<<part, vars, CVars>> /\ PartsFairness

-----------------------------------------------------------------------------
\* A slot said to be ready can be served, and the counters that hold memory down
\* say what is held (ColdRun.cc:187, 1672).
ReadyAndCounted == ReadyIsHeld /\ HeldIsCounted

\* "Completes `user` exactly once" (ColdRun.h:105): with one failure every cold
\* request is answered: ColdClaims!RequestsAnswered.
RequestsAnswered == C!RequestsAnswered
=============================================================================
