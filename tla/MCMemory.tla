------------------------------ MODULE MCMemory ------------------------------
(* What readers share in memory, for TLC: the pages staged for an entry     *)
(* (FillBuffer) and the slots that cold requests claim and wait for         *)
(* (ColdClaims).  Their state is apart, so a behaviour is one of one part,  *)
(* chosen by Init, and the other stays as it began.                         *)
EXTENDS FillBuffer, TLC

CONSTANT Requests

VARIABLES part,
          state, stored, waiters, place, attempt, look, need, held, claimed, converted, parts,
          failed, retry, outcome, fails, drops, applies

(* Three requests for both slots, two failed fetches, a record dropped.    *)
C == INSTANCE ColdClaims WITH
        Slots <- {1, 2}, Want <- [r \in Requests |-> {1, 2}], Original <- {},
        MaxFails <- 2, MaxDrops <- 1, MaxApplies <- 0, pc <- place, todo <- look

CVars == <<state, stored, waiters, place, attempt, look, need, held, claimed, converted, parts,
           failed, retry, outcome, fails, drops, applies>>

\* Threads, entries and requests are interchangeable.
Symmetric == Permutations(Threads) \cup Permutations(Entries) \cup Permutations(Requests)

-----------------------------------------------------------------------------
PartsInit == part \in {"stage", "claims"} /\ Init /\ C!Init

PartsNext ==
    /\ UNCHANGED part
    /\ \/ part = "stage" /\ Next /\ UNCHANGED CVars
       \/ part = "claims" /\ C!Next /\ UNCHANGED vars

PartsSpec == PartsInit /\ [][PartsNext]_<<part, vars, CVars>>

-----------------------------------------------------------------------------
\* The byte counters of an entry agree with its stage, the process-wide pools with
\* the entries whenever nobody is inside the cache, and a flush marked as running
\* is one thread's (writePages, flushBuffer, releaseRanges, the destructor).
StageSound == TypeOK /\ CountersAgree /\ PoolsExact /\ FlushOwned

\* A slot marked as being fetched is fetched by exactly one request that is still
\* there, whoever waits on a slot waits on such a request, and a reader is refused
\* for bytes others failed to bring only after three separate faults (claimOrWait,
\* stage, abandon, coldServe): ColdClaims.
ClaimsSound ==
    /\ C!TypeOK /\ C!ClaimsOwned /\ C!WaitersHaveFetcher /\ C!OneFetcher
    /\ C!RefusedOnlyAfterThree

=============================================================================
