------------------------------ MODULE MCForms ------------------------------
(* The forms of a file beside its byte copy, for TLC: the slot store that  *)
(* processes share (SlotStore), and the choice between store, replica and  *)
(* byte copy as handles open while both are made and removed (Layouts).    *)
(* Layouts sees of a store only that it is there, so a behaviour is one of *)
(* one part, chosen by Init, and the other stands still.                   *)
EXTENDS SlotStore, TLC

CONSTANTS Parts,                        \* the parts in question
          h1, h2, h3, j1, j2, c1, c2    \* handles, their processes and the codecs

VARIABLES part,
          slots, tmeta, tdata, tok, shown, registry, runs, op, pub, rm, ever, cut, cast,
          stores, builds, removals, crashes, opens

-----------------------------------------------------------------------------
(* Two handles of a process, or one of each of two processes that are      *)
(* configured with different codecs, with the tools.                       *)

LProcOf == (h1 :> j1) @@ (h2 :> j1) @@ (h3 :> j2)
LCasts == {{h1, h2, "publisher"}} \cup
    UNION {{{h, h3, "publisher"}, {h, h3, "remover"}, {h, "publisher", "remover"}} : h \in {h1, h2}}

L == INSTANCE Layouts WITH
        Handles <- {h1, h2, h3}, Procs <- {j1, j2}, ProcOf <- LProcOf, Codecs <- {c1, c2},
        Setting <- (j1 :> c1) @@ (j2 :> c2), Declining <- {}, Recompress <- {j1, j2},
        Casts <- LCasts, MaxStores <- 2, MaxPublish <- 2, MaxDrops <- 1, MaxCrashes <- 1,
        MaxOpens <- 2, drops <- removals

LVars == <<slots, tmeta, tdata, tok, shown, registry, runs, op, pub, rm, ever, cut, cast,
           stores, builds, removals, crashes, opens>>

\* The processes of the store are alike, and the two handles of one process.
Symmetric == Permutations(Procs) \cup Permutations(Inodes) \cup Permutations({h1, h2})

-----------------------------------------------------------------------------
(* A behaviour of one part.                                                *)

StoreStill ==
    /\ file = None /\ path = None /\ used = None /\ lock = None /\ open = None /\ gone = None
    /\ known = None /\ pending = None /\ readOff = None /\ claimedEnd = None /\ pc = None
    /\ base = None /\ batch = None /\ done = None /\ commits = None /\ torn = None
    /\ drops = None
LStill ==
    /\ slots = None /\ tmeta = None /\ tdata = None /\ tok = None /\ shown = None
    /\ registry = None /\ runs = None /\ op = None /\ pub = None /\ rm = None /\ ever = None
    /\ cut = None /\ cast = None /\ stores = None /\ builds = None /\ removals = None
    /\ crashes = None /\ opens = None

PartsInit ==
    /\ part \in Parts
    /\ IF part = "store" THEN Init ELSE StoreStill
    /\ IF part = "layouts" THEN L!Init ELSE LStill

PartsNext ==
    /\ UNCHANGED part
    /\ \/ part = "store" /\ Next /\ UNCHANGED LVars
       \/ part = "layouts" /\ L!Next /\ UNCHANGED vars

PartsSpec == PartsInit /\ [][PartsNext]_<<part, vars, LVars>>

-----------------------------------------------------------------------------
(* The parts' invariants, each about the behaviours of its part.           *)

\* A block whose commit returned is never written over nor lost behind one cut
\* short by a crash (SlotStore.h:171): SlotStore!NeverBuried.
CommittedStays == part = "store" => NeverBuried

\* A process has applied every committed block or finds it when it next reads,
\* and two that convert one slot do not both commit it (SlotStore::refresh,
\* commit): SlotStore.
CommitsSeen == part = "store" => TypeOK /\ ReadersCatchUp /\ WrittenOnce

\* A process shows a file in one layout besides the original through all its opens,
\* and a creator of a store and a publisher of a replica that race do not leave both
\* forms (chooseLayout, build, publish): Layouts.
LayoutsAgree == part = "layouts" => L!OneLayout /\ L!OneForm

\* A view that passed openView has the .tdata its sidecar was made for, and a
\* run counts exactly the handles that hold it (openView, coldDetach): Layouts.
ViewsHold == part = "layouts" => L!ViewWhole /\ L!HandlesCounted
=============================================================================
