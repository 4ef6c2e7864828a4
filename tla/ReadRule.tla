------------------------------ MODULE ReadRule ------------------------------
(***************************************************************************)
(* max_read_fraction: a file whose reader asks for most of it is read      *)
(* straight from the origin and not cached.  One rule per file and size,   *)
(* shared by every handle of the process (ReadRule.cc); it weighs the      *)
(* branches the requests cover (ReadMap.cc) until it decides, once.        *)
(*                                                                         *)
(* Threads observe requests.  What happens under a rule's mutex is one     *)
(* step, except that another rule's map is dropped in between, where only  *)
(* a try-lock is used; the decision is an atomic another thread may read   *)
(* at any time.  A map is a sequence of units (baskets or pages), sorted   *)
(* by offset; branches are numbers.                                        *)
(***************************************************************************)
EXTENDS Ranges, Functions

CONSTANTS
    Threads,
    Keys,        \* files
    MapOf,       \* MapOf[k]: [units, headSkip], or NoMap when it cannot be parsed
    Requests,    \* sets of <<offset, length>>: what one request asks for
    Limit,       \* max_read_fraction
    MaxRules,    \* bound of the registry
    MaxMaps,     \* bound of the maps held by undecided rules
    MaxSizes,    \* bound: how often a file changes its size at the origin
    Budget,      \* bound on requests
    NoMap, NoRule

VARIABLES
    size,        \* the size of each file at the origin
    reg,         \* the registry: the size of the rule it holds for a key
    rule,        \* rule[k][s]: state, map (held), seen, runs, parsed, owner
    held,        \* the deque of rules that parsed a map, oldest first
    now,         \* now[t]: the rule and the request a thread is at, and the rule
                 \* whose map it has to drop
    at,          \* what the thread does next
    asked,       \* branches each rule's requests covered (history)
    budget

rvars == <<size, reg, rule, held, now, at, asked, budget>>

Sizes == 1 .. MaxSizes
Fresh == [state |-> "undecided", parsed |-> FALSE, map |-> FALSE, seen |-> {}, runs |-> <<>>,
          owner |-> NoRule]

-----------------------------------------------------------------------------
(* ReadMap.  A branch counts when at least half of one of its units is     *)
(* covered by the merged ranges.                                           *)
Clipped(m, ranges) ==
    {r \in {<<Greater(q[1], m.headSkip), q[1] + q[2]>> : q \in {x \in ranges : x[2] > 0}} : r[1] < r[2]}

(* The units a merged range can reach: from the last one that starts at or *)
(* before it, on while they start before its end.                          *)
Reached(m, r) ==
    LET before == {k \in DOMAIN m.units : m.units[k].off <= r[1]}
        first == IF before = {} THEN 1 ELSE Max(before) IN
    {k \in DOMAIN m.units : k >= first /\ m.units[k].off < r[2] /\ m.units[k].off + m.units[k].len > r[1]}
CoveredBy(m, k, r) ==
    Lesser(r[2], m.units[k].off + m.units[k].len) - Greater(r[1], m.units[k].off)

groupsOf(m, ranges) ==
    LET merged == Merged(Clipped(m, ranges))
        bytes(k) == FoldLeft(LAMBDA n, r : n + (IF k \in Reached(m, r) THEN CoveredBy(m, k, r) ELSE 0),
                             0, merged) IN
    {m.units[k].group : k \in {u \in DOMAIN m.units : bytes(u) > 0 /\ 2 * bytes(u) >= m.units[u].len}}

Weight(m, groups) ==
    MapThenSumSet(LAMBDA k : IF m.units[k].group \in groups THEN m.units[k].len ELSE 0, DOMAIN m.units)
TotalOf(m) == MapThenSumSet(LAMBDA k : m.units[k].len, DOMAIN m.units)
exceeds(m, groups) == Weight(m, groups) * 100 > Limit * TotalOf(m)

(* step: 1 = directly, 0 = cached, -1 = not yet, with the branches seen.   *)
mapStepOnce(m, seen, ranges) ==      \* mutant: weighs a request on its own
    LET groups == groupsOf(m, ranges) IN
    [seen |-> groups, decides |-> IF groups = {} THEN -1 ELSE IF exceeds(m, groups) THEN 1
                                  ELSE IF Cardinality(groups) >= 2 /\ groups \subseteq seen THEN 0 ELSE -1]
mapStep(m, seen, ranges) ==
    LET groups == groupsOf(m, ranges)
        all == seen \cup groups IN
    [seen |-> all,
     decides |-> IF groups = {} THEN -1
                 ELSE IF exceeds(m, all) THEN 1
                 ELSE IF Cardinality(groups) >= 2 /\ all = seen THEN 0 ELSE -1]

(* touches, and its compact stand-in once the map is gone: dataRuns, and   *)
(* readsData over them.                                                    *)
touches(m, off, len) ==
    LET a == Greater(off, m.headSkip) IN a < off + len /\ Reached(m, <<a, off + len>>) # {}
dataRuns(m) ==
    FoldLeft(LAMBDA runs, u : LET r == <<Greater(u.off, m.headSkip), u.off + u.len>> IN
                              IF r[1] >= r[2] THEN runs ELSE MergeStep(runs, r),
             <<>>, m.units)
ReadsFrom(runs, off, len) ==       \* mutant: only the run that starts inside counts
    len > 0 /\ \E i \in DOMAIN runs : runs[i][1] >= off /\ runs[i][1] < off + len
readsData(runs, off, len) ==
    LET upto == {i \in DOMAIN runs : runs[i][1] <= off}     \* upper_bound
        it == Cardinality(upto) + 1 IN
    len > 0 /\ \/ it > 1 /\ runs[it - 1][2] > off
               \/ it <= Len(runs) /\ runs[it][1] < off + len

-----------------------------------------------------------------------------
(* forFile: a file of another size decides again; past the bound a new     *)
(* file has no rule.                                                       *)
KnownNever(k) == FALSE   \* mutant: every open starts a new rule
Known(k) == reg[k] = size[k]
Registered == {k \in Keys : reg[k] # NoRule}
forFile(t, k) ==
    /\ at[t] = "idle" /\ budget > 0 /\ budget' = budget - 1
    /\ \E q \in Requests :
          \/ /\ Known(k)
             /\ now' = [now EXCEPT ![t] = [key |-> k, size |-> size[k], ask |-> q, oldest |-> NoRule]]
             /\ at' = [at EXCEPT ![t] = "observe"]
             /\ UNCHANGED <<reg, rule, asked>>
          \/ /\ ~Known(k) /\ (reg[k] # NoRule \/ Cardinality(Registered) < MaxRules)
             /\ reg' = [reg EXCEPT ![k] = size[k]]
             /\ rule' = [rule EXCEPT ![k][size[k]] = Fresh]
             /\ asked' = [asked EXCEPT ![k][size[k]] = {}]
             /\ now' = [now EXCEPT ![t] = [key |-> k, size |-> size[k], ask |-> q, oldest |-> NoRule]]
             /\ at' = [at EXCEPT ![t] = "observe"]
          \/ /\ reg[k] = NoRule /\ Cardinality(Registered) >= MaxRules
             /\ UNCHANGED <<reg, rule, asked, now, at>>
    /\ UNCHANGED <<size, held>>

Mine(t) == rule[now[t].key][now[t].size]
Put(t, r) == rule' = [rule EXCEPT ![now[t].key][now[t].size] = r]
Leave(t) == at' = [at EXCEPT ![t] = "idle"] /\ now' = [now EXCEPT ![t] = NoRule]

(* observe up to the mutex: a decision that is there is returned.          *)
Enter(t) ==
    /\ at[t] = "observe"
    /\ \/ /\ Mine(t).state # "undecided"
          /\ Leave(t) /\ UNCHANGED rule
       \/ /\ Mine(t).state = "undecided" /\ Mine(t).owner = NoRule
          /\ Put(t, [Mine(t) EXCEPT !.owner = t])
          /\ at' = [at EXCEPT ![t] = "parse"] /\ UNCHANGED now
    /\ UNCHANGED <<size, reg, held, asked, budget>>

(* The first holder parses, and counts its map against the bound: past it  *)
(* the oldest rule is to lose its own.                                     *)
Parse(t) ==
    /\ at[t] = "parse"
    /\ \/ /\ Mine(t).parsed
          /\ at' = [at EXCEPT ![t] = "step"] /\ UNCHANGED <<rule, held, now>>
       \/ /\ ~Mine(t).parsed /\ MapOf[now[t].key] = NoMap
          /\ Put(t, [Mine(t) EXCEPT !.parsed = TRUE, !.state = "none", !.owner = NoRule])
          /\ Leave(t) /\ UNCHANGED held
       \/ /\ ~Mine(t).parsed /\ MapOf[now[t].key] # NoMap
          /\ Put(t, [Mine(t) EXCEPT !.parsed = TRUE, !.map = TRUE])
          /\ LET d == Append(held, <<now[t].key, now[t].size>>) IN
             IF Len(d) > MaxMaps
             THEN /\ held' = Tail(d)
                  /\ now' = [now EXCEPT ![t].oldest = Head(d)]
                  /\ at' = [at EXCEPT ![t] = "drop"]
             ELSE held' = d /\ at' = [at EXCEPT ![t] = "step"] /\ UNCHANGED now
    /\ UNCHANGED <<size, reg, asked, budget>>

(* dropMap of the oldest: only tried; an undecided file is then cached for *)
(* good.                                                                   *)
Dropped(r) ==
    IF r.owner # NoRule THEN r      \* in use: freed at its decision
    ELSE [r EXCEPT !.state = IF r.map /\ @ = "undecided" THEN "cache" ELSE @, !.map = FALSE, !.seen = {}]
Drop(t) ==
    /\ at[t] = "drop"
    /\ LET o == now[t].oldest IN
       rule' = [rule EXCEPT ![o[1]][o[2]] = Dropped(@)]
    /\ at' = [at EXCEPT ![t] = "step"]
    /\ UNCHANGED <<size, reg, held, now, asked, budget>>

(* The request is weighed, a decision frees the map; the runs are written  *)
(* before the state says directly.                                         *)
Weigh(t) ==
    /\ at[t] = "step"
    /\ LET m == MapOf[now[t].key]
           d == mapStep(m, Mine(t).seen, now[t].ask)
           decided == [Mine(t) EXCEPT !.map = FALSE, !.seen = {}, !.owner = NoRule] IN
       /\ asked' = [asked EXCEPT ![now[t].key][now[t].size] = @ \cup groupsOf(m, now[t].ask)]
       /\ \/ d.decides = -1 /\ Put(t, [Mine(t) EXCEPT !.seen = d.seen, !.owner = NoRule])
          \/ d.decides = 0 /\ Put(t, [decided EXCEPT !.state = "cache"])
          \/ d.decides = 1 /\ Put(t, [decided EXCEPT !.state = "direct", !.runs = dataRuns(m)])
    /\ Leave(t)
    /\ UNCHANGED <<size, reg, held, budget>>

(* The file is replaced at the origin; bound: only one file ever is.       *)
Resize(k) ==
    /\ size[k] < MaxSizes /\ \A j \in Keys \ {k} : size[j] = 1 /\ size' = [size EXCEPT ![k] = @ + 1]
    /\ UNCHANGED <<reg, rule, held, now, at, asked, budget>>

Init ==
    /\ size = [k \in Keys |-> 1] /\ reg = [k \in Keys |-> NoRule]
    /\ rule = [k \in Keys |-> [s \in Sizes |-> Fresh]]
    /\ asked = [k \in Keys |-> [s \in Sizes |-> {}]]
    /\ held = <<>> /\ budget = Budget
    /\ now = [t \in Threads |-> NoRule] /\ at = [t \in Threads |-> "idle"]

Next ==
    \/ \E t \in Threads : Enter(t) \/ Parse(t) \/ Drop(t) \/ Weigh(t) \/ \E k \in Keys : forFile(t, k)
    \/ \E k \in Keys : Resize(k)
Spec == Init /\ [][Next]_rvars

-----------------------------------------------------------------------------
(* A file is read directly exactly when the branches its requests covered, *)
(* all of them together and up to the decision, hold more than the limit,  *)
(* whichever threads they came from (observe, ReadMap::step); a decided    *)
(* rule keeps no map.                                                      *)
DirectAboveLimit ==
    \A k \in Keys, s \in Sizes : LET r == rule[k][s] IN
        /\ r.state = "direct" <=> MapOf[k] # NoMap /\ exceeds(MapOf[k], asked[k][s])
        /\ r.state # "undecided" => ~r.map

(* A decision is never taken twice: not by a request that waited for the   *)
(* rule, not by the rule whose map is the oldest when another file is      *)
(* parsed (dropMap), as long as the file keeps its size.                   *)
DecidedOnce ==
    [][\A k \in Keys, s \in Sizes :
          rule[k][s].state # "undecided" => rule'[k][s].state = rule[k][s].state]_rvars

(* What a directly read file takes for its data, after the map is gone, is *)
(* exactly what overlaps a unit of it: the file's own records are still    *)
(* cached (dataRuns and readsData stand in for touches).                   *)
DataIsUnits ==
    \A k \in Keys, s \in Sizes : rule[k][s].state = "direct" =>
        \A off \in 0 .. 11, len \in {0, 1, 3} :
            readsData(rule[k][s].runs, off, len) = touches(MapOf[k], off, len)
=============================================================================
