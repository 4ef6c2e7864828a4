------------------------------ MODULE CopyDetect ------------------------------
(***************************************************************************)
(* Which opens belong to a copy (plugin/CopyDetect.cc).  A copy must read  *)
(* the origin's bytes, so the opening thread compares the return addresses *)
(* on its stack with a table of the address ranges of copy functions.  The *)
(* table is shared, is rebuilt without a lock when the loader's generation *)
(* changes, and libraries are loaded and unloaded while threads build it.  *)
(*                                                                         *)
(* A library occupies Span addresses from base * Span; an address here is  *)
(* that of the call, one before the return address.  A library is its kind *)
(* and its symbols, each with the size the loader reports (0 when it       *)
(* reports none).  The engine's library, which every open comes through,   *)
(* stays loaded, as does every library outside Unloadable.                 *)
(***************************************************************************)
EXTENDS Integers, Sequences, FiniteSetsExt

CONSTANTS Threads, Libs, Kind, Symbols, Engine, Unloadable, Bases, Span,
          Window, Depth, Stacks, Programs, MaxMoves, MaxOpens

VARIABLES
  program,  \* what the program's name alone says (copyProgramSignal)
  loaded,   \* the base each library is mapped at, 0 when it is not
  gen,      \* the loader's count of loads and unloads
  table,    \* the published table (tableSlot)
  opening,  \* each thread's open
  opens     \* opens so far

cvars == <<program, loaded, gen, table, opening, opens>>

Address(base, off) == base * Span + off

\* dladdr: the symbol a call at off in library l belongs to.
SymbolAt(l, off) ==
  CHOOSE s \in Symbols[l] : /\ s.at <= off
                            /\ \A o \in Symbols[l] : o.at <= off => o.at <= s.at

\* addFunction: the range of one function, its end only a bound when the loader
\* reports no size.
FunctionRange(base, s) ==
  [lo |-> Address(base, s.at),
   hi |-> Address(base, s.at) + (IF s.size > 0 THEN s.size ELSE Window),
   sig |-> s.sig, confirm |-> s.size = 0]

\* addFromLibrary: the copy functions of a library, where it is loaded now; none
\* when it is not loaded any more.
FromLibrary(l) ==
  IF loaded[l] = 0 THEN {}
  ELSE {FunctionRange(loaded[l], s) : s \in {s \in Symbols[l] : s.sig # "none"}}

\* scanCb, under the loader's lock: gfal's whole plugin, and where each of ROOT's
\* I/O libraries is.
ScannedGfal ==
  {[lo |-> Address(loaded[l], 0), hi |-> Address(loaded[l], Span), sig |-> "gfal",
    confirm |-> FALSE] : l \in {l \in Libs : Kind[l] = "gfal" /\ loaded[l] # 0}}
ScannedRootIo ==
  {[lib |-> l, base |-> loaded[l]] : l \in {l \in Libs : Kind[l] = "rootio" /\ loaded[l] # 0}}

All(engine, rootIo, gfal) == engine \union UNION {r.ranges : r \in rootIo} \union gfal

Idle == [at |-> "idle", stack |-> <<>>, gen |-> 0, used |-> <<>>, todo |-> {},
         rootIo |-> {}, gfal |-> {}, sig |-> "none"]

-----------------------------------------------------------------------------
Load(l) ==
  /\ gen < MaxMoves /\ loaded[l] = 0
  /\ \E b \in Bases \ {loaded[o] : o \in Libs} : loaded' = [loaded EXCEPT ![l] = b]
  /\ gen' = gen + 1
  /\ UNCHANGED <<program, table, opening, opens>>

\* A library is unloaded only while none of its code is on a stack.
Unload(l) ==
  /\ gen < MaxMoves /\ l \in Unloadable /\ loaded[l] # 0
  /\ \A t \in Threads : \/ opening[t].at \in {"idle", "done"}
                        \/ \A i \in DOMAIN opening[t].stack : opening[t].stack[i].lib # l
  /\ loaded' = [loaded EXCEPT ![l] = 0]
  /\ gen' = gen + 1
  /\ UNCHANGED <<program, table, opening, opens>>

-----------------------------------------------------------------------------
\* copierSignal: the program's name first, then the stack.
Open(t) ==
  /\ opening[t].at \in {"idle", "done"} /\ opens < MaxOpens
  /\ \E s \in Stacks :
       /\ \A i \in DOMAIN s : loaded[s[i].lib] # 0
       /\ opening' = [opening EXCEPT ![t] =
            [Idle EXCEPT !.at = IF program # "none" THEN "done" ELSE "generation",
                         !.stack = s, !.sig = program]]
  /\ opens' = opens + 1
  /\ UNCHANGED <<program, loaded, gen, table>>

\* currentTable reads the generation, then the table, and uses that table only if
\* it was built for that generation.
ReadGeneration(t) ==
  /\ opening[t].at = "generation"
  /\ opening' = [opening EXCEPT ![t].at = "table", ![t].gen = gen]
  /\ UNCHANGED <<program, loaded, gen, table, opens>>


Current(g, tab) == tab.gen = g

LoadTable(t) ==
  /\ opening[t].at = "table"
  /\ opening' = [opening EXCEPT ![t].at = IF Current(opening[t].gen, table) THEN "walk" ELSE "scan",
                                ![t].used = table]
  /\ UNCHANGED <<program, loaded, gen, table, opens>>

\* buildTable: the scan,
Scan(t) ==
  /\ opening[t].at = "scan"
  /\ opening' = [opening EXCEPT ![t].at = "resolve", ![t].todo = ScannedRootIo,
                                ![t].gfal = ScannedGfal]
  /\ UNCHANGED <<program, loaded, gen, table, opens>>

\* then, for each of ROOT's libraries, what the previous table resolved for the same
\* library at the same base, or a lookup in the library as it is loaded now,
Same(l, prev) == {r \in prev.rootIo : r.lib = l.lib /\ r.base = l.base}
Resolved(l, prev) == IF Same(l, prev) # {} THEN UNION {r.ranges : r \in Same(l, prev)}
                     ELSE FromLibrary(l.lib)

Resolve(t) ==
  /\ opening[t].at = "resolve"
  /\ \E l \in opening[t].todo :
       opening' = [opening EXCEPT
         ![t].todo = @ \ {l},
         ![t].rootIo = @ \union {[lib |-> l.lib, base |-> l.base,
                                  ranges |-> Resolved(l, opening[t].used)]}]
  /\ UNCHANGED <<program, loaded, gen, table, opens>>

\* and the new table published under the generation read at first: the last store wins.
Store(t) ==
  /\ opening[t].at = "resolve" /\ opening[t].todo = {}
  /\ LET o == opening[t]
         new == [gen |-> o.gen, engine |-> o.used.engine, rootIo |-> o.rootIo,
                 all |-> All(o.used.engine, o.rootIo, o.gfal)]
     IN  /\ table' = new
         /\ opening' = [opening EXCEPT ![t].at = "walk", ![t].used = new]
  /\ UNCHANGED <<program, loaded, gen, opens>>

\* copierStackSignal: the innermost frame that lies in a range decides, a range that
\* is only a bound once the frame's own symbol is found to start where it does.
Confirmed(f, r) == r.confirm => Address(loaded[f.lib], SymbolAt(f.lib, f.off).at) = r.lo
Hits(f, tab) ==
  {r \in tab.all : /\ Address(loaded[f.lib], f.off) \in r.lo .. (r.hi - 1)
                   /\ Confirmed(f, r)}

\* Frame 0 is the detector's own.
Seen(s) == 1 .. Min({Len(s), Depth - 1})

Walk(t) ==
  /\ opening[t].at = "walk"
  /\ LET o == opening[t]
         hit == {i \in Seen(o.stack) : Hits(o.stack[i], o.used) # {}}
     IN  \E r \in IF hit = {} THEN {[sig |-> "none"]} ELSE Hits(o.stack[Min(hit)], o.used) :
           opening' = [opening EXCEPT ![t] = [Idle EXCEPT !.at = "done", !.stack = o.stack,
                                                          !.sig = r.sig]]
  /\ UNCHANGED <<program, loaded, gen, table, opens>>

\* copyDetectInit has run: the engine resolved, the table built for what is loaded.
Init ==
  /\ program \in Programs
  /\ \E b \in Bases : loaded = [l \in Libs |-> IF l = Engine THEN b ELSE 0]
  /\ gen = 0
  /\ table = [gen |-> 0, engine |-> FromLibrary(Engine), rootIo |-> {},
              all |-> FromLibrary(Engine)]
  /\ opening = [t \in Threads |-> Idle]
  /\ opens = 0

Next ==
  \/ \E l \in Libs : Load(l) \/ Unload(l)
  \/ \E t \in Threads : \/ Open(t) \/ ReadGeneration(t) \/ LoadTable(t) \/ Scan(t)
                        \/ Resolve(t) \/ Store(t) \/ Walk(t)

Spec == Init /\ [][Next]_cvars

-----------------------------------------------------------------------------
\* What a frame really is, whatever any table says.
FrameSignal(f) ==
  IF Kind[f.lib] = "gfal" THEN "gfal" ELSE SymbolAt(f.lib, f.off).sig

=============================================================================
