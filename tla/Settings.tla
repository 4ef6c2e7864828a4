------------------------------ MODULE Settings ------------------------------
(***************************************************************************)
(* The settings: the plugin conf (defaults), the state file under the      *)
(* cache directory (`ucache set`, `ucache unset`) and the UCACHE_*         *)
(* variables of one job, each layer over the one before it (Config.cc), by *)
(* several processes.                                                      *)
(*                                                                         *)
(* A layer maps keys to texts.  The keys stand for the ways applyKey       *)
(* treats a value: `dir`; `max_bytes`, where a value it cannot read is     *)
(* passed over with its source recorded all the same; `max_read_fraction`, *)
(* where such a value leaves the layer below in charge; `low_water`, taken *)
(* as it stands and clamped at the end; `retired`, a key of older releases.*)
(* A file is an inode with a layer as its text, so that a file opened      *)
(* before a rename is still the one that was opened.                       *)
(***************************************************************************)
EXTENDS Integers, FiniteSets, Functions

CONSTANTS
    Cmds,     \* the processes
    Scenes,   \* the scenarios: see Init
    Crashes,  \* bound on commands killed
    Nil       \* no value; no file

VARIABLES
    line,     \* line[p]: what p runs, and the conf and environment it sees
    step,     \* what p does next
    cfg,      \* the Config it loaded
    kv,       \* the entries it is about to write
    path,     \* path[d]: the inode of the state file of cache directory d
    tmp,      \* tmp[d]: the inode of the state file's temporary
    fd,       \* fd[p]: the inode p has open for writing
    text,     \* text[i]: what inode i holds
    code,     \* exit codes
    overlap,  \* two commands were writing at once (history)
    crashes

svars == <<line, step, cfg, kv, path, tmp, fd, text, code, overlap, crashes>>

-----------------------------------------------------------------------------
knownKeys == {"dir", "max_bytes", "max_read_fraction", "low_water", "retired"}
Dirs == {"d1", "d2"}
Nothing == [k \in {} |-> Nil]

(* parseBytes and the percentage: what each key can read.                  *)
Readable == [dir |-> Dirs, max_bytes |-> {"0", "10g"}, max_read_fraction |-> {"50", "70"},
             low_water |-> {"0.70", "0.95"}, retired |-> {}]
stateSettable(k) == k \notin {"dir", "retired"}

(* applyKey: whether the value is taken, and whether it returns true.      *)
Taken(k, v) == v \in Readable[k]
Applied(k, v) == Taken(k, v) \/ k = "max_bytes"

(* One layer on top of the Config below it.                                *)
Layer(c, tag, kvs) ==
    LET given == DOMAIN kvs IN
    [val |-> [k \in knownKeys |-> IF k \in given /\ Taken(k, kvs[k]) THEN kvs[k] ELSE c.val[k]],
     src |-> [k \in knownKeys |-> IF k \in given /\ Applied(k, kvs[k]) THEN tag ELSE c.src[k]],
     explicitMax |-> c.explicitMax \/ ("max_bytes" \in given /\ kvs["max_bytes"] = "10g"),
     auto |-> FALSE]

BuiltIn ==
    [val |-> [dir |-> Nil, max_bytes |-> "0", max_read_fraction |-> "70", low_water |-> "0.75",
              retired |-> Nil],
     src |-> [k \in knownKeys |-> "default"], explicitMax |-> FALSE, auto |-> FALSE]

(* The state file cannot relocate the directory it lives in.               *)
Loaded(kvs) == Restrict(kvs, DOMAIN kvs \ {"dir"})

clampAndFinish(c) ==
    [c EXCEPT !.val["low_water"] = IF @ = "0.95" THEN "0.75" ELSE @,    \* not below high_water
              !.auto = ~c.explicitMax]

(* finishLoad: where the state file is looked for.                         *)
StateDir(c, env) == IF "dir" \in DOMAIN env THEN env["dir"] ELSE c.val.dir
Entries(d) == IF d = Nil \/ path[d] = Nil THEN Nothing ELSE text[path[d]]
fromEnv(conf, env) ==
    LET below == Layer(BuiltIn, "conf", conf)
        d == StateDir(below, env) IN
    clampAndFinish(Layer(Layer(below, "state", Loaded(Entries(d))), "env", env))

-----------------------------------------------------------------------------
Goes(p, l) == step' = [step EXCEPT ![p] = l] /\ UNCHANGED code
Exits(p, c) == step' = [step EXCEPT ![p] = "done"] /\ code' = [code EXCEPT ![p] = c]
DirOf(p) == cfg[p].val.dir

(* Every process loads its settings first; a job, and `ucache settings`,   *)
(* does no more than use them.                                             *)
Load(p) ==
    /\ step[p] = "start"
    /\ cfg' = [cfg EXCEPT ![p] = fromEnv(line[p].conf, line[p].env)]
    /\ IF line[p].kind = "job" THEN Exits(p, 0) ELSE Goes(p, "read")
    /\ UNCHANGED <<line, kv, path, tmp, fd, text, overlap, crashes>>

Writing(p) == step[p] \in {"write", "flush", "rename"}
Notes(p) == overlap' = (overlap \/ \E q \in Cmds \ {p} : Writing(q) /\ DirOf(q) = DirOf(p))
Without(f, k) == Restrict(f, DOMAIN f \ {k})
With(f, k, v) == [x \in DOMAIN f \cup {k} |-> IF x = k THEN v ELSE f[x]]

(* cmdSet: readStateEntries, and the key replaced or added.                *)
SetKey(p) ==
    /\ step[p] = "read" /\ line[p].kind = "set"
    /\ Notes(p)
    /\ IF ~stateSettable(line[p].key) \/ DirOf(p) = Nil
       THEN Exits(p, 2) /\ UNCHANGED kv
       ELSE Goes(p, "write") /\ kv' = [kv EXCEPT ![p] = With(Entries(DirOf(p)), line[p].key, line[p].value)]
    /\ UNCHANGED <<line, cfg, path, tmp, fd, text, crashes>>

(* cmdUnset: also for a key that is no longer one.                         *)
Unset(p) ==
    /\ step[p] = "read" /\ line[p].kind = "unset"
    /\ Notes(p)
    /\ LET now == Entries(DirOf(p)) IN
       \/ DirOf(p) = Nil /\ Exits(p, 2) /\ UNCHANGED kv
       \/ DirOf(p) # Nil /\ line[p].key \notin DOMAIN now /\ Exits(p, 0) /\ UNCHANGED kv
       \/ DirOf(p) # Nil /\ line[p].key \in DOMAIN now /\ Goes(p, "write")
          /\ kv' = [kv EXCEPT ![p] = Without(now, line[p].key)]
    /\ UNCHANGED <<line, cfg, path, tmp, fd, text, crashes>>

(* writeStateFile.  Nothing left: no file.  Otherwise the one temporary is *)
(* truncated (or made), written at its close, and renamed over the file.   *)
Fresh == CHOOSE i \in DOMAIN text : i \notin Range(path) \cup Range(tmp) \cup Range(fd)

OpensTmp(p, d) ==
    LET i == IF tmp[d] = Nil THEN Fresh ELSE tmp[d] IN
    /\ tmp' = [tmp EXCEPT ![d] = i] /\ fd' = [fd EXCEPT ![p] = i]
    /\ text' = [text EXCEPT ![i] = Nothing]

WriteState(p) ==
    /\ step[p] = "write"
    /\ \/ /\ kv[p] = Nothing
          /\ path' = [path EXCEPT ![DirOf(p)] = Nil]
          /\ Exits(p, 0) /\ UNCHANGED <<tmp, fd, text>>
       \/ /\ kv[p] # Nothing
          /\ OpensTmp(p, DirOf(p)) /\ Goes(p, "flush") /\ UNCHANGED path
    /\ UNCHANGED <<line, cfg, kv, overlap, crashes>>

(* The inode that was opened, whatever name leads to it by now.  The bytes *)
(* of two writers mix; the last to flush stands for that.                  *)
Flush(p) ==
    /\ step[p] = "flush"
    /\ text' = [text EXCEPT ![fd[p]] = kv[p]]
    /\ fd' = [fd EXCEPT ![p] = Nil]
    /\ Goes(p, "rename")
    /\ UNCHANGED <<line, cfg, kv, path, tmp, overlap, crashes>>

RenameState(p) ==
    /\ step[p] = "rename"
    /\ LET d == DirOf(p) IN
       IF tmp[d] = Nil THEN Exits(p, 1) /\ UNCHANGED <<path, tmp>>
       ELSE /\ path' = [path EXCEPT ![d] = tmp[d]] /\ tmp' = [tmp EXCEPT ![d] = Nil]
            /\ Exits(p, 0)
    /\ UNCHANGED <<line, cfg, kv, fd, text, overlap, crashes>>

(* A command is killed: its files stay as they are.                        *)
Crash(p) ==
    /\ Writing(p)
    /\ crashes < Crashes /\ crashes' = crashes + 1
    /\ Exits(p, 9)
    /\ fd' = [fd EXCEPT ![p] = Nil]
    /\ UNCHANGED <<line, cfg, kv, path, tmp, text, overlap>>

Init ==
    /\ \E s \in Scenes : line = s.line /\ text = s.text /\ path = s.path
    /\ tmp = [d \in Dirs |-> Nil] /\ fd = [p \in Cmds |-> Nil]
    /\ step = [p \in Cmds |-> IF line[p] = Nil THEN "done" ELSE "start"]
    /\ cfg = [p \in Cmds |-> BuiltIn] /\ kv = [p \in Cmds |-> Nothing]
    /\ code = [p \in Cmds |-> 0] /\ overlap = FALSE /\ crashes = 0

Next == \E p \in Cmds :
    \/ Load(p) \/ SetKey(p) \/ Unset(p) \/ WriteState(p) \/ Flush(p) \/ RenameState(p) \/ Crash(p)
Spec == Init /\ [][Next]_svars

-----------------------------------------------------------------------------
Loads == {p \in Cmds : line[p] # Nil /\ step[p] \notin {"start"}}
Given(p, k, tag) == IF tag = "env" THEN line[p].env[k]
                    ELSE IF tag = "conf" THEN line[p].conf[k] ELSE BuiltIn.val[k]

(* A state file is always one a command meant to leave, wherever a command *)
(* is killed and whoever loads it meanwhile, and a `set` that succeeded is *)
(* not undone by a command about another key -- as long as no two commands *)
(* write at once, for they share one temporary name and each writes what   *)
(* it read before (cmdSet, writeStateFile).                                *)
OthersLeave(p) == \A q \in Cmds \ {p} :
    line[q] # Nil /\ line[q].kind \in {"set", "unset"} => line[q].key # line[p].key
StateWhole ==
    ~overlap =>
        /\ \A d \in Dirs : path[d] = Nil \/ text[path[d]] # Nothing
        /\ \A p \in Loads :
              line[p].kind = "set" /\ step[p] = "done" /\ code[p] = 0 /\ OthersLeave(p) =>
                  LET now == Entries(DirOf(p)) IN
                  line[p].key \in DOMAIN now /\ now[line[p].key] = line[p].value

(* What `ucache settings` prints is true, and the state file that was used *)
(* is the one of the directory in use: a value comes from the layer named  *)
(* as its source, for every key whose bad values applyKey turns down ("the *)
(* layer below still governs, and `settings` must say so").                *)
SourceGoverns ==
    \A p \in Loads :
        /\ DirOf(p) = StateDir(Layer(BuiltIn, "conf", line[p].conf), line[p].env)
        /\ \A k \in {"dir", "max_read_fraction"} : cfg[p].src[k] # "state" =>
              cfg[p].val[k] = Given(p, k, cfg[p].src[k])
        /\ cfg[p].src["dir"] # "state"
=============================================================================
