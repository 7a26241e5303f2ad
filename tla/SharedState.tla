------------------------------ MODULE SharedState ------------------------------
(***************************************************************************)
(* State that the users of the gateway share and that each session reads,  *)
(* changes and writes back: the registries of environments and models      *)
(* (.envs.json, .registry.json), with the directories they list, and the   *)
(* limits of a QOS.  Building or downloading takes minutes, so a session   *)
(* works on a directory, and on a registry, while others do.               *)
(***************************************************************************)
EXTENDS Naturals, Sequences, FiniteSets

CONSTANTS
    Session,        \* each is another user's
    Env,            \* names under <nfs_root>/envs
    Model,          \* names under models_dir
    Nobody,
    MaxOps,         \* bound on operations
    MaxFaults       \* bound on failing commands and dying sessions

ASSUME SharedStateAssumption ==
    /\ Env \cap Model = {}
    /\ Nobody \notin Session \cup Env \cup Model
    /\ MaxOps \in Nat
    /\ MaxFaults \in Nat

VARIABLES
    content,    \* what each registry holds: the dumps since its last truncation
    creator,    \* who created it, Nobody if it does not exist
    shared,     \* the registries every user may write (make_shared_writable)
    files,      \* the directory of each environment or model
    qos,        \* the components of MaxTRESPerUser, 0 for none
    at,         \* where each session is
    doing,      \* its operation and the name that is about
    mem,        \* the entries it is going to write
    tres,       \* the limits it is going to write
    ops,        \* operations so far
    faults,     \* failures so far
    expected,   \* history: the entries of each registry if its saves had taken
                \* turns
    disturbed,  \* history: registries that two saves used at once, or that a
                \* session left half saved
    torn,       \* history: the ones a session left empty or that two wrote at once
    meddled     \* history: sessions whose directory or limits another session
                \* has changed since they began

fileVars == <<content, creator, shared>>
regVars == <<fileVars, expected, disturbed, torn>>
vars == <<regVars, files, qos, tres, at, doing, mem, ops, faults, meddled>>

-------------------------------------------------------------------------------
Name == Env \cup Model
Registry == {"envs", "models"}
Limit == {"gpu", "shard"}
Building == {"bare", "packages", "prebuilt"}
EnvOps == Building \cup {"venv", "delete"}
ModelOps == {"download", "remove"}
Op == EnvOps \cup ModelOps \cup Limit
Entry == [name : Name, kind : {"conda", "venv", "model"}]
Tres == [Limit -> 0..1]
NoLimits == [l \in Limit |-> 0]
Stages == {"idle", "create", "pip", "smoke", "verify", "fetch", "rmtree",
           "load", "save", "close", "chmod", "read", "write"}

RegistryOf(op) == IF op \in ModelOps THEN "models" ELSE "envs"
KindOf(op) == CASE op = "venv" -> "venv" [] op = "download" -> "model" [] OTHER -> "conda"
Idle == [op |-> "bare", name |-> Nobody]

TypeOK ==
    /\ content \in [Registry -> Seq(SUBSET Entry)]
    /\ creator \in [Registry -> Session \cup {Nobody}]
    /\ shared \subseteq Registry
    /\ files \in [Name -> {"none", "part", "python", "full"}]
    /\ qos \in Tres
    /\ at \in [Session -> Stages]
    /\ doing \in [Session -> [op : Op, name : Name \cup {Nobody}]]
    /\ mem \in [Session -> SUBSET Entry]
    /\ tres \in [Session -> Tres]
    /\ ops \in 0..MaxOps /\ faults \in 0..MaxFaults
    /\ expected \in [Registry -> SUBSET Entry]
    /\ disturbed \cup torn \subseteq Registry
    /\ meddled \subseteq Session

Init ==
    /\ content = [r \in Registry |-> <<>>]
    /\ creator = [r \in Registry |-> Nobody]
    /\ shared = {}
    /\ files = [n \in Name |-> "none"]
    /\ qos = NoLimits
    /\ tres = [s \in Session |-> NoLimits]
    /\ at = [s \in Session |-> "idle"]
    /\ doing = [s \in Session |-> Idle]
    /\ mem = [s \in Session |-> {}]
    /\ ops = 0 /\ faults = 0
    /\ expected = [r \in Registry |-> {}]
    /\ disturbed = {} /\ torn = {} /\ meddled = {}

Fault == faults < MaxFaults /\ faults' = faults + 1
Goes(s, from, to) == at[s] = from /\ at' = [at EXCEPT ![s] = to]
Name_(s) == doing[s].name
Others(s, stages) == {t \in Session \ {s} : at[t] \in stages}
Sets(n, level) == files' = [files EXCEPT ![n] = level]
(* Whoever else is working on the directory of n finds it changed.         *)
Meddles(s, n) ==
    meddled' = meddled \cup {t \in Others(s, Stages \ {"idle"}) : Name_(t) = n}

-------------------------------------------------------------------------------
(* The registries: load, change, save.                                     *)

(* A file that is not one whole dump reads as no entries.                  *)
Readable(r) == Len(content[r]) = 1
\* Mutant: only the venvs are returned.
BadEntries(r) == IF Readable(r) THEN {e \in content[r][1] : e.kind = "venv"} ELSE {}
Entries(r) == IF Readable(r) THEN content[r][1] ELSE {}

Change(entries, d) ==
    {e \in entries : e.name # d.name}
        \cup IF d.op \in {"delete", "remove"} THEN {}
             ELSE {[name |-> d.name, kind |-> KindOf(d.op)]}

Using(s, r, stages) == {t \in Others(s, stages) : RegistryOf(doing[t].op) = r}

(* Read without the lock; remove_model saves nothing if the name is gone.  *)
Load(s) ==
    LET r == RegistryOf(doing[s].op)
        gone == doing[s].op = "remove" /\ \A e \in Entries(r) : e.name # Name_(s)
    IN  /\ Goes(s, "load", IF gone THEN "idle" ELSE "save")
        /\ mem' = [mem EXCEPT ![s] = IF gone THEN {} ELSE Change(Entries(r), doing[s])]
        /\ doing' = IF gone THEN [doing EXCEPT ![s] = Idle] ELSE doing
        /\ disturbed' = IF Using(s, r, {"close"}) # {} THEN disturbed \cup {r} ELSE disturbed
        /\ UNCHANGED <<fileVars, expected, torn, files, qos, tres, ops, faults, meddled>>

(* The section under the lock: the file is truncated, and what is dumped   *)
(* stays in the buffer until the file is closed, after the unlock.  A file *)
(* that another user has created and not yet made writable is refused.     *)
Refused(s, r) == creator[r] \notin {Nobody, s} /\ r \notin shared
Truncated(r) == [content EXCEPT ![r] = <<>>]
Truncate(s) ==
    LET r == RegistryOf(doing[s].op)
    IN  /\ at[s] = "save"
        /\ IF Refused(s, r)
           THEN /\ at' = [at EXCEPT ![s] = "idle"]
                /\ doing' = [doing EXCEPT ![s] = Idle]
                /\ mem' = [mem EXCEPT ![s] = {}]
                /\ UNCHANGED <<content, creator, disturbed, torn>>
           ELSE /\ at' = [at EXCEPT ![s] = "close"]
                /\ content' = Truncated(r)
                /\ creator' = [creator EXCEPT ![r] = IF @ = Nobody THEN s ELSE @]
                /\ disturbed' = IF Using(s, r, {"save", "close"}) # {}
                                THEN disturbed \cup {r} ELSE disturbed
                /\ torn' = IF Using(s, r, {"close"}) # {} THEN torn \cup {r} ELSE torn \ {r}
                /\ UNCHANGED <<doing, mem>>
        /\ UNCHANGED <<shared, expected, files, qos, tres, ops, faults, meddled>>

Close(s) ==
    LET r == RegistryOf(doing[s].op)
    IN  /\ Goes(s, "close", "chmod")
        /\ content' = [content EXCEPT ![r] = Append(@, mem[s])]
        /\ expected' = [expected EXCEPT ![r] = Change(@, doing[s])]
        /\ UNCHANGED <<creator, shared, disturbed, torn, files, qos, tres, doing, mem, ops, faults,
                       meddled>>

(* Only who created it can.                                                *)
MakeWritable(s) ==
    LET r == RegistryOf(doing[s].op)
    IN  /\ Goes(s, "chmod", "idle")
        /\ shared' = IF creator[r] = s THEN shared \cup {r} ELSE shared
        /\ doing' = [doing EXCEPT ![s] = Idle]
        /\ mem' = [mem EXCEPT ![s] = {}]
        /\ UNCHANGED <<content, creator, expected, disturbed, torn, files, qos, tres, ops, faults,
                       meddled>>

-------------------------------------------------------------------------------
(* Environments.                                                           *)

Ends(s) ==
    /\ at' = [at EXCEPT ![s] = "idle"]
    /\ doing' = [doing EXCEPT ![s] = Idle]
    /\ UNCHANGED mem

Begin(s, op, n, stage) ==
    /\ Goes(s, "idle", stage)
    /\ ops < MaxOps /\ ops' = ops + 1
    /\ doing' = [doing EXCEPT ![s] = [op |-> op, name |-> n]]

(* conda starts: it refuses a prefix that exists, or makes it anew.        *)
BeginFiles(s, op, n, stage) ==
    /\ Begin(s, op, n, stage)
    /\ Sets(n, "part") \/ (op = "download" /\ files[n] = "full" /\ UNCHANGED files)
    /\ meddled' = (meddled \ {s})
                      \cup {t \in Others(s, Stages \ {"idle"}) : Name_(t) = n}
    /\ UNCHANGED <<regVars, qos, tres, mem, faults>>

StartBuild(s) == \E op \in {"bare", "packages"}, n \in Env : BeginFiles(s, op, n, "create")
StartPrebuilt(s) == \E n \in Env : BeginFiles(s, "prebuilt", n, "create")

(* A command that fails by itself, or because what it works on is gone.    *)
CondaFails(n) == Fault \/ (files[n] # "part" /\ UNCHANGED faults)
PipFails(n) == Fault \/ (files[n] \notin {"python", "full"} /\ UNCHANGED faults)

(* What conda leaves.  A spec's pip part can be skipped silently, so that  *)
(* `conda env create` exits 0 with no more than python.                    *)
Create(s) ==
    LET n == Name_(s)
    IN  /\ at[s] = "create"
        /\ \/ /\ files[n] = "part" /\ Sets(n, "python") /\ UNCHANGED faults
              /\ Goes(s, "create", IF doing[s].op = "bare" THEN "load" ELSE "pip")
              /\ UNCHANGED doing
           \/ /\ files[n] = "part" /\ doing[s].op = "prebuilt"
              /\ Sets(n, "full") /\ Goes(s, "create", "pip") /\ UNCHANGED <<faults, doing>>
           \/ CondaFails(n) /\ Ends(s) /\ UNCHANGED files
        /\ Meddles(s, n)
        /\ UNCHANGED <<regVars, qos, tres, mem, ops>>

\* Mutant: the exit code of pip is not looked at.
BadPip(s) ==
    LET n == Name_(s)
    IN  /\ at[s] = "pip"
        /\ \/ Sets(n, "full") /\ UNCHANGED faults
           \/ Fault /\ UNCHANGED files
        /\ at' = [at EXCEPT ![s] = "load"] /\ UNCHANGED doing
        /\ Meddles(s, n)
        /\ UNCHANGED <<regVars, qos, tres, mem, ops>>
(* pip works on what is there: it needs the python that conda left.        *)
Pip(s) ==
    LET n == Name_(s)
    IN  /\ at[s] = "pip"
        /\ \/ /\ files[n] \in {"python", "full"} /\ Sets(n, "full")
              /\ Goes(s, "pip", IF doing[s].op = "prebuilt" THEN "verify" ELSE "smoke")
              /\ UNCHANGED <<faults, doing>>
           \/ PipFails(n) /\ Ends(s) /\ UNCHANGED files
        /\ Meddles(s, n)
        /\ UNCHANGED <<regVars, qos, tres, mem, ops>>

(* The check passes, is skipped or times out, or refuses the environment.  *)
(* Requirements come after it, and are not needed to register.             *)
SmokeCheck(s) ==
    /\ at[s] = "smoke"
    /\ \/ Goes(s, "smoke", "load") /\ UNCHANGED <<doing, faults>>
       \/ Fault /\ Ends(s)
    /\ UNCHANGED <<regVars, files, qos, tres, mem, ops, meddled>>

Verify(s) ==
    /\ at[s] = "verify"
    /\ \/ files[Name_(s)] = "full" /\ Goes(s, "verify", "load") /\ UNCHANGED <<doing, faults>>
       \/ files[Name_(s)] # "full" /\ Ends(s) /\ UNCHANGED faults
       \/ Fault /\ Ends(s)
    /\ UNCHANGED <<regVars, files, qos, tres, mem, ops, meddled>>

(* A venv somewhere else, there or not.                                    *)
RegisterVenv(s) == \E n \in Env :
    /\ Begin(s, "venv", n, "load")
    /\ meddled' = meddled \ {s}
    /\ UNCHANGED <<regVars, files, qos, tres, mem, faults>>

(* The manager offers what conda finds and what is registered, by name;    *)
(* what lies elsewhere is refused, what is not there cannot be removed.    *)
Offered == {n \in Env : files[n] # "none"}
               \cup {e.name : e \in {x \in Entries("envs") : x.kind = "conda"}}
StartDelete(s) == \E n \in Offered :
    /\ Begin(s, "delete", n, "rmtree")
    /\ meddled' = meddled \ {s}
    /\ UNCHANGED <<regVars, files, qos, tres, mem, faults>>

Rmtree(s) ==
    LET n == Name_(s)
    IN  /\ at[s] = "rmtree"
        /\ \/ /\ files[n] # "none" /\ Sets(n, "none")
              /\ Goes(s, "rmtree", "load") /\ UNCHANGED <<doing, faults>>
           \/ /\ files[n] = "none" /\ Ends(s) /\ UNCHANGED <<files, faults>>
           \/ /\ Fault /\ Ends(s)
              /\ files[n] # "none" /\ Sets(n, "part")
        /\ Meddles(s, n)
        /\ UNCHANGED <<regVars, qos, tres, mem, ops>>

-------------------------------------------------------------------------------
(* Models: a download writes in place, or leaves alone what it finds       *)
(* complete, and removing keeps the files.                                 *)

StartDownload(s) == \E n \in Model : BeginFiles(s, "download", n, "fetch")

Fetch(s) ==
    /\ at[s] = "fetch"
    /\ \/ Sets(Name_(s), "full") /\ Goes(s, "fetch", "load") /\ UNCHANGED <<doing, faults>>
       \/ Fault /\ Ends(s) /\ UNCHANGED files
    /\ Meddles(s, Name_(s))
    /\ UNCHANGED <<regVars, qos, tres, mem, ops>>

RemoveModel(s) == \E e \in Entries("models") :
    /\ Begin(s, "remove", e.name, "load")
    /\ meddled' = meddled \ {s}
    /\ UNCHANGED <<regVars, files, qos, tres, mem, faults>>

-------------------------------------------------------------------------------
(* set_qos_merge_tres: one component is set or cleared, the whole string   *)
(* is written.                                                             *)

StartQos(s) == \E l \in Limit :
    /\ Begin(s, l, Nobody, "read")
    /\ meddled' = meddled \ {s}
    /\ UNCHANGED <<regVars, files, qos, tres, mem, faults>>

\* Mutant: the string is written with this component alone.
BadMerge(l, value) == [k \in Limit |-> IF k = l THEN value ELSE 0]
Merge(l, value) == [qos EXCEPT ![l] = value]

ReadQos(s) ==
    /\ at[s] = "read"
    /\ \/ /\ Goes(s, "read", "write")
          /\ \E value \in 0..1 : tres' = [tres EXCEPT ![s] = Merge(doing[s].op, value)]
          /\ meddled' = meddled \ {s}
          /\ UNCHANGED <<doing, mem, faults>>
       \/ Fault /\ Ends(s) /\ UNCHANGED <<tres, meddled>>
    /\ UNCHANGED <<regVars, files, qos, ops>>

(* sacctmgr fails, or its answer is late: then the limits are set.         *)
WriteQos(s) ==
    /\ at[s] = "write" /\ Ends(s)
    /\ tres' = [tres EXCEPT ![s] = NoLimits]
    /\ \/ qos' = tres[s] /\ meddled' = meddled \cup Others(s, {"write"}) /\ UNCHANGED faults
       \/ Fault /\ UNCHANGED <<qos, meddled>>
    /\ UNCHANGED <<regVars, files, ops>>

-------------------------------------------------------------------------------
(* The connection is lost: the session dies where it is.                   *)
Die(s) ==
    /\ at[s] # "idle" /\ Fault
    /\ at' = [at EXCEPT ![s] = "idle"]
    /\ doing' = [doing EXCEPT ![s] = Idle]
    /\ mem' = [mem EXCEPT ![s] = {}]
    /\ tres' = [tres EXCEPT ![s] = NoLimits]
    /\ LET left == IF at[s] = "close" THEN {RegistryOf(doing[s].op)} ELSE {}
       IN  disturbed' = disturbed \cup left /\ torn' = torn \cup left
    /\ UNCHANGED <<fileVars, expected, files, qos, ops, meddled>>

Registers(s) == Load(s) \/ Truncate(s) \/ Close(s) \/ MakeWritable(s)
Builds(s) == StartBuild(s) \/ StartPrebuilt(s) \/ Create(s) \/ Pip(s) \/ SmokeCheck(s) \/ Verify(s)
Manages(s) == RegisterVenv(s) \/ StartDelete(s) \/ Rmtree(s)
Downloads(s) == StartDownload(s) \/ Fetch(s) \/ RemoveModel(s)
Limits(s) == StartQos(s) \/ ReadQos(s) \/ WriteQos(s)

Next == \E s \in Session :
    Registers(s) \/ Builds(s) \/ Manages(s) \/ Downloads(s) \/ Limits(s) \/ Die(s)

Spec == Init /\ [][Next]_vars

-------------------------------------------------------------------------------
Saving(r) == {s \in Session : at[s] = "close" /\ RegistryOf(doing[s].op) = r}
Pending(r) == {s \in Session : at[s] \in {"save", "close"} /\ RegistryOf(doing[s].op) = r}
Dumped(r) == creator[r] # Nobody

(* What each session can be about at each of its stages.                   *)
AtStage(s) ==
    /\ at[s] = "create" => doing[s].op \in Building
    /\ at[s] = "pip" => doing[s].op \in {"packages", "prebuilt"}
    /\ at[s] = "smoke" => doing[s].op = "packages"
    /\ at[s] = "verify" => doing[s].op = "prebuilt"
    /\ at[s] = "fetch" => doing[s].op = "download"
    /\ at[s] = "rmtree" => doing[s].op = "delete"
    /\ at[s] \in {"load", "save", "close", "chmod"} => doing[s].op \in EnvOps \cup ModelOps
    /\ at[s] \in {"read", "write"} => doing[s].op \in Limit
    /\ at[s] \notin {"idle", "read", "write"} => Name_(s) \in Name
StageInv == \A s \in Session : AtStage(s)

(* What is registered was verified: a session that is about to list an     *)
(* environment or a model has seen it built or fetched, and its files are  *)
(* still so unless another session works on them (build_env,               *)
(* _run_install_prebuilt and the downloads register last).                 *)
Verified(s) ==
    /\ doing[s].op \in {"packages", "prebuilt", "download"} => files[Name_(s)] = "full"
    /\ doing[s].op = "bare" => files[Name_(s)] = "python"
    /\ doing[s].op = "delete" => files[Name_(s)] = "none"
VerifiedBeforeListed == \A s \in Session :
    at[s] \in {"load", "save", "close"} /\ s \notin meddled => Verified(s)
PipDone == \A s \in Session : at[s] = "smoke" /\ s \notin meddled => Verified(s)

(* A registry holds what was registered and not removed, whatever the      *)
(* operations, as long as no two saves have used it at once and no session *)
(* has left it half saved (the pair _load_ and _save_venv_registry).       *)
SerialRegistry == \A r \in Registry \ disturbed :
    Saving(r) = {} => Entries(r) = expected[r]
(* Until then a save is alone once it has truncated the file, and every    *)
(* session is going to write the change of what it should.                 *)
OneSaves == \A r \in Registry \ disturbed :
    /\ \A s \in Saving(r) : Pending(r) = {s}
    /\ \A s \in Pending(r) : mem[s] = Change(expected[r], doing[s])

(* A registry that nobody is saving is one whole dump, unless a session    *)
(* died before it wrote or two wrote at once after the unlock; one that    *)
(* another save makes whole again is whole (_save_registry).               *)
WholeUnlessTorn == \A r \in Registry :
    Dumped(r) /\ Saving(r) = {} /\ r \notin torn => Readable(r)
EmptyWhileSaved == \A r \in Registry \ torn :
    \A s \in Saving(r) : Saving(r) = {s} /\ content[r] = <<>>

(* What an admin is going to write keeps the limits that are set.          *)
LimitsFresh == \A s \in Session : at[s] = "write" /\ s \notin meddled =>
    \A l \in Limit \ {doing[s].op} : tres[s][l] = qos[l]

(* Setting one limit of a QOS keeps the other, unless another admin wrote  *)
(* between its read and its write (set_qos_merge_tres).                    *)
OtherLimitKept == [][\A s \in Session, l \in Limit :
    at[s] = "write" /\ at'[s] = "idle" /\ s \notin meddled /\ l # doing[s].op
        => qos'[l] = qos[l]]_vars

(* The types and all of it together: every step keeps it.                  *)
IInv ==
    /\ TypeOK /\ StageInv /\ VerifiedBeforeListed /\ PipDone
    /\ torn \subseteq disturbed /\ EmptyWhileSaved /\ WholeUnlessTorn
    /\ OneSaves /\ SerialRegistry /\ LimitsFresh
===============================================================================
