-------------------------------- MODULE Sizing ---------------------------------
(***************************************************************************)
(* How many pods, CPUs and GB a launch asks for (pods.py, launchspec.py,   *)
(* review.py): from a live reading of the node, from a template or an old  *)
(* job script on disk, or from the user's own script, while an admin may   *)
(* split the node into another number of pods.                             *)
(***************************************************************************)
EXTENDS Naturals, FiniteSets, FiniteSetsExt

CONSTANTS
    Session,
    Job,            \* places in the queue: a bound on the jobs at once
    Cpus,           \* CPUTot of the compute node
    MemGb,          \* its RealMemory in GB
    Splits,         \* the numbers of pods the node is ever split into
    MaxMoves,       \* bound on intakes and edits
    DefaultCpus,    \* the sizes of a LaunchSpec that nothing has set
    DefaultMem,
    Preset,         \* built-in templates
    UserScript,     \* .sbatch files that users have written
    MaxShards,      \* the ceilings of validate.py: MAX_GPU_SHARDS,
    MaxCpus,        \* MAX_CPUS
    MaxMem,         \* and MAX_MEM_GB
    Minutes,        \* time limits a user types
    MaxResizes,     \* bound on resizes
    Nothing

Intents == {"notebook", "batch", "shell"}
Envs == {"none", "conda", "venv", "container"}

(* What a launch asks for, where a time of 0 is one that is not set; and   *)
(* what an .sbatch file asks for, the number that validate_sbatch takes    *)
(* for its pods (the one after the last colon of --gres, 0 without one)    *)
(* and the fields that _parse_sbatch finds: it reads the first flag of a   *)
(* line, written --key=value, and a --mem in G.                            *)
LaunchSpec == [intent : Intents, pods : Nat, cpus : Nat, mem : Nat, minutes : Nat, env : Envs]
Fields == {"pods", "cpus", "mem", "minutes", "env"}
Sbatch == [pods : Nat, cpus : Nat, mem : Nat, minutes : Nat, env : Envs,
           checked : Nat, found : SUBSET Fields]
Request == LaunchSpec \cup Sbatch

ASSUME SizingAssumption ==
    /\ {Cpus, MemGb, DefaultCpus, DefaultMem, MaxCpus, MaxMem, MaxResizes} \subseteq Nat
    /\ Splits \subseteq Nat \ {0} /\ {MaxShards, MaxMoves} \subseteq Nat
    /\ Minutes \subseteq Nat /\ IsFiniteSet(Job)
    /\ Preset \subseteq LaunchSpec /\ UserScript \subseteq Sbatch
    /\ Nothing \notin Nat \cup Request

VARIABLES
    pods,       \* gres/shard of the node
    at,         \* where each session is in the wizard
    spec,       \* its LaunchSpec, or the user's own script
    stats,      \* the pods its hub last read, Nothing if it could not
    why,        \* history: what its sizes rest on other than a reading that
                \* still holds
    again,      \* history: the script it runs again unedited, Nothing for none
    active,     \* the jobs in the queue
    clean,      \* history: the jobs sized by the present split
    script,     \* the job.sbatch of the last job of each session
    template,   \* the saved template
    resizes,    \* resizes so far
    moves       \* intakes and edits so far

sizingVars == <<pods, at, spec, stats, why, again, active, clean, script, template, resizes, moves>>

-------------------------------------------------------------------------------
(* pods.py                                                                 *)

Headroom == 2
Usable == IF MemGb > Headroom THEN MemGb - Headroom ELSE 0
AtLeast1(x) == IF x < 1 THEN 1 ELSE x
Known(reading) == reading # Nothing
PodCount(reading) == IF Known(reading) THEN reading ELSE 1

\* Mutant: the shares are rounded up.
BadPodResources(n) ==
    [cpus |-> AtLeast1((Cpus + n - 1) \div n), mem |-> AtLeast1((Usable + n - 1) \div n)]
PodResources(n) == [cpus |-> AtLeast1(Cpus \div n), mem |-> AtLeast1(Usable \div n)]
Clamped(k, n) == IF k < 1 THEN 1 ELSE IF k > n THEN n ELSE k
Fits(n) == Cpus \div n >= 1 /\ Usable \div n >= 1

(* launchspec.py                                                           *)

Sized(ls, k, n) ==
    LET c == Clamped(k, n)
    IN  [ls EXCEPT !.pods = c, !.cpus = PodResources(n).cpus * c,
                   !.mem = PodResources(n).mem * c]
\* Mutant: the CPUs and the memory stay those of one pod.
BadApplyPods(ls, k, reading) ==
    IF Known(reading) THEN [Sized(ls, 1, reading) EXCEPT !.pods = Clamped(k, reading)]
                      ELSE [ls EXCEPT !.pods = AtLeast1(k)]
ApplyPods(ls, k, reading) ==
    IF Known(reading) THEN Sized(ls, k, reading) ELSE [ls EXCEPT !.pods = AtLeast1(k)]

DefaultTime(intent) ==
    CASE intent = "notebook" -> 360 [] intent = "shell" -> 120 [] OTHER -> 240
DefaultSpec(intent, reading) ==
    ApplyPods([intent |-> intent, pods |-> 1, cpus |-> DefaultCpus, mem |-> DefaultMem,
               minutes |-> DefaultTime(intent), env |-> "none"], 1, reading)

Size(x) == <<x.pods, x.cpus, x.mem>>
WithSize(ls, x) == [ls EXCEPT !.pods = x.pods, !.cpus = x.cpus, !.mem = x.mem]
WithTime(ls, x) == IF x.minutes = 0 THEN ls ELSE [ls EXCEPT !.minutes = x.minutes]
FromTemplate(t, reading) ==
    [WithTime(WithSize(DefaultSpec(t.intent, reading), t), t) EXCEPT !.env = t.env]

(* render_sbatch, which writes a pod or a time only if there is one, and   *)
(* _parse_sbatch, which has no rule for a venv.                            *)
NotFound(ls) ==
    {f \in Fields : \/ f = "pods" /\ ls.pods = 0
                    \/ f = "minutes" /\ ls.minutes = 0
                    \/ f = "env" /\ ls.env = "venv"}
Rendered(ls) ==
    [pods |-> ls.pods, cpus |-> ls.cpus, mem |-> ls.mem, minutes |-> ls.minutes,
     env |-> ls.env, checked |-> ls.pods, found |-> Fields \ NotFound(ls)]

(* What is not found is as in a fresh batch job (from_rerun).              *)
\* Mutant: the sizes are computed anew from the pods.
BadFromRerun(text, reading) ==
    LET ls == DefaultSpec("batch", reading)
        Read(f) == IF f \in text.found THEN text[f] ELSE ls[f]
    IN  [ApplyPods(ls, Read("pods"), reading) EXCEPT !.minutes = Read("minutes"), !.env = Read("env")]
FromRerun(text, reading) ==
    LET ls == DefaultSpec("batch", reading)
        Read(f) == IF f \in text.found THEN text[f] ELSE ls[f]
    IN  [intent |-> "batch", pods |-> Read("pods"), cpus |-> Read("cpus"), mem |-> Read("mem"),
         minutes |-> Read("minutes"), env |-> Read("env")]

-------------------------------------------------------------------------------
Stages == {"idle", "hub", "choose", "submit", "own"}
Reasons == {"blind", "stored", "resized", "own", "unchecked", "time"}

SizingTypeOK ==
    /\ pods \in Splits
    /\ at \in [Session -> Stages]
    /\ spec \in [Session -> Request \cup {Nothing}]
    /\ active \in [Job -> Request \cup {Nothing}]
    /\ again \in [Session -> Sbatch \cup {Nothing}]
    /\ script \in [Session -> Sbatch \cup {Nothing}]
    /\ template \in LaunchSpec \cup {Nothing}
    /\ stats \in [Session -> Splits \cup {Nothing}]
    /\ why \in [Session -> SUBSET Reasons]
    /\ clean \subseteq Job
    /\ resizes \in 0..MaxResizes /\ moves \in 0..MaxMoves

SizingInit ==
    /\ pods \in Splits
    /\ at = [s \in Session |-> "idle"]
    /\ spec = [s \in Session |-> Nothing] /\ stats = spec /\ again = spec
    /\ script = spec /\ active = [j \in Job |-> Nothing]
    /\ why = [s \in Session |-> {}]
    /\ clean = {} /\ template = Nothing /\ resizes = 0 /\ moves = 0

Readings == {pods, Nothing}
Moves == moves < MaxMoves /\ moves' = moves + 1
Goes(s, from, to) == at[s] = from /\ at' = [at EXCEPT ![s] = to]
Blind(reading) == IF Known(reading) THEN {} ELSE {"blind"}

-------------------------------------------------------------------------------
(* run_wizard's intake.                                                    *)

Starts(s, ls, reasons) ==
    /\ Goes(s, "idle", "hub")
    /\ spec' = [spec EXCEPT ![s] = ls]
    /\ why' = [why EXCEPT ![s] = reasons]
    /\ Moves
    /\ UNCHANGED <<pods, stats, active, clean, script, template, resizes>>

Fresh(s) == \E intent \in Intents, reading \in Readings :
    /\ Starts(s, DefaultSpec(intent, reading), Blind(reading))
    /\ UNCHANGED again

FineTune(s) == \E reading \in Readings :
    /\ LET ls == ApplyPods(DefaultSpec("batch", reading), PodCount(reading), reading)
       IN  Starts(s, [ls EXCEPT !.minutes = 480], Blind(reading))
    /\ UNCHANGED again

LoadTemplate(s) == \E t \in Preset \cup ({template} \ {Nothing}), reading \in Readings :
    /\ Starts(s, FromTemplate(t, reading), {"stored"} \cup IF t.minutes = 0 THEN {} ELSE {"time"})
    /\ UNCHANGED again

Rerun(s) == \E reading \in Readings :
    /\ script[s] # Nothing
    /\ Starts(s, FromRerun(script[s], reading), {"stored", "time"})
    /\ again' = [again EXCEPT ![s] = script[s]]

(* "Submit my own .sbatch": validate_sbatch's ceilings, and no hub.        *)
Ceiling(reading) == IF Known(reading) THEN reading ELSE MaxShards
\* Mutant: the ceiling is that of whole GPUs.
BadValid(x, reading) == x.checked <= MaxShards /\ x.cpus <= MaxCpus /\ x.mem <= MaxMem
Valid(x, reading) == x.checked <= Ceiling(reading) /\ x.cpus <= MaxCpus /\ x.mem <= MaxMem
OwnScript(s) == \E x \in UserScript, reading \in Readings :
    /\ Goes(s, "idle", "own")
    /\ Valid(x, reading)
    /\ spec' = [spec EXCEPT ![s] = x]
    /\ why' = [why EXCEPT ![s] = {"own", "time"} \cup Blind(reading)
                  \cup IF x.checked = x.pods THEN {} ELSE {"unchecked"}]
    /\ Moves
    /\ UNCHANGED <<pods, stats, again, active, clean, script, template, resizes>>

-------------------------------------------------------------------------------
(* run_hub reads the node before each choice.                              *)

ReadNode(s) ==
    /\ Goes(s, "hub", "choose")
    /\ \E reading \in Readings : stats' = [stats EXCEPT ![s] = reading]
    /\ UNCHANGED <<pods, spec, why, again, active, clean, script, template, resizes, moves>>

Edits(s, ls, reasons) ==
    /\ Goes(s, "choose", "hub")
    /\ spec' = [spec EXCEPT ![s] = ls]
    /\ why' = [why EXCEPT ![s] = reasons]
    /\ again' = [again EXCEPT ![s] = Nothing]
    /\ Moves
    /\ UNCHANGED <<pods, stats, active, clean, script, template, resizes>>

(* Without a reading no size is offered; with an old one, an old size.     *)
EditPods(s) ==
    /\ at[s] = "choose" /\ Known(stats[s])
    /\ \E k \in 1..PodCount(stats[s]) :
          Edits(s, ApplyPods(spec[s], k, stats[s]),
                (why[s] \cap {"time"}) \cup IF stats[s] = pods THEN {} ELSE {"resized"})

WallMinutes == 480
\* Mutant: the hours are capped, not the total.
BadTimeAllowed(t) == t > 0 /\ t \div 60 <= 8
TimeAllowed(t) == t > 0 /\ t <= WallMinutes
EditTime(s) == \E t \in Minutes :
    /\ at[s] = "choose" /\ TimeAllowed(t)
    /\ Edits(s, [spec[s] EXCEPT !.minutes = t], why[s] \ {"time"})

EditEnv(s) == \E env \in Envs :
    /\ at[s] = "choose" /\ spec[s].intent # "shell"
    /\ Edits(s, [spec[s] EXCEPT !.env = env], why[s])

(* A template keeps what a JobSpec has.                                    *)
SaveTemplate(s) ==
    /\ Goes(s, "choose", "hub")
    /\ template' = spec[s]
    /\ Moves
    /\ UNCHANGED <<pods, spec, stats, why, again, active, clean, script, resizes>>

Launch(s) ==
    /\ Goes(s, "choose", "submit")
    /\ UNCHANGED <<pods, spec, stats, why, again, active, clean, script, template, resizes, moves>>

Leaves(s) ==
    /\ at' = [at EXCEPT ![s] = "idle"]
    /\ spec' = [spec EXCEPT ![s] = Nothing]
    /\ stats' = [stats EXCEPT ![s] = Nothing]
    /\ why' = [why EXCEPT ![s] = {}]
    /\ again' = [again EXCEPT ![s] = Nothing]

Cancel(s) ==
    /\ at[s] \in {"choose", "submit", "own"} /\ Leaves(s)
    /\ UNCHANGED <<pods, active, clean, script, template, resizes, moves>>

-------------------------------------------------------------------------------
(* SLURM: what exceeds the node or the wall time of the QOS is refused.    *)

Possible(x) ==
    /\ x.pods <= pods /\ x.cpus <= Cpus /\ x.mem <= MemGb
    /\ x.minutes <= WallMinutes
Enters(x, j) == active[j] = Nothing /\ active' = [active EXCEPT ![j] = x]
Submit(s) ==
    /\ at[s] = "submit" /\ Leaves(s)
    /\ \/ \E j \in Job :
             /\ Possible(spec[s]) /\ Enters(spec[s], j)
             /\ clean' = IF why[s] \subseteq {"time"} THEN clean \cup {j} ELSE clean
             /\ script' = IF spec[s].intent = "shell" THEN script
                          ELSE [script EXCEPT ![s] = Rendered(spec[s])]
       \/ ~Possible(spec[s]) /\ UNCHANGED <<active, clean, script>>
    /\ UNCHANGED <<pods, template, resizes, moves>>

(* _run_own_sbatch writes the text as it is.                               *)
SubmitOwn(s) ==
    /\ at[s] = "own" /\ Leaves(s)
    /\ \/ \E j \in Job : Possible(spec[s]) /\ Enters(spec[s], j)
             /\ script' = [script EXCEPT ![s] = spec[s]]
       \/ ~Possible(spec[s]) /\ UNCHANGED <<active, script>>
    /\ UNCHANGED <<pods, clean, template, resizes, moves>>

JobEnds(j) ==
    /\ active[j] # Nothing
    /\ active' = [active EXCEPT ![j] = Nothing]
    /\ clean' = clean \ {j}
    /\ UNCHANGED <<pods, at, spec, stats, why, again, script, template, resizes, moves>>

(* resize_pod_count, with the queue empty from its check to its end        *)
(* (module Resize says what happens when it is not).                       *)
ResizePods == \E n \in Splits :
    /\ \A j \in Job : active[j] = Nothing
    /\ Fits(n) /\ n # pods
    /\ resizes < MaxResizes /\ resizes' = resizes + 1
    /\ pods' = n
    /\ why' = [s \in Session |-> IF at[s] = "idle" THEN {} ELSE why[s] \cup {"resized"}]
    /\ UNCHANGED <<at, spec, stats, again, active, clean, script, template, moves>>

Intake(s) == Fresh(s) \/ FineTune(s) \/ LoadTemplate(s) \/ Rerun(s) \/ OwnScript(s)
Hub(s) ==
    \/ ReadNode(s) \/ EditPods(s) \/ EditTime(s) \/ EditEnv(s)
    \/ SaveTemplate(s) \/ Launch(s) \/ Cancel(s)

SizingNext ==
    \/ \E s \in Session : Intake(s) \/ Hub(s) \/ Submit(s) \/ SubmitOwn(s)
    \/ \E j \in Job : JobEnds(j)
    \/ ResizePods

SizingSpec == SizingInit /\ [][SizingNext]_sizingVars

-------------------------------------------------------------------------------
(* A launch whose sizes come from a reading that still holds asks for      *)
(* exactly the CPUs and the memory of its pods, after any edits            *)
(* (apply_pods), and so does the job it becomes.                           *)
SizedFor(x, n) == Size(x) = Size(Sized(x, x.pods, n))
SizedByPods == \A s \in Session :
    at[s] # "idle" /\ why[s] \subseteq {"time"} => SizedFor(spec[s], pods)
CleanBySplit == \A j \in clean : active[j] \in LaunchSpec /\ SizedFor(active[j], pods)

(* Only sizes that are "own" and "unchecked", or "stored", "blind" or      *)
(* "resized", exceed the pods, only a time that was not typed into the hub *)
(* exceeds the QOS.                                                        *)
PodsAreThere == \A s \in Session :
    at[s] # "idle" /\ why[s] \subseteq {"own", "time"} => spec[s].pods <= pods
TimeIsAllowed == \A s \in Session :
    at[s] # "idle" /\ "time" \notin why[s] => spec[s].minutes <= WallMinutes

(* A session in the wizard has a specification, and one that submits its   *)
(* own script a script.                                                    *)
InWizard == \A s \in Session :
    /\ at[s] = "idle" => again[s] = Nothing
    /\ at[s] \in {"hub", "choose", "submit"} => spec[s] \in LaunchSpec
    /\ at[s] = "own" => spec[s] \in Sbatch /\ "own" \in why[s]

(* What is submitted can run: no more pods than the node has unless they   *)
(* were stored, or chosen or checked without a valid reading, or are those *)
(* of an own script whose number validate_sbatch does not see; no more     *)
(* CPUs and memory either if the sizes are those of a reading and its      *)
(* split fits the node; and no longer than the QOS allows unless the time  *)
(* was stored or the user's own (_edit_pods, _edit_time, validate_sbatch). *)
LaunchFits == \A s \in Session : at[s] \in {"submit", "own"} =>
    /\ why[s] \subseteq {"own", "time"} => spec[s].pods <= pods
    /\ why[s] \subseteq {"time"} /\ Fits(pods) => spec[s].cpus <= Cpus /\ spec[s].mem <= Usable
    /\ "time" \notin why[s] => spec[s].minutes <= WallMinutes

(* Jobs sized by the present split whose pods fit the node together fit it *)
(* in CPUs and memory too, with the headroom left: a pod that the hub      *)
(* calls free can be used (pod_resources, fits_new_pod_count).             *)
Total(jobs, field, js) == MapThenSumSet(LAMBDA j : jobs[j][field], js)
PodsAreEnough == Fits(pods) => \A js \in SUBSET clean :
    Total(active, "pods", js) <= pods =>
        Total(active, "cpus", js) <= Cpus /\ Total(active, "mem", js) <= Usable

(* A job that is run again unedited asks for all that is found in its      *)
(* script (from_rerun), also when the node has been split anew: all it     *)
(* asked for but no pods, no time or a venv if the wizard wrote it, and    *)
(* what _parse_sbatch has a rule for if a user did.                        *)
Repeats(x, text) == \A f \in text.found : x[f] = text[f]
RerunRepeats == \A s \in Session :
    at[s] # "idle" /\ again[s] # Nothing => Repeats(spec[s], again[s])

(* The types and what each step keeps of the sizes, the time and the jobs. *)
SizingInv ==
    /\ SizingTypeOK /\ InWizard
    /\ SizedByPods /\ CleanBySplit /\ PodsAreThere /\ TimeIsAllowed
===============================================================================
