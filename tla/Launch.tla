--------------------------------- MODULE Launch ---------------------------------
(***************************************************************************)
(* Launching a job from the wizard (slurmdeck/wizard.py, notebooks.py):    *)
(* the job folder is made, the user reviews the script, the script is      *)
(* written into the folder, the audit log is asked, and sbatch is run.     *)
(* What becomes of the folder when one of these goes wrong depends on the  *)
(* kind of job.                                                            *)
(*                                                                         *)
(* The audit log enters as its promise, AuditTrail: a launch is the event  *)
(* that log_or_block() is called with.  sbatch is killed after 30 s, when  *)
(* its request may be on the way to slurmctld.  A folder is named for the  *)
(* user, the job name and the second.                                      *)
(***************************************************************************)
EXTENDS Integers, FiniteSets

CONSTANTS
    Launch,     \* runs of the wizard up to a submission
    NoLaunch,   \* no script
    SlotOf,     \* the user and job name of each
    MaxClock,   \* bound on clock
    MaxLost     \* bound on lost

ASSUME LaunchAssumption ==
    /\ NoLaunch \notin Launch
    /\ MaxClock \in Nat
    /\ MaxLost \in Nat

VARIABLES
    clock,      \* seconds
    stage,      \* how far each launch has got
    kind,       \* the kind of job the user has picked
    made,       \* the second its folder was made in
    folders,    \* the folders that exist
    script,     \* the launch whose text is in job.sbatch of each folder
    asked,      \* AuditTrail: the launches log_or_block() was called for
    answer,     \* AuditTrail: what it answered
    trail,      \* AuditTrail: the launches that are in the audit log
    rpc,        \* the request of each launch to slurmctld
    job,        \* its job
    runs,       \* the launch whose script its job runs
    lost        \* sbatch processes that were killed at 30 s

auditVars == <<asked, answer, trail>>
slurmVars == <<rpc, job, runs>>
vars == <<clock, stage, kind, made, folders, script, asked, answer, trail,
          rpc, job, runs, lost>>

Trail == INSTANCE AuditTrail WITH Event <- Launch

-------------------------------------------------------------------------------
Kinds == {"notebook", "batch", "own", "tensorboard"}

InProgress == {"review", "gate", "asked", "submit", "sbatch", "failing"}

(* "discarded": the user declined; "blocked": log_or_block() said no;      *)
(* "submitted", "failed": what submit_job() returned; "crashed": an        *)
(* exception ended the wizard; "killed": the session died.                 *)
Returned == {"discarded", "blocked", "submitted", "failed", "crashed", "killed"}

Slots == {SlotOf[l] : l \in Launch}
Folder == Slots \X (0..MaxClock)
FolderOf(l) == <<SlotOf[l], made[l]>>

TypeOK ==
    /\ clock \in 0..MaxClock
    /\ stage \in [Launch -> {"new"} \cup InProgress \cup Returned]
    /\ kind \in [Launch -> Kinds]
    /\ made \in [Launch -> 0..MaxClock]
    /\ folders \subseteq Folder
    /\ script \in [Folder -> Launch \cup {NoLaunch}]
    /\ Trail!TrailTypeOK
    /\ rpc \in [Launch -> {"none", "sent", "accepted", "rejected"}]
    /\ job \in [Launch -> {"none", "pending", "running", "over"}]
    /\ runs \in [Launch -> Launch \cup {NoLaunch}]
    /\ \A l \in Launch : rpc[l] # "none" => runs[l] # NoLaunch
    /\ lost \in 0..MaxLost

Init ==
    /\ clock = 0
    /\ stage = [l \in Launch |-> "new"]
    /\ kind = [l \in Launch |-> "notebook"]
    /\ made = [l \in Launch |-> 0]
    /\ folders = {}
    /\ script = [f \in Folder |-> NoLaunch]
    /\ Trail!TrailInit
    /\ rpc = [l \in Launch |-> "none"]
    /\ job = [l \in Launch |-> "none"]
    /\ runs = [l \in Launch |-> NoLaunch]
    /\ lost = 0

-------------------------------------------------------------------------------
Step(l, from, to) == stage[l] = from /\ stage' = [stage EXCEPT ![l] = to]

(* shutil.rmtree(folder, ignore_errors=True).                              *)
RemoveFolder(l) ==
    /\ folders' = folders \ {FolderOf(l)}
    /\ script' = [script EXCEPT ![FolderOf(l)] = NoLaunch]

KeepFolder == UNCHANGED <<folders, script>>

(* make_job_folder: exist_ok, so a folder of the same second is shared.    *)
MakeFolder(l) ==
    /\ Step(l, "new", "review")
    /\ \E k \in Kinds : kind' = [kind EXCEPT ![l] = k]
    /\ made' = [made EXCEPT ![l] = clock]
    /\ folders' = folders \cup {<<SlotOf[l], clock>>}
    /\ UNCHANGED <<clock, script, auditVars, slurmVars, lost>>

\* Mutant: the folder of a declined launch is left.
BadDecline(l) ==
    /\ kind[l] # "tensorboard"
    /\ Step(l, "review", "discarded")
    /\ KeepFolder
    /\ UNCHANGED <<clock, kind, made, auditVars, slurmVars, lost>>

(* The confirm is answered with no, or no own script is picked.            *)
Decline(l) ==
    /\ kind[l] # "tensorboard"
    /\ Step(l, "review", "discarded")
    /\ RemoveFolder(l)
    /\ UNCHANGED <<clock, kind, made, auditVars, slurmVars, lost>>

(* job.sbatch is written, or write_text raises: the folder is gone.        *)
WriteScript(l) ==
    /\ \/ /\ FolderOf(l) \in folders
          /\ Step(l, "review", "gate")
          /\ script' = [script EXCEPT ![FolderOf(l)] = l]
       \/ /\ FolderOf(l) \notin folders
          /\ Step(l, "review", "crashed")
          /\ UNCHANGED script
    /\ UNCHANGED <<clock, kind, made, folders, auditVars, slurmVars, lost>>

(* log_or_block() is called; the daemon records the event when it will.    *)
AskAudit(l) ==
    /\ Step(l, "gate", "asked")
    /\ Trail!Ask(l)
    /\ UNCHANGED <<clock, kind, made, folders, script, slurmVars, lost>>

Record(l) ==
    /\ Trail!Record(l)
    /\ UNCHANGED <<clock, stage, kind, made, folders, script, slurmVars, lost>>

(* The daemon refuses no action but "job_submit".                          *)
Answer(l) ==
    /\ \E a \in {"recorded", "open"} \cup
                (IF kind[l] \in {"batch", "own"} THEN {"refused"} ELSE {}) :
          Trail!Answer(l, a)
    /\ UNCHANGED <<clock, stage, kind, made, folders, script, slurmVars, lost>>

\* Mutant: the result of log_or_block() is ignored, as that of log() is.
BadGate(l) ==
    /\ answer[l] # "none"
    /\ Step(l, "asked", "submit")
    /\ KeepFolder
    /\ UNCHANGED <<clock, kind, made, auditVars, slurmVars, lost>>

(* It returns.  Refused: only the folder of an own script is removed.      *)
Gate(l) ==
    /\ \/ /\ answer[l] \in {"recorded", "open"}
          /\ Step(l, "asked", "submit")
          /\ KeepFolder
       \/ /\ answer[l] = "refused"
          /\ Step(l, "asked", "blocked")
          /\ IF kind[l] = "own" THEN RemoveFolder(l) ELSE KeepFolder
    /\ UNCHANGED <<clock, kind, made, auditVars, slurmVars, lost>>

\* Mutant: the file is not looked for.
BadSbatch(l) ==
    /\ Step(l, "submit", "sbatch")
    /\ rpc' = [rpc EXCEPT ![l] = "sent"]
    /\ runs' = [runs EXCEPT ![l] = script[FolderOf(l)]]
    /\ UNCHANGED <<clock, kind, made, folders, script, auditVars, job, lost>>

(* submit_job: sbatch reads the file and sends its text; without the file  *)
(* it fails.                                                               *)
Sbatch(l) ==
    /\ \/ /\ script[FolderOf(l)] # NoLaunch
          /\ Step(l, "submit", "sbatch")
          /\ rpc' = [rpc EXCEPT ![l] = "sent"]
          /\ runs' = [runs EXCEPT ![l] = script[FolderOf(l)]]
       \/ /\ script[FolderOf(l)] = NoLaunch
          /\ Step(l, "submit", "failing")
          /\ UNCHANGED <<rpc, runs>>
    /\ UNCHANGED <<clock, kind, made, folders, script, auditVars, job, lost>>

\* Mutant: the return code of sbatch is not looked at.
BadReport(l) ==
    /\ rpc[l] \in {"accepted", "rejected"}
    /\ Step(l, "sbatch", "submitted")
    /\ UNCHANGED <<clock, kind, made, folders, script, auditVars, slurmVars, lost>>

(* sbatch ends with slurmctld's answer.                                    *)
Report(l) ==
    /\ \/ rpc[l] = "accepted" /\ Step(l, "sbatch", "submitted")
       \/ rpc[l] = "rejected" /\ Step(l, "sbatch", "failing")
    /\ UNCHANGED <<clock, kind, made, folders, script, auditVars, slurmVars, lost>>

(* TimeoutExpired: sbatch is killed, whatever has become of its request.   *)
TimeOut(l) ==
    /\ lost < MaxLost
    /\ lost' = lost + 1
    /\ Step(l, "sbatch", "failing")
    /\ UNCHANGED <<clock, kind, made, folders, script, auditVars, slurmVars>>

\* Mutant: the folder is removed whatever the kind of the job.
BadCleanUp(l) ==
    /\ Step(l, "failing", "failed")
    /\ RemoveFolder(l)
    /\ UNCHANGED <<clock, kind, made, auditVars, slurmVars, lost>>

(* The failure is reported and logged; a notebook's folder is removed.     *)
CleanUp(l) ==
    /\ Step(l, "failing", "failed")
    /\ IF kind[l] = "notebook" THEN RemoveFolder(l) ELSE KeepFolder
    /\ UNCHANGED <<clock, kind, made, auditVars, slurmVars, lost>>

Kill(l) ==
    /\ stage[l] \in InProgress
    /\ stage' = [stage EXCEPT ![l] = "killed"]
    /\ UNCHANGED <<clock, kind, made, folders, script, auditVars, slurmVars, lost>>

-------------------------------------------------------------------------------
(* SLURM: slurmctld answers a request, also one whose sbatch is gone; a    *)
(* job whose output file cannot be opened fails at once.                   *)
Accept(l) ==
    /\ rpc[l] = "sent"
    /\ rpc' = [rpc EXCEPT ![l] = "accepted"]
    /\ job' = [job EXCEPT ![l] = "pending"]
    /\ UNCHANGED <<clock, stage, kind, made, folders, script, auditVars, runs, lost>>

Reject(l) ==
    /\ rpc[l] = "sent"
    /\ rpc' = [rpc EXCEPT ![l] = "rejected"]
    /\ UNCHANGED <<clock, stage, kind, made, folders, script, auditVars, job, runs, lost>>

StartJob(l) ==
    /\ job[l] = "pending"
    /\ job' = [job EXCEPT ![l] = IF FolderOf(l) \in folders THEN "running" ELSE "over"]
    /\ UNCHANGED <<clock, stage, kind, made, folders, script, auditVars, rpc, runs, lost>>

EndJob(l) ==
    /\ job[l] \in {"pending", "running"}
    /\ job' = [job EXCEPT ![l] = "over"]
    /\ UNCHANGED <<clock, stage, kind, made, folders, script, auditVars, rpc, runs, lost>>

(* scontrol requeue, from the job menu or after a failure of the node.     *)
RequeueJob(l) ==
    /\ job[l] = "running"
    /\ job' = [job EXCEPT ![l] = "pending"]
    /\ UNCHANGED <<clock, stage, kind, made, folders, script, auditVars, rpc, runs, lost>>

Tick ==
    /\ clock < MaxClock
    /\ clock' = clock + 1
    /\ UNCHANGED <<stage, kind, made, folders, script, auditVars, slurmVars, lost>>

-------------------------------------------------------------------------------
Wizard(l) ==
    \/ MakeFolder(l)
    \/ Decline(l)
    \/ WriteScript(l)
    \/ AskAudit(l)
    \/ Gate(l)
    \/ Sbatch(l)
    \/ Report(l)
    \/ TimeOut(l)
    \/ CleanUp(l)
    \/ Kill(l)

Daemon(l) == Record(l) \/ Answer(l)

Slurm(l) == Accept(l) \/ Reject(l) \/ StartJob(l) \/ EndJob(l) \/ RequeueJob(l)

Next ==
    \/ \E l \in Launch : Wizard(l) \/ Daemon(l) \/ Slurm(l)
    \/ Tick

Spec == Init /\ [][Next]_vars

-------------------------------------------------------------------------------
(* Properties.                                                             *)

(* Two launches of one user with one job name in one second.               *)
Twin(l, m) == l # m /\ stage[m] # "new" /\ FolderOf(l) = FolderOf(m)
HasTwin(l) == \E m \in Launch : Twin(l, m)

(* Safety policy of the gate: there is a job, or a request for one that    *)
(* may still be accepted, only for a launch that the audit log was asked   *)
(* about and did not refuse; if the log said that it has the event, it has.*)
NoJobUnasked ==
    \A l \in Launch :
        rpc[l] # "none" =>
            /\ l \in asked
            /\ answer[l] \in {"recorded", "open"}
            /\ answer[l] = "recorded" => l \in trail

(* Reported as failed, with a request that slurmctld may accept.           *)
Unanswered == {l \in Launch : /\ stage[l] \in {"failing", "failed"}
                              /\ rpc[l] \in {"sent", "accepted"}}

(* What the user was told is true: "submitted" of a job there was, and     *)
(* "discarded", "blocked" or a crash of one there never will be.  Jobs of  *)
(* launches that were reported as failed are no more than the killed       *)
(* sbatch processes.                                                       *)
ToldIsTrue ==
    /\ \A l \in Launch :
          /\ stage[l] = "submitted" => job[l] # "none"
          /\ stage[l] \in {"discarded", "blocked", "crashed"} => rpc[l] = "none"
    /\ Cardinality(Unanswered) <= lost

(* The script the user reviewed is the one that runs, and the folder it    *)
(* runs in is there for as long as the job is, unless another launch of    *)
(* the same second has the same folder or a notebook's sbatch was killed.  *)
JobKeepsFolder ==
    \A l \in Launch :
        job[l] \in {"pending", "running"} /\ ~HasTwin(l) =>
            /\ runs[l] = l
            /\ FolderOf(l) \in folders
                 \/ (kind[l] = "notebook" /\ stage[l] = "failed" /\ lost > 0)

(* A launch that was declined, a failed notebook and an own script that    *)
(* was blocked leave no folder, which the dashboard would list as a job.   *)
NothingLeft ==
    \A l \in Launch :
        /\ \/ stage[l] = "discarded"
           \/ stage[l] = "failed" /\ kind[l] = "notebook"
           \/ stage[l] = "blocked" /\ kind[l] = "own"
        /\ ~HasTwin(l)
        => FolderOf(l) \notin folders

(* wizard.py:929, of a notebook whose submission failed: "Nothing ran and  *)
(* nothing ever will, so nothing will write here."  It does not hold (the  *)
(* README here says more), and no run checks it.                           *)
NothingEverWill ==
    \A l \in Launch :
        stage[l] = "failed" /\ kind[l] = "notebook" => job[l] \in {"none", "over"}

(* What makes the properties inductive.                                    *)

(* The audit log is asked once, and its yes is true.                       *)
AnswerInv(l) ==
    /\ l \notin asked => answer[l] = "none"
    /\ answer[l] = "recorded" => l \in trail
    /\ stage[l] \in {"new", "review", "gate", "discarded", "crashed"} => l \notin asked
    /\ stage[l] \in {"asked", "submit"} => l \in asked
    /\ stage[l] = "submit" => answer[l] \in {"recorded", "open"}

(* A request is made after the gate and has the job that was accepted.     *)
RequestInv(l) ==
    /\ stage[l] \in {"new", "review", "gate", "asked", "submit", "discarded",
                      "blocked", "crashed"} => rpc[l] = "none"
    /\ stage[l] = "sbatch" => rpc[l] # "none"
    /\ stage[l] = "submitted" => rpc[l] = "accepted"
    /\ rpc[l] = "accepted" <=> job[l] # "none"

(* A folder that is not shared has its script and goes with its launch.    *)
Leaves(l) ==
    \/ stage[l] \in {"discarded", "crashed"}
    \/ stage[l] = "failed" /\ kind[l] = "notebook"
    \/ stage[l] = "blocked" /\ kind[l] = "own"

FolderInv(l) ==
    stage[l] # "new" /\ ~HasTwin(l) =>
        /\ Leaves(l) <=> FolderOf(l) \notin folders
        /\ stage[l] \in {"gate", "asked", "submit", "sbatch"} => script[FolderOf(l)] = l
        /\ rpc[l] # "none" => runs[l] = l

LostInv == IsFiniteSet(Unanswered) /\ Cardinality(Unanswered) <= lost

IInv ==
    /\ TypeOK
    /\ NoJobUnasked
    /\ \A l \in Launch : AnswerInv(l) /\ RequestInv(l) /\ FolderInv(l)
    /\ LostInv
===============================================================================
