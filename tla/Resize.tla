-------------------------------- MODULE Resize --------------------------------
(***************************************************************************)
(* Changing the number of GPU pods: an admin's panel checks that no job is *)
(* active and runs deploy/resize-pods.sh, which rewrites gres.conf and     *)
(* slurm.conf on the login node, restarts slurmctld, copies both files to  *)
(* the GPU host, restarts slurmd, resumes the node and verifies what the   *)
(* GPU host reports; when the GPU host fails, it puts the old files back.  *)
(*                                                                         *)
(* The script runs under `set -e', so a command that fails on the login    *)
(* node ends it there.  The steps are its commands: a failure, a kill or a *)
(* job submission can fall between any two of them.                        *)
(***************************************************************************)
EXTENDS Integers

CONSTANTS
    Admin,          \* admin panels that may run the script
    NoAdmin,        \* nobody holds the lock
    MaxPods,        \* the largest pod count that fits_new_pod_count accepts
    InitialPods,    \* the pod count the cluster starts with
    MaxJobs,        \* bound on jobs
    MaxFaults,      \* bound on faults
    MaxKills        \* bound on kills

Count == 1..MaxPods

ASSUME ResizeAssumption ==
    /\ NoAdmin \notin Admin
    /\ MaxPods \in Nat
    /\ InitialPods \in Count
    /\ MaxJobs \in Nat
    /\ MaxFaults \in Nat
    /\ MaxKills \in Nat

VARIABLES
    login,      \* pod count in gres.conf and slurm.conf of the login node
    gpu,        \* pod count in gres.conf and slurm.conf of the GPU host
    ctld,       \* pod count the running slurmctld has read, 0 if it is down
    slurmd,     \* pod count the running slurmd has read, 0 if it is down
    node,       \* state of the compute node in slurmctld
    jobs,       \* active jobs
    lock,       \* holder of the flock on LOCK_FILE
    pc,         \* next command of the script each panel runs
    target,     \* NEW_N of that script
    backup,     \* its backup files
    rbFailed,   \* its rb_rc is not 0
    gpuFailed,  \* history: a command on the GPU host failed in its main path
    halfway,    \* history: a script ended halfway, and none succeeded since
    faults,     \* commands that failed
    kills       \* scripts that were killed

confVars == <<login, gpu>>
daemonVars == <<ctld, slurmd, node>>
scriptVars == <<target, backup, rbFailed, gpuFailed>>
bounds == <<faults, kills>>
vars == <<login, gpu, ctld, slurmd, node, jobs, lock, pc, target, backup,
          rbFailed, gpuFailed, halfway, faults, kills>>

-------------------------------------------------------------------------------
Conf == [gres : Count, slurm : Count]

Main == {"check", "backup", "gres", "slurm", "restart", "copy", "slurmd", "resume", "verify"}
Rollback == {"rbGres", "rbSlurm", "rbRestart", "rbCopy", "rbSlurmd", "rbResume"}
Running == Main \cup Rollback

(* How a run of the script ended.  "refused": the lock or the queue;       *)
(* "applied": exit 0; "rolledback": exit 1 with "rollback performed";      *)
(* "critical": exit 2; "failed": set -e, the raw error of one command;     *)
(* "killed": no exit status of its own.                                    *)
Ended == {"refused", "applied", "rolledback", "critical", "failed", "killed"}

TypeOK ==
    /\ login \in Conf
    /\ gpu \in Conf
    /\ ctld \in 0..MaxPods
    /\ slurmd \in 0..MaxPods
    /\ node \in {"up", "drain"}
    /\ jobs \in 0..MaxJobs
    /\ lock \in Admin \cup {NoAdmin}
    /\ pc \in [Admin -> {"idle", "lock"} \cup Running \cup Ended]
    /\ target \in [Admin -> Count]
    /\ backup \in [Admin -> Conf]
    /\ rbFailed \in [Admin -> BOOLEAN]
    /\ gpuFailed \in [Admin -> BOOLEAN]
    /\ halfway \in BOOLEAN
    /\ faults \in 0..MaxFaults
    /\ kills \in 0..MaxKills

Uniform(n) == [gres |-> n, slurm |-> n]

Init ==
    /\ login = Uniform(InitialPods)
    /\ gpu = Uniform(InitialPods)
    /\ ctld = InitialPods
    /\ slurmd = InitialPods
    /\ node = "up"
    /\ jobs = 0
    /\ lock = NoAdmin
    /\ pc = [a \in Admin |-> "idle"]
    /\ target = [a \in Admin |-> InitialPods]
    /\ backup = [a \in Admin |-> Uniform(InitialPods)]
    /\ rbFailed = [a \in Admin |-> FALSE]
    /\ gpuFailed = [a \in Admin |-> FALSE]
    /\ halfway = FALSE
    /\ faults = 0
    /\ kills = 0

-------------------------------------------------------------------------------
Step(a, from, to) == pc[a] = from /\ pc' = [pc EXCEPT ![a] = to]

(* The script ends and the kernel releases its lock.                       *)
Exit(a, result) ==
    /\ pc' = [pc EXCEPT ![a] = result]
    /\ lock' = IF lock = a THEN NoAdmin ELSE lock

Fault == faults < MaxFaults /\ faults' = faults + 1

\* Mutant: fits_new_pod_count lets 0 through.
BadPanelCheck(a, n) ==
    /\ pc[a] \in {"idle"} \cup Ended
    /\ ctld # 0
    /\ jobs = 0
    /\ pc' = [pc EXCEPT ![a] = "lock"]
    /\ target' = [target EXCEPT ![a] = n - 1]
    /\ rbFailed' = [rbFailed EXCEPT ![a] = FALSE]
    /\ gpuFailed' = [gpuFailed EXCEPT ![a] = FALSE]
    /\ UNCHANGED <<confVars, daemonVars, jobs, lock, backup, halfway, bounds>>

(* resize_pod_count: squeue and scontrol answer, no job is active and the  *)
(* new count fits; then the script is started.                             *)
PanelCheck(a, n) ==
    /\ pc[a] \in {"idle"} \cup Ended
    /\ ctld # 0
    /\ jobs = 0
    /\ pc' = [pc EXCEPT ![a] = "lock"]
    /\ target' = [target EXCEPT ![a] = n]
    /\ rbFailed' = [rbFailed EXCEPT ![a] = FALSE]
    /\ gpuFailed' = [gpuFailed EXCEPT ![a] = FALSE]
    /\ UNCHANGED <<confVars, daemonVars, jobs, lock, backup, halfway, bounds>>

\* Mutant: the lock is not looked at.
BadTakeLock(a) ==
    /\ pc[a] = "lock"
    /\ lock' = a
    /\ pc' = [pc EXCEPT ![a] = "check"]
    /\ UNCHANGED <<confVars, daemonVars, jobs, scriptVars, halfway, bounds>>

(* flock -n: a second script does not wait.                                *)
TakeLock(a) ==
    /\ pc[a] = "lock"
    /\ \/ /\ lock = NoAdmin
          /\ lock' = a
          /\ pc' = [pc EXCEPT ![a] = "check"]
       \/ /\ lock # NoAdmin
          /\ Exit(a, "refused")
    /\ UNCHANGED <<confVars, daemonVars, jobs, scriptVars, halfway, bounds>>

(* squeue again; if slurmctld does not answer, pipefail and set -e end it. *)
CheckQueue(a) ==
    /\ pc[a] = "check"
    /\ \/ /\ ctld # 0 /\ jobs = 0
          /\ Step(a, "check", "backup")
          /\ UNCHANGED lock
       \/ /\ ctld = 0 \/ jobs > 0
          /\ Exit(a, "refused")
    /\ UNCHANGED <<confVars, daemonVars, jobs, scriptVars, halfway, bounds>>

Backup(a) ==
    /\ Step(a, "backup", "gres")
    /\ backup' = [backup EXCEPT ![a] = login]
    /\ UNCHANGED <<confVars, daemonVars, jobs, lock, target, rbFailed, gpuFailed, halfway, bounds>>

(* The two seds of the main path, and the two cps of rollback().           *)
WriteGres(a) ==
    /\ \/ Step(a, "gres", "slurm") /\ login' = [login EXCEPT !.gres = target[a]]
       \/ Step(a, "rbGres", "rbSlurm") /\ login' = [login EXCEPT !.gres = backup[a].gres]
    /\ UNCHANGED <<gpu, daemonVars, jobs, lock, scriptVars, halfway, bounds>>

\* Mutant: rollback() does not restore slurm.conf.
BadWriteSlurm(a) ==
    /\ \/ Step(a, "slurm", "restart") /\ login' = [login EXCEPT !.slurm = target[a]]
       \/ Step(a, "rbSlurm", "rbRestart") /\ UNCHANGED login
    /\ UNCHANGED <<gpu, daemonVars, jobs, lock, scriptVars, halfway, bounds>>

WriteSlurm(a) ==
    /\ \/ Step(a, "slurm", "restart") /\ login' = [login EXCEPT !.slurm = target[a]]
       \/ Step(a, "rbSlurm", "rbRestart") /\ login' = [login EXCEPT !.slurm = backup[a].slurm]
    /\ UNCHANGED <<gpu, daemonVars, jobs, lock, scriptVars, halfway, bounds>>

(* systemctl restart slurmctld.                                            *)
RestartCtld(a) ==
    /\ Step(a, "restart", "copy") \/ Step(a, "rbRestart", "rbCopy")
    /\ ctld' = login.slurm
    /\ UNCHANGED <<confVars, slurmd, node, jobs, lock, scriptVars, halfway, bounds>>

(* gpu_sync: both files are staged and copied to /etc/slurm.               *)
CopyToGpu(a) ==
    /\ Step(a, "copy", "slurmd") \/ Step(a, "rbCopy", "rbSlurmd")
    /\ gpu' = login
    /\ UNCHANGED <<login, daemonVars, jobs, lock, scriptVars, halfway, bounds>>

(* gpu_sync: systemctl restart slurmd.                                     *)
RestartSlurmd(a) ==
    /\ Step(a, "slurmd", "resume") \/ Step(a, "rbSlurmd", "rbResume")
    /\ slurmd' = gpu.gres
    /\ UNCHANGED <<confVars, ctld, node, jobs, lock, scriptVars, halfway, bounds>>

\* Mutant: a failed command of gpu_sync falls through, set -e being off.
BadGpuSyncFails(a) ==
    /\ Fault
    /\ \/ Step(a, "copy", "slurmd") \/ Step(a, "slurmd", "resume")
       \/ Step(a, "rbCopy", "rbSlurmd") \/ Step(a, "rbSlurmd", "rbResume")
    /\ UNCHANGED <<confVars, daemonVars, jobs, lock, scriptVars, halfway, kills>>

(* ssh, scp or the remote command fails: its effect is there in full, in   *)
(* part or not at all.  In the main path this starts the rollback, in the  *)
(* rollback it sets rb_rc.                                                 *)
GpuSyncFails(a) ==
    /\ Fault
    /\ \/ /\ pc[a] \in {"copy", "rbCopy"}
          /\ gpu' \in {gpu, [gpu EXCEPT !.gres = login.gres], login}
          /\ UNCHANGED slurmd
       \/ /\ pc[a] \in {"slurmd", "rbSlurmd"}
          /\ slurmd' \in {slurmd, 0, gpu.gres}
          /\ UNCHANGED gpu
    /\ \/ /\ pc[a] \in Main
          /\ pc' = [pc EXCEPT ![a] = "rbGres"]
          /\ gpuFailed' = [gpuFailed EXCEPT ![a] = TRUE]
          /\ UNCHANGED rbFailed
       \/ /\ pc[a] \in Rollback
          /\ pc' = [pc EXCEPT ![a] = "rbResume"]
          /\ rbFailed' = [rbFailed EXCEPT ![a] = TRUE]
          /\ UNCHANGED gpuFailed
    /\ UNCHANGED <<login, ctld, node, jobs, lock, target, backup, halfway, kills>>

(* scontrol update State=RESUME of the main path.                          *)
Resume(a) ==
    /\ Step(a, "resume", "verify")
    /\ node' = "up"
    /\ UNCHANGED <<confVars, ctld, slurmd, jobs, lock, scriptVars, halfway, bounds>>

(* slurmd -G on the GPU host: what its gres.conf says, if ssh succeeds.    *)
Verify(a) ==
    /\ pc[a] = "verify"
    /\ \/ /\ gpu.gres = target[a]
          /\ Exit(a, "applied")
          /\ halfway' = FALSE
          /\ UNCHANGED <<gpuFailed, faults>>
       \/ /\ Fault \/ (gpu.gres # target[a] /\ UNCHANGED faults)
          /\ pc' = [pc EXCEPT ![a] = "rbGres"]
          /\ gpuFailed' = [gpuFailed EXCEPT ![a] = TRUE]
          /\ UNCHANGED <<lock, halfway>>
    /\ UNCHANGED <<confVars, daemonVars, jobs, target, backup, rbFailed, kills>>

\* Mutant: rb_rc is not looked at.
BadEndRollback(a) ==
    /\ pc[a] = "rbResume"
    /\ node' = "up"
    /\ Exit(a, "rolledback")
    /\ UNCHANGED <<confVars, ctld, slurmd, jobs, scriptVars, halfway, bounds>>

(* RESUME of the rollback, whose failure is ignored, and the exit.         *)
EndRollback(a) ==
    /\ pc[a] = "rbResume"
    /\ \/ node' = "up" /\ UNCHANGED faults
       \/ Fault /\ UNCHANGED node
    /\ Exit(a, IF rbFailed[a] THEN "critical" ELSE "rolledback")
    /\ halfway' = (halfway \/ rbFailed[a])
    /\ UNCHANGED <<confVars, ctld, slurmd, jobs, scriptVars, kills>>

(* A script that is stopped before its first write leaves nothing behind.  *)
LeavesHalfway(a) == pc[a] \notin {"check", "backup", "gres"}

(* set -e: squeue, cp, sed, a restart of slurmctld or the RESUME fails on  *)
(* the login node.  A failed restart may leave slurmctld stopped.          *)
LoginFails(a) ==
    /\ Fault
    /\ pc[a] \in {"check", "backup", "gres", "slurm", "restart", "resume",
                  "rbGres", "rbSlurm", "rbRestart"}
    /\ ctld' \in IF pc[a] \in {"restart", "rbRestart"} THEN {ctld, 0} ELSE {ctld}
    /\ Exit(a, "failed")
    /\ halfway' = (halfway \/ LeavesHalfway(a))
    /\ UNCHANGED <<confVars, slurmd, node, jobs, scriptVars, kills>>

(* The panel's 120 s are over (it closes the pipes the script writes to),  *)
(* the admin's connection drops or the login node goes down.               *)
Kill(a) ==
    /\ pc[a] \in Running
    /\ kills < MaxKills
    /\ kills' = kills + 1
    /\ Exit(a, "killed")
    /\ halfway' = (halfway \/ LeavesHalfway(a))
    /\ UNCHANGED <<confVars, daemonVars, jobs, scriptVars, faults>>

-------------------------------------------------------------------------------
(* SLURM: a slurmd whose count is not the one slurmctld was given drains   *)
(* the node; a running slurmctld takes jobs.                               *)
Register ==
    /\ ctld # 0 /\ slurmd # 0 /\ ctld # slurmd
    /\ node' = "drain"
    /\ UNCHANGED <<confVars, ctld, slurmd, jobs, lock, pc, scriptVars, halfway, bounds>>

SubmitJob ==
    /\ ctld # 0
    /\ jobs < MaxJobs
    /\ jobs' = jobs + 1
    /\ UNCHANGED <<confVars, daemonVars, lock, pc, scriptVars, halfway, bounds>>

FinishJob ==
    /\ jobs > 0
    /\ jobs' = jobs - 1
    /\ UNCHANGED <<confVars, daemonVars, lock, pc, scriptVars, halfway, bounds>>

-------------------------------------------------------------------------------
Script(a) ==
    \/ TakeLock(a)
    \/ CheckQueue(a)
    \/ Backup(a)
    \/ WriteGres(a)
    \/ WriteSlurm(a)
    \/ RestartCtld(a)
    \/ CopyToGpu(a)
    \/ RestartSlurmd(a)
    \/ GpuSyncFails(a)
    \/ Resume(a)
    \/ Verify(a)
    \/ EndRollback(a)
    \/ LoginFails(a)

Next ==
    \/ \E a \in Admin :
          \/ \E n \in Count : PanelCheck(a, n)
          \/ Script(a)
          \/ Kill(a)
    \/ Register
    \/ SubmitJob
    \/ FinishJob

Spec == Init /\ [][Next]_vars

-------------------------------------------------------------------------------
(* Properties.                                                             *)

(* Every file and every daemon of the cluster has the same pod count.      *)
Everywhere(n) ==
    /\ login = Uniform(n)
    /\ gpu = Uniform(n)
    /\ ctld = n
    /\ slurmd = n

Ends(a, result) == pc[a] \in Running /\ pc'[a] = result

(* "resize applied" (exit 0) is said only when both nodes' files, both     *)
(* daemons and the node state agree with the new count, whatever earlier   *)
(* runs left behind and however the commands of other runs interleave.     *)
AppliedEverywhere ==
    [][\A a \in Admin : Ends(a, "applied") => Everywhere(target[a]) /\ node = "up"]_vars

(* "rollback performed" (exit 1) is never said of a half-applied cluster:  *)
(* both nodes are back on the files that were backed up.                   *)
RollbackIsClean ==
    [][\A a \in Admin : Ends(a, "rolledback") =>
          /\ login = backup[a] /\ gpu = backup[a]
          /\ ctld = backup[a].slurm /\ slurmd = backup[a].gres]_vars

(* With no script at work, a cluster whose parts disagree is one that some *)
(* script left with "critical", with a raw error or killed: the results    *)
(* "refused", "rolledback" and "applied" never hide a half-applied change. *)
DisagreementIsReported ==
    lock = NoAdmin /\ ~halfway => \E n \in Count : Everywhere(n)

(* What makes the properties inductive.                                    *)

(* The flock is held by the script that runs, and there is one.            *)
LockInv == \A a \in Admin : pc[a] \in Running <=> lock = a

(* How far the main path has got: what it has written so far is in place.  *)
MainInv(a) ==
    /\ pc[a] \in Main \ {"check", "backup", "gres"} => login.gres = target[a]
    /\ pc[a] \in {"restart", "copy", "slurmd", "resume", "verify"} => login.slurm = target[a]
    /\ pc[a] \in {"copy", "slurmd", "resume", "verify"} => ctld = target[a]
    /\ pc[a] \in {"slurmd", "resume", "verify"} => gpu = login
    /\ pc[a] \in {"resume", "verify"} => slurmd = target[a]
    /\ pc[a] = "verify" => node = "up"

(* How far the rollback has got.                                           *)
RollbackInv(a) ==
    /\ pc[a] \in Rollback \ {"rbGres"} => login.gres = backup[a].gres
    /\ pc[a] \in {"rbRestart", "rbCopy", "rbSlurmd", "rbResume"} => login.slurm = backup[a].slurm
    /\ pc[a] \in {"rbCopy", "rbSlurmd", "rbResume"} => ctld = login.slurm
    /\ pc[a] = "rbSlurmd" => gpu = login
    /\ pc[a] = "rbResume" /\ ~rbFailed[a] => gpu = login /\ slurmd = gpu.gres
    /\ pc[a] \in {"lock"} \cup (Running \ {"rbResume"}) => ~rbFailed[a]

(* A script that was started on a cluster whose parts agree has the backup *)
(* of one, and has touched nothing before its first sed.                   *)
AgreementInv ==
    ~halfway =>
        /\ lock = NoAdmin => \E n \in Count : Everywhere(n)
        /\ \A a \in Admin :
              /\ pc[a] \in {"check", "backup", "gres"} => \E n \in Count : Everywhere(n)
              /\ pc[a] = "gres" => backup[a] = login
              /\ pc[a] \in Running \ {"check", "backup"} => backup[a].gres = backup[a].slurm

IInv ==
    /\ TypeOK
    /\ LockInv
    /\ \A a \in Admin : MainInv(a) /\ RollbackInv(a)
    /\ AgreementInv

(* resize-pods.sh:58-60, "the atomic re-check right before execution": the *)
(* controller is not restarted with another pod count under an active job. *)
(* This does not hold (the README here says more), and no run checks it.   *)
NoResizeUnderJobs ==
    [][\A a \in Admin : pc[a] = "restart" /\ pc'[a] = "copy" => jobs = 0]_vars

(* docs/specs/2026-07-27-gpu-pod-allocation-design.md, a failure on the    *)
(* GPU host "auto-rolls back both nodes" and the admin is told so; the     *)
(* script's comment at line 97 reports the one rollback that fails.  This  *)
(* does not hold (the README here says more), and no run checks it.        *)
GpuFailureIsRolledBack ==
    \A a \in Admin :
        gpuFailed[a] /\ pc[a] \in Ended => pc[a] \in {"rolledback", "critical"}
===============================================================================
