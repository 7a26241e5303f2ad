------------------------------- MODULE PodProofs -------------------------------
(***************************************************************************)
(* The two components about the number of pods.  Resize: what a run of     *)
(* resize-pods.sh reports is what it did, for every number of admins and   *)
(* pods, of jobs, failures and kills.  Sizing: what a launch asks for,     *)
(* for every node, split, template and script.                             *)
(***************************************************************************)
EXTENDS Resize, Sizing, FiniteSetTheorems, WellFoundedInduction, TLAPS

-------------------------------------------------------------------------------
(* Resize.  The invariant says how far the one running script has got at   *)
(* each of its commands.                                                   *)

USE DEF Main, Rollback, Running, Ended, Conf, Count, confVars, daemonVars,
        scriptVars, bounds, Step

(* Only the holder of the lock runs, so what a step does to one script     *)
(* leaves the invariant of the others alone.                               *)
LEMMA TypeStable == ASSUME TypeOK, [Next]_vars PROVE TypeOK'
<1> USE DEF TypeOK
<1>1. ASSUME NEW a \in Admin, NEW n \in Count, PanelCheck(a, n) PROVE TypeOK'
    BY <1>1 DEF PanelCheck
<1>2. ASSUME NEW a \in Admin, TakeLock(a) \/ CheckQueue(a) PROVE TypeOK'
    BY <1>2 DEF TakeLock, CheckQueue, Exit
<1>3. ASSUME NEW a \in Admin, Backup(a) PROVE TypeOK'
    BY <1>3 DEF Backup
<1>4. ASSUME NEW a \in Admin, WriteGres(a) \/ WriteSlurm(a) PROVE TypeOK'
    BY <1>4 DEF WriteGres, WriteSlurm
<1>5. ASSUME NEW a \in Admin, RestartCtld(a) \/ CopyToGpu(a) \/ RestartSlurmd(a) \/ Resume(a)
      PROVE TypeOK'
    BY <1>5, ResizeAssumption DEF RestartCtld, CopyToGpu, RestartSlurmd, Resume
<1>6. ASSUME NEW a \in Admin, GpuSyncFails(a) PROVE TypeOK'
    <2>1. faults' \in 0..MaxFaults
        BY <1>6, ResizeAssumption DEF GpuSyncFails, Fault
    <2>2. gpu' \in Conf /\ slurmd' \in 0..MaxPods
        BY <1>6, ResizeAssumption DEF GpuSyncFails
    <2>3. pc' \in [Admin -> {"idle", "lock"} \cup Running \cup Ended]
        BY <1>6 DEF GpuSyncFails
    <2>4. rbFailed' \in [Admin -> BOOLEAN] /\ gpuFailed' \in [Admin -> BOOLEAN]
        BY <1>6 DEF GpuSyncFails
    <2>5. QED
        BY <1>6, <2>1, <2>2, <2>3, <2>4 DEF GpuSyncFails
<1>7. ASSUME NEW a \in Admin, Verify(a) \/ EndRollback(a) PROVE TypeOK'
    <2>1. faults' \in 0..MaxFaults
        BY <1>7, ResizeAssumption DEF Verify, EndRollback, Fault
    <2>2. pc' \in [Admin -> {"idle", "lock"} \cup Running \cup Ended]
          /\ lock' \in Admin \cup {NoAdmin} /\ node' \in {"up", "drain"}
        BY <1>7 DEF Verify, EndRollback, Exit
    <2>3. halfway' \in BOOLEAN
        BY <1>7 DEF Verify, EndRollback
    <2>4. gpuFailed' \in [Admin -> BOOLEAN]
        BY <1>7 DEF Verify, EndRollback
    <2>5. QED
        BY <1>7, <2>1, <2>2, <2>3, <2>4 DEF Verify, EndRollback
<1>8. ASSUME NEW a \in Admin, LoginFails(a) \/ Kill(a) PROVE TypeOK'
    <2>1. faults' \in 0..MaxFaults /\ kills' \in 0..MaxKills
        BY <1>8, ResizeAssumption DEF LoginFails, Kill, Fault
    <2>2. pc' \in [Admin -> {"idle", "lock"} \cup Running \cup Ended]
          /\ lock' \in Admin \cup {NoAdmin} /\ ctld' \in 0..MaxPods
        BY <1>8, ResizeAssumption DEF LoginFails, Kill, Exit
    <2>3. halfway' \in BOOLEAN
        BY <1>8 DEF LoginFails, Kill, LeavesHalfway
    <2>4. QED
        BY <1>8, <2>1, <2>2, <2>3 DEF LoginFails, Kill
<1>9. CASE Register \/ SubmitJob \/ FinishJob \/ UNCHANGED vars
    BY <1>9, ResizeAssumption DEF Register, SubmitJob, FinishJob, vars
<1>10. QED
    BY <1>1, <1>2, <1>3, <1>4, <1>5, <1>6, <1>7, <1>8, <1>9 DEF Next, Script

LEMMA LockStable == ASSUME TypeOK, LockInv, [Next]_vars PROVE LockInv'
<1> USE DEF TypeOK, LockInv
<1>1. ASSUME NEW a \in Admin, NEW n \in Count, PanelCheck(a, n) PROVE LockInv'
    BY <1>1 DEF PanelCheck
<1>2. ASSUME NEW a \in Admin, TakeLock(a) \/ CheckQueue(a) PROVE LockInv'
    BY <1>2, ResizeAssumption DEF TakeLock, CheckQueue, Exit
<1>3. ASSUME NEW a \in Admin, Backup(a) \/ WriteGres(a) \/ WriteSlurm(a) \/ RestartCtld(a)
             \/ CopyToGpu(a) \/ RestartSlurmd(a) \/ Resume(a) \/ GpuSyncFails(a)
      PROVE LockInv'
    BY <1>3 DEF Backup, WriteGres, WriteSlurm, RestartCtld, CopyToGpu, RestartSlurmd, Resume,
                GpuSyncFails
<1>4. ASSUME NEW a \in Admin, Verify(a) \/ EndRollback(a) \/ LoginFails(a) \/ Kill(a)
      PROVE LockInv'
    BY <1>4, ResizeAssumption DEF Verify, EndRollback, LoginFails, Kill, Exit
<1>5. CASE Register \/ SubmitJob \/ FinishJob \/ UNCHANGED vars
    BY <1>5 DEF Register, SubmitJob, FinishJob, vars
<1>6. QED
    BY <1>1, <1>2, <1>3, <1>4, <1>5 DEF Next, Script

(* The script of another admin is not running while this one is.           *)
LEMMA OneScript ==
    ASSUME LockInv, NEW a \in Admin, NEW b \in Admin, pc[a] \in Running, pc[b] \in Running
    PROVE  a = b
BY DEF LockInv

LEMMA StepsStable ==
    ASSUME TypeOK, LockInv, \A a \in Admin : MainInv(a) /\ RollbackInv(a), [Next]_vars,
           NEW b \in Admin
    PROVE  (MainInv(b) /\ RollbackInv(b))'
<1> USE DEF TypeOK, MainInv, RollbackInv
<1>1. ASSUME NEW a \in Admin, NEW n \in Count, PanelCheck(a, n)
      PROVE  (MainInv(b) /\ RollbackInv(b))'
    BY <1>1 DEF PanelCheck
<1>2. ASSUME NEW a \in Admin, TakeLock(a)
      PROVE  (MainInv(b) /\ RollbackInv(b))'
    BY <1>2 DEF TakeLock, Exit
<1>3. ASSUME NEW a \in Admin, pc[a] \in Running, Script(a) \/ Kill(a), b # a
      PROVE  (MainInv(b) /\ RollbackInv(b))'
    <2>1. pc[b] \notin Running
        BY <1>3, OneScript
    <2>2. pc'[b] = pc[b]
        BY <1>3 DEF Script, Kill, TakeLock, CheckQueue, Backup, WriteGres, WriteSlurm, RestartCtld,
           CopyToGpu, RestartSlurmd, GpuSyncFails, Resume, Verify, EndRollback, LoginFails, Exit
    <2>3. rbFailed'[b] = rbFailed[b]
        BY <1>3 DEF Script, Kill, TakeLock, CheckQueue, Backup, WriteGres, WriteSlurm, RestartCtld,
           CopyToGpu, RestartSlurmd, GpuSyncFails, Resume, Verify, EndRollback, LoginFails
    <2>4. QED
        BY <2>1, <2>2, <2>3
<1>4. ASSUME CheckQueue(b) \/ Backup(b) \/ LoginFails(b) \/ Kill(b) \/ EndRollback(b)
      PROVE  (MainInv(b) /\ RollbackInv(b))'
    BY <1>4 DEF CheckQueue, Backup, LoginFails, Kill, EndRollback, Exit
<1>5. ASSUME WriteGres(b) \/ WriteSlurm(b)
      PROVE  (MainInv(b) /\ RollbackInv(b))'
    BY <1>5 DEF WriteGres, WriteSlurm
<1>6. ASSUME RestartCtld(b) \/ CopyToGpu(b) \/ RestartSlurmd(b) \/ Resume(b)
      PROVE  (MainInv(b) /\ RollbackInv(b))'
    BY <1>6 DEF RestartCtld, CopyToGpu, RestartSlurmd, Resume
<1>7. ASSUME GpuSyncFails(b)
      PROVE  (MainInv(b) /\ RollbackInv(b))'
    BY <1>7 DEF GpuSyncFails
<1>8. ASSUME Verify(b)
      PROVE  (MainInv(b) /\ RollbackInv(b))'
    BY <1>8 DEF Verify, Exit
<1>9. CASE Register \/ SubmitJob \/ FinishJob \/ UNCHANGED vars
    BY <1>9 DEF Register, SubmitJob, FinishJob, vars
<1>10. QED
    <2>1. ASSUME NEW a \in Admin, Script(a) \/ Kill(a), ~TakeLock(a) PROVE pc[a] \in Running
        BY <2>1 DEF Script, Kill, CheckQueue, Backup, WriteGres, WriteSlurm, RestartCtld,
           CopyToGpu, RestartSlurmd, GpuSyncFails, Resume, Verify, EndRollback, LoginFails
    <2>2. ASSUME NEW a \in Admin, Script(a) \/ Kill(a) PROVE (MainInv(b) /\ RollbackInv(b))'
        BY <2>1, <2>2, <1>2, <1>3, <1>4, <1>5, <1>6, <1>7, <1>8 DEF Script
    <2>3. QED
        BY <2>2, <1>1, <1>9 DEF Next

(* At each way out that is not reported as halfway the parts agree.        *)
LEMMA AgreementStable ==
    ASSUME IInv, [Next]_vars
    PROVE  AgreementInv'
<1> USE DEF IInv, TypeOK, AgreementInv, Everywhere, Uniform
<1>1. ASSUME NEW a \in Admin, NEW n \in Count, PanelCheck(a, n) PROVE AgreementInv'
    BY <1>1 DEF PanelCheck
<1>2. ASSUME NEW a \in Admin, TakeLock(a) PROVE AgreementInv'
    BY <1>2 DEF TakeLock, Exit, LockInv
<1>3. ASSUME NEW a \in Admin, CheckQueue(a) PROVE AgreementInv'
    BY <1>3, ResizeAssumption DEF CheckQueue, Exit, LockInv
<1>4. ASSUME NEW a \in Admin, Backup(a) PROVE AgreementInv'
    BY <1>4, ResizeAssumption DEF Backup, LockInv
<1>5. ASSUME NEW a \in Admin, WriteGres(a) \/ WriteSlurm(a) PROVE AgreementInv'
    BY <1>5, ResizeAssumption DEF WriteGres, WriteSlurm, LockInv
<1>6. ASSUME NEW a \in Admin, RestartCtld(a) \/ CopyToGpu(a) \/ RestartSlurmd(a) \/ Resume(a)
      PROVE AgreementInv'
    BY <1>6, ResizeAssumption DEF RestartCtld, CopyToGpu, RestartSlurmd, Resume, LockInv
<1>7. ASSUME NEW a \in Admin, GpuSyncFails(a) PROVE AgreementInv'
    BY <1>7, ResizeAssumption DEF GpuSyncFails, LockInv
<1>8. ASSUME NEW a \in Admin, Verify(a) PROVE AgreementInv'
    BY <1>8, ResizeAssumption DEF Verify, Exit, LockInv, MainInv
<1>9. ASSUME NEW a \in Admin, EndRollback(a) PROVE AgreementInv'
    BY <1>9, ResizeAssumption DEF EndRollback, Exit, LockInv, RollbackInv
<1>10. ASSUME NEW a \in Admin, LoginFails(a) \/ Kill(a) PROVE AgreementInv'
    <2>1. lock = a /\ \A b \in Admin \ {a} : pc[b] \notin Running
        BY <1>10 DEF LoginFails, Kill, LockInv
    <2>2. \A b \in Admin : pc'[b] \notin Running
        BY <1>10, <2>1 DEF LoginFails, Kill, Exit
    <2>3. CASE halfway \/ LeavesHalfway(a)
        BY <1>10, <2>3 DEF LoginFails, Kill
    <2>4. CASE ~halfway /\ ~LeavesHalfway(a)
        <3>1. pc[a] \in {"check", "backup", "gres"}
            BY <2>4 DEF LeavesHalfway
        <3>2. UNCHANGED <<login, gpu, ctld, slurmd>>
            BY <1>10, <3>1 DEF LoginFails, Kill
        <3>3. QED
            BY <2>2, <2>4, <3>1, <3>2
    <2>5. QED
        BY <2>3, <2>4
<1>11. CASE Register \/ SubmitJob \/ FinishJob \/ UNCHANGED vars
    BY <1>11 DEF Register, SubmitJob, FinishJob, vars
<1>12. QED
    BY <1>1, <1>2, <1>3, <1>4, <1>5, <1>6, <1>7, <1>8, <1>9, <1>10, <1>11 DEF Next, Script

(* The state is well typed, one script runs at a time, and each command    *)
(* finds the files and daemons as the commands before it left them.        *)
THEOREM ResizeInvariance == Spec => []IInv
<1>1. Init => IInv
    <2> SUFFICES ASSUME Init PROVE IInv
        OBVIOUS
    <2>1. TypeOK
        <3>1. /\ login \in Conf /\ gpu \in Conf
              /\ ctld \in 0..MaxPods /\ slurmd \in 0..MaxPods
              /\ target \in [Admin -> Count] /\ backup \in [Admin -> Conf]
            BY ResizeAssumption DEF Init, Uniform
        <3>2. rbFailed \in [Admin -> BOOLEAN] /\ gpuFailed \in [Admin -> BOOLEAN]
              /\ halfway \in BOOLEAN
            BY DEF Init
        <3>3. QED
            BY <3>1, <3>2, ResizeAssumption DEF Init, TypeOK
    <2>2. LockInv
        BY ResizeAssumption DEF Init, LockInv
    <2>3. \A a \in Admin : MainInv(a) /\ RollbackInv(a)
        BY DEF Init, MainInv, RollbackInv
    <2>4. AgreementInv
        BY ResizeAssumption DEF Init, AgreementInv, Everywhere, Uniform
    <2>5. QED
        BY <2>1, <2>2, <2>3, <2>4 DEF IInv
<1>2. IInv /\ [Next]_vars => IInv'
    BY TypeStable, LockStable, StepsStable, AgreementStable DEF IInv
<1>3. QED
    BY <1>1, <1>2, PTL DEF Spec

(* "resize applied" is said only when both nodes and daemons have the new  *)
(* pod count and the node is up.                                           *)
THEOREM Applied == Spec => AppliedEverywhere
<1>1. ASSUME IInv, NEW a \in Admin, [Next]_vars, Ends(a, "applied")
      PROVE  Everywhere(target[a]) /\ node = "up"
    <2>1. Verify(a) /\ pc[a] = "verify"
        BY <1>1 DEF Ends, Next, Script, PanelCheck, Kill, TakeLock, CheckQueue, Backup, WriteGres,
           WriteSlurm, RestartCtld, CopyToGpu, RestartSlurmd, GpuSyncFails, Resume, Verify,
           EndRollback, LoginFails, Exit, Register, SubmitJob, FinishJob, vars, IInv, TypeOK
    <2>2. MainInv(a) /\ login \in Conf
        BY <1>1 DEF IInv, TypeOK
    <2>3. QED
        BY <2>1, <2>2 DEF MainInv, Everywhere, Uniform
<1>2. IInv /\ [Next]_vars =>
        [\A a \in Admin : Ends(a, "applied") => Everywhere(target[a]) /\ node = "up"]_vars
    BY <1>1
<1>3. QED
    BY <1>2, ResizeInvariance, PTL DEF Spec, AppliedEverywhere

(* "rollback performed" is said only when both nodes and daemons are back  *)
(* on the files that were backed up.                                       *)
THEOREM RolledBack == Spec => RollbackIsClean
<1>1. ASSUME IInv, NEW a \in Admin, [Next]_vars, Ends(a, "rolledback")
      PROVE  /\ login = backup[a] /\ gpu = backup[a]
             /\ ctld = backup[a].slurm /\ slurmd = backup[a].gres
    <2>1. EndRollback(a) /\ pc[a] = "rbResume" /\ ~rbFailed[a]
        BY <1>1 DEF Ends, Next, Script, PanelCheck, Kill, TakeLock, CheckQueue, Backup, WriteGres,
           WriteSlurm, RestartCtld, CopyToGpu, RestartSlurmd, GpuSyncFails, Resume, Verify,
           EndRollback, LoginFails, Exit, Register, SubmitJob, FinishJob, vars, IInv, TypeOK
    <2>2. RollbackInv(a) /\ login \in Conf /\ backup[a] \in Conf
        BY <1>1 DEF IInv, TypeOK
    <2>3. QED
        BY <2>1, <2>2 DEF RollbackInv
<1>2. IInv /\ [Next]_vars =>
        [\A a \in Admin : Ends(a, "rolledback") =>
            /\ login = backup[a] /\ gpu = backup[a]
            /\ ctld = backup[a].slurm /\ slurmd = backup[a].gres]_vars
    BY <1>1
<1>3. QED
    BY <1>2, ResizeInvariance, PTL DEF Spec, RollbackIsClean

(* A cluster whose parts disagree is one that some script has reported.    *)
THEOREM Reported == Spec => []DisagreementIsReported
<1>1. IInv => DisagreementIsReported
    BY DEF IInv, AgreementInv, DisagreementIsReported
<1>2. QED
    BY <1>1, ResizeInvariance, PTL

HIDE DEF Main, Rollback, Running, Ended, Conf, Count, confVars, daemonVars,
         scriptVars, bounds, Step

-------------------------------------------------------------------------------
(* Sizing: what the operators of pods.py and launchspec.py return.         *)

LEMMA ClampedIn == ASSUME NEW k \in Nat, NEW n \in Nat \ {0} PROVE Clamped(k, n) \in 1..n
BY DEF Clamped

LEMMA PodSize ==
    ASSUME NEW n \in Nat \ {0}
    PROVE  PodResources(n).cpus \in Nat /\ PodResources(n).mem \in Nat
<1>1. Cpus \div n \in Nat /\ Usable \div n \in Nat
    <2>1. Cpus \in Nat /\ Usable \in Nat
        BY SizingAssumption DEF Usable, Headroom
    <2>2. QED
        BY <2>1
<1>2. QED
    BY <1>1 DEF PodResources, AtLeast1

(* apply_pods with a reading sets the three sizes, and nothing else.       *)
LEMMA SizedIs ==
    ASSUME NEW ls \in LaunchSpec, NEW k \in Nat, NEW n \in Nat \ {0}
    PROVE  /\ Sized(ls, k, n) \in LaunchSpec
           /\ Sized(ls, k, n).pods = Clamped(k, n)
           /\ Sized(ls, k, n).cpus = PodResources(n).cpus * Clamped(k, n)
           /\ Sized(ls, k, n).mem = PodResources(n).mem * Clamped(k, n)
           /\ Sized(ls, k, n).minutes = ls.minutes
           /\ Sized(ls, k, n).env = ls.env
           /\ Sized(ls, k, n).intent = ls.intent
<1>1. Clamped(k, n) \in Nat /\ PodResources(n).cpus \in Nat /\ PodResources(n).mem \in Nat
    BY ClampedIn, PodSize
<1>2. /\ PodResources(n).cpus * Clamped(k, n) \in Nat
      /\ PodResources(n).mem * Clamped(k, n) \in Nat
    BY <1>1
<1> HIDE DEF Clamped, PodResources
<1>3. QED
    BY <1>1, <1>2 DEF Sized, LaunchSpec

LEMMA SizedForIs ==
    ASSUME NEW ls \in LaunchSpec, NEW n \in Nat \ {0}
    PROVE  SizedFor(ls, n) <=>
               /\ ls.pods \in 1..n
               /\ ls.cpus = PodResources(n).cpus * ls.pods
               /\ ls.mem = PodResources(n).mem * ls.pods
<1>1. ls.pods \in Nat
    BY DEF LaunchSpec
<1>2. ls.pods = Clamped(ls.pods, n) <=> ls.pods \in 1..n
    BY <1>1 DEF Clamped
<1>3. SizedFor(ls, n) <=>
          /\ ls.pods = Clamped(ls.pods, n)
          /\ ls.cpus = PodResources(n).cpus * Clamped(ls.pods, n)
          /\ ls.mem = PodResources(n).mem * Clamped(ls.pods, n)
    BY <1>1, SizedIs DEF SizedFor, Size
<1>4. QED
    BY <1>2, <1>3

LEMMA SizedIsSized ==
    ASSUME NEW ls \in LaunchSpec, NEW k \in Nat, NEW n \in Nat \ {0}
    PROVE  SizedFor(Sized(ls, k, n), n)
<1> DEFINE x == Sized(ls, k, n)
<1>1. x \in LaunchSpec /\ x.pods \in 1..n
    BY SizedIs, ClampedIn
<1>2. x.cpus = PodResources(n).cpus * x.pods /\ x.mem = PodResources(n).mem * x.pods
    BY SizedIs
<1> HIDE DEF x
<1>3. SizedFor(x, n)
    BY <1>1, <1>2, SizedForIs
<1>4. QED
    BY <1>3 DEF x
LEMMA ApplyPodsIs ==
    ASSUME NEW ls \in LaunchSpec, NEW k \in Nat, NEW reading \in {pods, Nothing}, pods \in Splits
    PROVE  /\ ApplyPods(ls, k, reading) \in LaunchSpec
           /\ ApplyPods(ls, k, reading).minutes = ls.minutes
           /\ reading # Nothing => /\ SizedFor(ApplyPods(ls, k, reading), pods)
                                   /\ ApplyPods(ls, k, reading).pods <= pods
<1>1. pods \in Nat \ {0} /\ pods # Nothing
    BY SizingAssumption
<1>2. CASE reading = Nothing
    <2>1. AtLeast1(k) \in Nat
        BY DEF AtLeast1
    <2>2. QED
        BY <1>2, <2>1 DEF ApplyPods, Known, LaunchSpec
<1>3. CASE reading = pods
    <2>1. ApplyPods(ls, k, reading) = Sized(ls, k, pods)
        BY <1>1, <1>3 DEF ApplyPods, Known
    <2>2. Clamped(k, pods) <= pods
        BY <1>1, ClampedIn
    <2>3. QED
        BY <1>1, <2>1, <2>2, SizedIs, SizedIsSized
<1>4. QED
    BY <1>2, <1>3

LEMMA DefaultIs ==
    ASSUME NEW intent \in Intents,
           NEW reading \in {pods, Nothing}, pods \in Splits
    PROVE  /\ DefaultSpec(intent, reading) \in LaunchSpec
           /\ DefaultSpec(intent, reading).minutes <= WallMinutes
           /\ reading # Nothing => /\ SizedFor(DefaultSpec(intent, reading), pods)
                                   /\ DefaultSpec(intent, reading).pods <= pods
<1> DEFINE ls == [intent |-> intent, pods |-> 1, cpus |-> DefaultCpus, mem |-> DefaultMem,
                  minutes |-> DefaultTime(intent), env |-> "none"]
<1>1. DefaultTime(intent) \in Nat /\ DefaultTime(intent) <= WallMinutes
    BY DEF DefaultTime, WallMinutes, Intents
<1>2. ls \in LaunchSpec /\ ls.minutes <= WallMinutes
    BY <1>1, SizingAssumption DEF LaunchSpec, Envs
<1>3. DefaultSpec(intent, reading) = ApplyPods(ls, 1, reading)
    BY DEF DefaultSpec
<1> HIDE DEF ls
<1>4. QED
    BY <1>2, <1>3, ApplyPodsIs

(* What a template sets replaces the default.                              *)
LEMMA StoredIs ==
    ASSUME NEW ls \in LaunchSpec, NEW x \in LaunchSpec, NEW env \in Envs
    PROVE  LET y == [WithTime(WithSize(ls, x), x) EXCEPT !.env = env]
           IN  /\ y \in LaunchSpec
               /\ Size(y) = Size(x)
               /\ y.minutes = IF x.minutes = 0 THEN ls.minutes ELSE x.minutes
               /\ y.env = env
<1> DEFINE w == WithSize(ls, x)
<1>1. x.pods \in Nat /\ x.cpus \in Nat /\ x.mem \in Nat /\ x.minutes \in Nat
    BY DEF LaunchSpec, Sbatch
<1>2. w \in LaunchSpec /\ Size(w) = Size(x) /\ w.minutes = ls.minutes
    BY <1>1 DEF WithSize, LaunchSpec, Size
<1> HIDE DEF w
<1> DEFINE v == WithTime(w, x)
<1>3. /\ v \in LaunchSpec /\ Size(v) = Size(x)
      /\ v.minutes = IF x.minutes = 0 THEN ls.minutes ELSE x.minutes
    BY <1>1, <1>2 DEF WithTime, LaunchSpec, Size
<1> HIDE DEF v
<1>4. /\ [v EXCEPT !.env = env] \in LaunchSpec /\ Size([v EXCEPT !.env = env]) = Size(v)
      /\ [v EXCEPT !.env = env].minutes = v.minutes /\ [v EXCEPT !.env = env].env = env
    BY <1>3 DEF LaunchSpec, Size
<1>5. QED
    BY <1>3, <1>4 DEF v, w
LEMMA TemplateIs ==
    ASSUME NEW x \in LaunchSpec, NEW reading \in {pods, Nothing}, pods \in Splits
    PROVE  /\ FromTemplate(x, reading) \in LaunchSpec
           /\ x.minutes = 0 => FromTemplate(x, reading).minutes <= WallMinutes
<1>1. x.intent \in Intents /\ x.env \in Envs
    BY DEF LaunchSpec
<1>2. /\ DefaultSpec(x.intent, reading) \in LaunchSpec
      /\ DefaultSpec(x.intent, reading).minutes <= WallMinutes
    BY <1>1, DefaultIs
<1> HIDE DEF LaunchSpec, DefaultSpec
<1>3. QED
    BY <1>1, <1>2, StoredIs DEF FromTemplate

(* What is found in an old script replaces the default.                    *)
LEMMA RerunIs ==
    ASSUME NEW text \in Sbatch, NEW reading \in {pods, Nothing}, pods \in Splits
    PROVE  FromRerun(text, reading) \in LaunchSpec /\ Repeats(FromRerun(text, reading), text)
<1> DEFINE ls == DefaultSpec("batch", reading)
           Read(f) == IF f \in text.found THEN text[f] ELSE ls[f]
           y == [intent |-> "batch", pods |-> Read("pods"), cpus |-> Read("cpus"),
                 mem |-> Read("mem"), minutes |-> Read("minutes"), env |-> Read("env")]
<1>1. ls \in LaunchSpec
    BY DefaultIs DEF Intents
<1> HIDE DEF ls
<1>2. /\ Read("pods") \in Nat /\ Read("cpus") \in Nat /\ Read("mem") \in Nat
      /\ Read("minutes") \in Nat /\ Read("env") \in Envs
    BY <1>1 DEF LaunchSpec, Sbatch
<1>3. \A f \in text.found : f \in Fields /\ Read(f) = text[f]
    BY DEF Sbatch
<1>4. /\ y.pods = Read("pods") /\ y.cpus = Read("cpus") /\ y.mem = Read("mem")
      /\ y.minutes = Read("minutes") /\ y.env = Read("env")
    OBVIOUS
<1>5. FromRerun(text, reading) = y
    BY DEF FromRerun, ls
<1> HIDE DEF Read
<1>6. y \in LaunchSpec
    BY <1>2 DEF LaunchSpec, Intents
<1>7. \A f \in Fields : y[f] = Read(f)
    BY DEF Fields
<1> HIDE DEF y
<1>8. \A f \in text.found : y[f] = text[f]
    BY <1>3, <1>7
<1>9. QED
    BY <1>5, <1>6, <1>8 DEF Repeats

-------------------------------------------------------------------------------
(* Sizing: the invariant.  Whatever replaces the specification of a        *)
(* session, an intake or an edit, is covered by one lemma.                 *)

LEMMA SpecChanges ==
    ASSUME SizingInv, NEW s \in Session, NEW stage \in {"hub", "own"}, NEW ls \in Request,
           NEW reasons \in SUBSET Reasons, NEW text \in Sbatch \cup {Nothing},
           stage = "hub" => ls \in LaunchSpec,
           stage = "own" => ls \in Sbatch /\ "own" \in reasons,
           at' = [at EXCEPT ![s] = stage], spec' = [spec EXCEPT ![s] = ls],
           why' = [why EXCEPT ![s] = reasons], again' = [again EXCEPT ![s] = text], Moves,
           UNCHANGED <<pods, stats, active, clean, script, template, resizes>>,
           reasons \subseteq {"time"} => SizedFor(ls, pods),
           reasons \subseteq {"own", "time"} => ls.pods <= pods,
           "time" \notin reasons => ls.minutes <= WallMinutes
    PROVE  SizingInv'
<1> USE DEF SizingInv
<1>1. SizingTypeOK'
    <2>1. moves' \in 0..MaxMoves
        BY SizingAssumption DEF Moves, SizingTypeOK
    <2> HIDE DEF LaunchSpec, Sbatch, Request
    <2>2. QED
        BY <2>1 DEF SizingTypeOK, Stages
<1>2. /\ at'[s] = stage /\ spec'[s] = ls /\ why'[s] = reasons /\ again'[s] = text
      /\ \A r \in Session \ {s} : /\ at'[r] = at[r] /\ spec'[r] = spec[r]
                                  /\ why'[r] = why[r] /\ again'[r] = again[r]
    BY DEF SizingTypeOK
<1> HIDE DEF SizingTypeOK, SizedFor, LaunchSpec, Sbatch, Request
<1>3. InWizard' /\ TimeIsAllowed' /\ PodsAreThere'
    BY <1>2 DEF InWizard, TimeIsAllowed, PodsAreThere
<1>4. SizedByPods' /\ CleanBySplit'
    BY <1>2 DEF SizedByPods, CleanBySplit
<1>5. QED
    BY <1>1, <1>3, <1>4

LEMMA StartsKeeps ==
    ASSUME SizingInv, NEW s \in Session, NEW ls \in LaunchSpec, NEW reasons \in SUBSET Reasons,
           NEW text \in Sbatch \cup {Nothing}, Starts(s, ls, reasons),
           again' = [again EXCEPT ![s] = text],
           reasons \subseteq {"time"} => SizedFor(ls, pods),
           reasons \subseteq {"own", "time"} => ls.pods <= pods,
           "time" \notin reasons => ls.minutes <= WallMinutes
    PROVE  SizingInv'
<1> HIDE DEF SizedFor, LaunchSpec, Sbatch
<1>1. UNCHANGED <<pods, stats, active, clean, script, template, resizes>> /\ Moves
      /\ at' = [at EXCEPT ![s] = "hub"] /\ spec' = [spec EXCEPT ![s] = ls]
      /\ why' = [why EXCEPT ![s] = reasons]
    BY DEF Starts, Goes
<1>2. ls \in Request
    BY DEF Request
<1>3. QED
    BY <1>1, <1>2, SpecChanges

LEMMA EditsKeeps ==
    ASSUME SizingInv, NEW s \in Session, NEW ls \in LaunchSpec, NEW reasons \in SUBSET Reasons,
           Edits(s, ls, reasons),
           reasons \subseteq {"time"} => SizedFor(ls, pods),
           reasons \subseteq {"own", "time"} => ls.pods <= pods,
           "time" \notin reasons => ls.minutes <= WallMinutes
    PROVE  SizingInv'
<1> HIDE DEF SizedFor, LaunchSpec, Sbatch
<1>1. UNCHANGED <<pods, stats, active, clean, script, template, resizes>> /\ Moves
      /\ at' = [at EXCEPT ![s] = "hub"] /\ spec' = [spec EXCEPT ![s] = ls]
      /\ why' = [why EXCEPT ![s] = reasons] /\ again' = [again EXCEPT ![s] = Nothing]
    BY DEF Edits, Goes
<1>2. ls \in Request
    BY DEF Request
<1>3. QED
    BY <1>1, <1>2, SpecChanges

LEMMA IntakeKeeps == ASSUME SizingInv, NEW s \in Session, Intake(s) PROVE SizingInv'
<1>1. /\ pods \in Splits /\ pods \in Nat \ {0} /\ pods # Nothing
      /\ again \in [Session -> Sbatch \cup {Nothing}] /\ again[s] \in Sbatch \cup {Nothing}
      /\ script[s] \in Sbatch \cup {Nothing} /\ template \in LaunchSpec \cup {Nothing}
      /\ at[s] = "idle" => again[s] = Nothing
    BY SizingAssumption DEF SizingInv, SizingTypeOK, InWizard
<1>2. at[s] = "idle"
    BY DEF Intake, Fresh, FineTune, LoadTemplate, Rerun, OwnScript, Starts, Goes
<1>3. UNCHANGED again => again' = [again EXCEPT ![s] = Nothing]
    BY <1>1, <1>2
<1> HIDE DEF SizingInv, Sbatch, LaunchSpec, SizedFor, DefaultSpec, ApplyPods, FromTemplate,
             FromRerun, WallMinutes, Starts
<1>4. CASE Fresh(s)
    <2>1. PICK intent \in Intents, reading \in {pods, Nothing} :
              Starts(s, DefaultSpec(intent, reading), Blind(reading)) /\ UNCHANGED again
        BY <1>4 DEF Fresh, Readings
    <2>2. Blind(reading) \in SUBSET Reasons /\ (reading = Nothing => "blind" \in Blind(reading))
        BY DEF Blind, Reasons, Known
    <2>3. QED
        BY <1>1, <1>3, <2>1, <2>2, DefaultIs, StartsKeeps
<1>5. CASE FineTune(s)
    <2>1. PICK reading \in {pods, Nothing} :
              /\ Starts(s, [ApplyPods(DefaultSpec("batch", reading), PodCount(reading), reading)
                              EXCEPT !.minutes = 480], Blind(reading))
              /\ UNCHANGED again
        BY <1>5 DEF FineTune, Readings
    <2>2. Blind(reading) \in SUBSET Reasons /\ (reading = Nothing => "blind" \in Blind(reading))
        BY DEF Blind, Reasons, Known
    <2> DEFINE ls == ApplyPods(DefaultSpec("batch", reading), PodCount(reading), reading)
    <2>3. PodCount(reading) \in Nat
        BY <1>1 DEF PodCount, Known
    <2>4. ls \in LaunchSpec /\ (reading # Nothing => SizedFor(ls, pods) /\ ls.pods <= pods)
        BY <1>1, <2>3, DefaultIs, ApplyPodsIs DEF Intents
    <2> HIDE DEF ls
    <2> DEFINE y == [ls EXCEPT !.minutes = 480]
    <2>5. /\ y \in LaunchSpec /\ y.minutes <= WallMinutes /\ y.pods = ls.pods
          /\ y.cpus = ls.cpus /\ y.mem = ls.mem
        BY <2>4 DEF LaunchSpec, WallMinutes
    <2>6. Starts(s, y, Blind(reading))
        BY <2>1 DEF ls
    <2> HIDE DEF y
    <2>7. SizedFor(ls, pods) => SizedFor(y, pods)
        BY <1>1, <2>4, <2>5, SizedForIs
    <2>8. QED
        BY <1>1, <1>3, <2>1, <2>2, <2>4, <2>5, <2>6, <2>7, StartsKeeps
<1>6. CASE LoadTemplate(s)
    <2>1. PICK x \in Preset \cup ({template} \ {Nothing}), reading \in {pods, Nothing} :
              /\ Starts(s, FromTemplate(x, reading),
                        {"stored"} \cup IF x.minutes = 0 THEN {} ELSE {"time"})
              /\ UNCHANGED again
        BY <1>6 DEF LoadTemplate, Readings
    <2>2. x \in LaunchSpec
        BY <1>1, SizingAssumption
    <2> DEFINE reasons == {"stored"} \cup IF x.minutes = 0 THEN {} ELSE {"time"}
    <2>3. reasons \in SUBSET Reasons /\ "stored" \in reasons /\ (x.minutes # 0 => "time" \in reasons)
        BY DEF Reasons
    <2> HIDE DEF reasons
    <2>4. QED
        BY <1>1, <1>3, <2>1, <2>2, <2>3, TemplateIs, StartsKeeps DEF reasons
<1>7. CASE Rerun(s)
    <2>1. PICK reading \in {pods, Nothing} :
              /\ script[s] # Nothing
              /\ Starts(s, FromRerun(script[s], reading), {"stored", "time"})
              /\ again' = [again EXCEPT ![s] = script[s]]
        BY <1>7 DEF Rerun, Readings
    <2>2. {"stored", "time"} \in SUBSET Reasons
        BY DEF Reasons
    <2>3. QED
        BY <1>1, <2>1, <2>2, RerunIs, StartsKeeps
<1>8. CASE OwnScript(s)
    <2> DEFINE Unchecked(x) == IF x.checked = x.pods THEN {} ELSE {"unchecked"}
               Because(x, reading) == {"own", "time"} \cup Blind(reading) \cup Unchecked(x)
    <2>1. PICK x \in UserScript, reading \in {pods, Nothing} :
              /\ at' = [at EXCEPT ![s] = "own"] /\ Valid(x, reading) /\ Moves
              /\ spec' = [spec EXCEPT ![s] = x]
              /\ why' = [why EXCEPT ![s] = Because(x, reading)]
              /\ UNCHANGED <<pods, stats, again, active, clean, script, template, resizes>>
        BY <1>8 DEF OwnScript, Readings, Goes
    <2>2. x \in Sbatch /\ x \in Request
        BY SizingAssumption DEF Request
    <2> DEFINE reasons == Because(x, reading)
    <2>3. reading = Nothing \/ x.checked # x.pods \/ x.pods <= pods
        BY <1>1, <2>1 DEF Valid, Ceiling, Known
    <2>4. /\ reasons \in SUBSET Reasons /\ "own" \in reasons /\ "time" \in reasons
          /\ reading = Nothing => "blind" \in reasons
          /\ x.checked # x.pods => "unchecked" \in reasons
        BY DEF Reasons, Blind, Known
    <2> HIDE DEF Because
    <2>5. /\ UNCHANGED <<pods, stats, active, clean, script, template, resizes>>
          /\ again' = [again EXCEPT ![s] = Nothing] /\ why' = [why EXCEPT ![s] = reasons]
        BY <1>3, <2>1
    <2> HIDE DEF reasons
    <2>6. /\ reasons \subseteq {"time"} => SizedFor(x, pods)
          /\ reasons \subseteq {"own", "time"} => x.pods <= pods
          /\ "time" \notin reasons => x.minutes <= WallMinutes
        BY <2>3, <2>4
    <2>7. /\ Moves /\ at' = [at EXCEPT ![s] = "own"] /\ spec' = [spec EXCEPT ![s] = x]
        BY <2>1
    <2> HIDE DEF Moves
    <2>8. QED
        BY <2>2, <2>4, <2>5, <2>6, <2>7, SpecChanges
<1>9. QED
    BY <1>4, <1>5, <1>6, <1>7, <1>8 DEF Intake
LEMMA HubKeeps == ASSUME SizingInv, NEW s \in Session, Hub(s) PROVE SizingInv'
<1>1. /\ pods \in Splits /\ pods \in Nat \ {0} /\ pods # Nothing
      /\ why[s] \in SUBSET Reasons /\ stats[s] \in Splits \cup {Nothing}
      /\ at[s] \in {"hub", "choose", "submit"} => spec[s] \in LaunchSpec
    BY SizingAssumption DEF SizingInv, SizingTypeOK, InWizard
<1>2. at[s] # "idle" => /\ why[s] \subseteq {"time"} => SizedFor(spec[s], pods)
                        /\ why[s] \subseteq {"own", "time"} => spec[s].pods <= pods
                        /\ "time" \notin why[s] => spec[s].minutes <= WallMinutes
    BY DEF SizingInv, SizedByPods, PodsAreThere, TimeIsAllowed
<1> HIDE DEF SizingInv, LaunchSpec, Sbatch, Request, SizedFor, Edits, ApplyPods, Sized
<1>3. CASE EditPods(s)
    <2>1. PICK k \in 1..PodCount(stats[s]) :
              Edits(s, ApplyPods(spec[s], k, stats[s]),
                    (why[s] \cap {"time"}) \cup IF stats[s] = pods THEN {} ELSE {"resized"})
        BY <1>3 DEF EditPods
    <2>2. at[s] = "choose" /\ stats[s] # Nothing /\ stats[s] \in Nat \ {0}
        BY <1>1, <1>3, SizingAssumption DEF EditPods, Known
    <2>3. k \in Nat
        BY <2>2 DEF PodCount, Known
    <2> DEFINE reasons == (why[s] \cap {"time"}) \cup IF stats[s] = pods THEN {} ELSE {"resized"}
               ls == ApplyPods(spec[s], k, stats[s])
    <2>4. /\ reasons \in SUBSET Reasons /\ (stats[s] # pods => "resized" \in reasons)
          /\ "time" \notin reasons => "time" \notin why[s]
        BY <1>1 DEF Reasons
    <2>5. ls \in LaunchSpec /\ ls.minutes = spec[s].minutes
        BY <1>1, <2>2, <2>3, SizedIs DEF ApplyPods, Known
    <2>6. stats[s] = pods => SizedFor(ls, pods) /\ ls.pods <= pods
        BY <1>1, <2>2, <2>3, ApplyPodsIs
    <2> HIDE DEF reasons, ls
    <2>7. Edits(s, ls, reasons)
        BY <2>1 DEF ls, reasons
    <2>8. QED
        BY <1>2, <2>2, <2>4, <2>5, <2>6, <2>7, EditsKeeps
<1>4. CASE EditTime(s)
    <2>1. PICK t \in Minutes : /\ at[s] = "choose" /\ TimeAllowed(t)
                               /\ Edits(s, [spec[s] EXCEPT !.minutes = t], why[s] \ {"time"})
        BY <1>4 DEF EditTime
    <2> DEFINE ls == [spec[s] EXCEPT !.minutes = t]
               reasons == why[s] \ {"time"}
    <2>2. /\ ls \in LaunchSpec /\ ls.minutes = t /\ ls.pods = spec[s].pods
          /\ ls.cpus = spec[s].cpus /\ ls.mem = spec[s].mem
        BY <1>1, <2>1, SizingAssumption DEF LaunchSpec
    <2>3. t <= WallMinutes
        BY <2>1 DEF TimeAllowed
    <2>4. reasons \in SUBSET Reasons /\ \A x \in why[s] : x \in reasons \/ x = "time"
        BY <1>1
    <2> HIDE DEF ls, reasons
    <2>5. SizedFor(spec[s], pods) => SizedFor(ls, pods)
        BY <1>1, <2>1, <2>2, SizedForIs
    <2>6. Edits(s, ls, reasons)
        BY <2>1 DEF ls, reasons
    <2>7. /\ reasons \subseteq {"time"} => why[s] \subseteq {"time"}
          /\ reasons \subseteq {"own", "time"} => why[s] \subseteq {"own", "time"}
        BY <2>4
    <2>8. QED
        BY <1>2, <2>1, <2>2, <2>3, <2>4, <2>5, <2>6, <2>7, EditsKeeps
<1>5. CASE EditEnv(s)
    <2>1. PICK env \in Envs : /\ at[s] = "choose"
                              /\ Edits(s, [spec[s] EXCEPT !.env = env], why[s])
        BY <1>5 DEF EditEnv
    <2> DEFINE ls == [spec[s] EXCEPT !.env = env]
    <2>2. /\ ls \in LaunchSpec /\ ls.minutes = spec[s].minutes /\ ls.pods = spec[s].pods
          /\ ls.cpus = spec[s].cpus /\ ls.mem = spec[s].mem
        BY <1>1, <2>1 DEF LaunchSpec
    <2> HIDE DEF ls
    <2>3. SizedFor(spec[s], pods) => SizedFor(ls, pods)
        BY <1>1, <2>1, <2>2, SizedForIs
    <2>4. Edits(s, ls, why[s])
        BY <2>1 DEF ls
    <2>5. QED
        BY <1>1, <1>2, <2>1, <2>2, <2>3, <2>4, EditsKeeps
<1>6. CASE ReadNode(s) \/ SaveTemplate(s) \/ Launch(s)
    <2> USE <1>6 DEF ReadNode, SaveTemplate, Launch, Goes, SizingInv
    <2>1. moves' \in 0..MaxMoves
        BY SizingAssumption DEF Moves, SizingTypeOK
    <2>a. template' \in LaunchSpec \cup {Nothing}
        BY <1>1 DEF SizingTypeOK
    <2>2. SizingTypeOK'
        BY <1>1, <2>a, <2>1 DEF SizingTypeOK, Stages, Readings
    <2>3. /\ at[s] \in {"hub", "choose"} /\ at'[s] \in {"hub", "choose", "submit"}
          /\ \A r \in Session \ {s} : at'[r] = at[r]
        BY DEF SizingTypeOK
    <2>4. UNCHANGED <<pods, spec, why, again, active, clean>>
        OBVIOUS
    <2>5. InWizard' /\ SizedByPods' /\ CleanBySplit'
        BY <2>3, <2>4 DEF InWizard, SizedByPods, CleanBySplit
    <2>6. PodsAreThere' /\ TimeIsAllowed'
        BY <2>3, <2>4 DEF PodsAreThere, TimeIsAllowed
    <2>7. QED
        BY <2>2, <2>5, <2>6
<1>7. CASE Cancel(s)
    <2> USE <1>7 DEF Cancel, Leaves, SizingInv
    <2>1. SizingTypeOK'
        BY DEF SizingTypeOK, Stages
    <2>2. /\ at'[s] = "idle" /\ again'[s] = Nothing
          /\ \A r \in Session \ {s} : /\ at'[r] = at[r] /\ spec'[r] = spec[r]
                                      /\ why'[r] = why[r] /\ again'[r] = again[r]
        BY DEF SizingTypeOK
    <2>3. UNCHANGED <<pods, active, clean>>
        OBVIOUS
    <2>4. InWizard' /\ SizedByPods' /\ CleanBySplit'
        BY <2>2, <2>3 DEF InWizard, SizedByPods, CleanBySplit
    <2>5. PodsAreThere' /\ TimeIsAllowed'
        BY <2>2, <2>3 DEF PodsAreThere, TimeIsAllowed
    <2>6. QED
        BY <2>1, <2>4, <2>5
<1>8. QED
    BY <1>3, <1>4, <1>5, <1>6, <1>7 DEF Hub
(* A session that leaves the wizard, and at most one more job.             *)
LEMMA LeavesKeeps ==
    ASSUME SizingInv, NEW s \in Session, Leaves(s), UNCHANGED <<pods, template, resizes, moves>>,
           active' \in [Job -> Request \cup {Nothing}], script' \in [Session -> Sbatch \cup {Nothing}],
           clean' \subseteq Job, CleanBySplit'
    PROVE  SizingInv'
<1> USE DEF SizingInv, Leaves
<1> HIDE DEF LaunchSpec, Sbatch, Request, SizedFor
<1>1. SizingTypeOK'
    BY DEF SizingTypeOK, Stages
<1>2. /\ at'[s] = "idle" /\ again'[s] = Nothing
      /\ \A r \in Session \ {s} : /\ at'[r] = at[r] /\ spec'[r] = spec[r]
                                  /\ why'[r] = why[r] /\ again'[r] = again[r]
    BY DEF SizingTypeOK
<1>3. InWizard' /\ PodsAreThere' /\ TimeIsAllowed' /\ SizedByPods'
    BY <1>2 DEF InWizard, PodsAreThere, TimeIsAllowed, SizedByPods
<1>4. QED
    BY <1>1, <1>3

LEMMA SubmitKeeps ==
    ASSUME SizingInv, NEW s \in Session, Submit(s) \/ SubmitOwn(s)
    PROVE  SizingInv'
<1> USE DEF SizingInv
<1>1. /\ active \in [Job -> Request \cup {Nothing}] /\ clean \subseteq Job
      /\ script \in [Session -> Sbatch \cup {Nothing}] /\ CleanBySplit
    BY DEF SizingTypeOK
<1>2. Leaves(s) /\ UNCHANGED <<pods, template, resizes, moves>>
    BY DEF Submit, SubmitOwn
<1>3. CASE UNCHANGED <<active, clean, script>>
    <2>1. CleanBySplit'
        BY <1>1, <1>2, <1>3 DEF CleanBySplit
    <2>2. QED
        BY <1>1, <1>2, <1>3, <2>1, LeavesKeeps
(* A job that enters the queue takes the place of none.                    *)
<1>4. ASSUME NEW j \in Job, Enters(spec[s], j), spec[s] \in Request
      PROVE  /\ active' \in [Job -> Request \cup {Nothing}] /\ j \notin clean
             /\ active'[j] = spec[s] /\ \A k \in clean : active'[k] = active[k]
    <2> HIDE DEF LaunchSpec, Sbatch, Request, SizedFor
    <2>1. active[j] = Nothing /\ active' = [active EXCEPT ![j] = spec[s]]
        BY <1>4 DEF Enters
    <2>2. Nothing \notin LaunchSpec
        BY SizingAssumption DEF Request
    <2>3. j \notin clean
        BY <1>1, <2>1, <2>2 DEF CleanBySplit
    <2>4. QED
        BY <1>1, <1>4, <2>1, <2>3
<1>5. ASSUME NEW j \in Job, at[s] = "submit", Enters(spec[s], j),
             clean' = IF why[s] \subseteq {"time"} THEN clean \cup {j} ELSE clean,
             script' = IF spec[s].intent = "shell" THEN script
                       ELSE [script EXCEPT ![s] = Rendered(spec[s])]
      PROVE  SizingInv'
    <2>1. spec[s] \in LaunchSpec /\ spec[s] \in Request
        BY <1>5 DEF InWizard, Request
    <2>2. Rendered(spec[s]) \in Sbatch
        BY <2>1 DEF Rendered, NotFound, LaunchSpec, Sbatch
    <2>3. why[s] \subseteq {"time"} => SizedFor(spec[s], pods)
        BY <1>5 DEF SizedByPods
    <2> HIDE DEF LaunchSpec, Sbatch, Request, SizedFor, Rendered, SizingInv
    <2>4. /\ active' \in [Job -> Request \cup {Nothing}] /\ active'[j] = spec[s]
          /\ \A k \in clean : active'[k] = active[k]
        BY <1>4, <1>5, <2>1
    <2>5. CleanBySplit'
        BY <1>1, <1>2, <1>5, <2>1, <2>3, <2>4 DEF CleanBySplit
    <2>6. clean' \subseteq Job /\ script' \in [Session -> Sbatch \cup {Nothing}]
        BY <1>1, <1>5, <2>2
    <2>7. QED
        BY <1>2, <2>4, <2>5, <2>6, LeavesKeeps
<1>6. ASSUME NEW j \in Job, at[s] = "own", Enters(spec[s], j), clean' = clean,
             script' = [script EXCEPT ![s] = spec[s]]
      PROVE  SizingInv'
    <2>1. spec[s] \in Sbatch /\ spec[s] \in Request
        BY <1>6 DEF InWizard, Request
    <2> HIDE DEF LaunchSpec, Sbatch, Request, SizedFor, SizingInv
    <2>2. active' \in [Job -> Request \cup {Nothing}] /\ \A k \in clean : active'[k] = active[k]
        BY <1>4, <1>6, <2>1
    <2>3. CleanBySplit'
        BY <1>1, <1>2, <1>6, <2>2 DEF CleanBySplit
    <2>4. script' \in [Session -> Sbatch \cup {Nothing}]
        BY <1>1, <1>6, <2>1
    <2>5. QED
        BY <1>1, <1>2, <1>6, <2>2, <2>3, <2>4, LeavesKeeps
<1> HIDE DEF SizingInv
<1>7. CASE Submit(s)
    BY <1>3, <1>5, <1>7 DEF Submit
<1>8. CASE SubmitOwn(s)
    BY <1>3, <1>6, <1>8 DEF SubmitOwn
<1>9. QED
    BY <1>7, <1>8

LEMMA JobEndsKeeps == ASSUME SizingInv, NEW j \in Job, JobEnds(j) PROVE SizingInv'
<1> USE DEF SizingInv, JobEnds
<1> HIDE DEF LaunchSpec, Sbatch, Request, SizedFor
<1>1. SizingTypeOK'
    BY DEF SizingTypeOK
<1>2. InWizard' /\ SizedByPods' /\ PodsAreThere' /\ TimeIsAllowed'
    BY DEF InWizard, SizedByPods, PodsAreThere, TimeIsAllowed
<1>3. \A k \in Job \ {j} : active'[k] = active[k]
    BY DEF SizingTypeOK
<1>4. CleanBySplit'
    BY <1>3 DEF CleanBySplit, SizingTypeOK
<1>5. QED
    BY <1>1, <1>2, <1>4

LEMMA ResizePodsKeeps == ASSUME SizingInv, ResizePods PROVE SizingInv'
<1> USE DEF SizingInv
<1> HIDE DEF LaunchSpec, Sbatch, Request, SizedFor
<1>1. PICK n \in Splits :
          /\ \A j \in Job : active[j] = Nothing
          /\ resizes < MaxResizes /\ resizes' = resizes + 1 /\ pods' = n
          /\ why' = [s \in Session |-> IF at[s] = "idle" THEN {} ELSE why[s] \cup {"resized"}]
          /\ UNCHANGED <<at, spec, stats, again, active, clean, script, template, moves>>
    BY DEF ResizePods
<1>2. resizes' \in 0..MaxResizes
    BY <1>1, SizingAssumption DEF SizingTypeOK
<1>3. why' \in [Session -> SUBSET Reasons]
    BY <1>1 DEF SizingTypeOK, Reasons
<1>4. SizingTypeOK'
    BY <1>1, <1>2, <1>3 DEF SizingTypeOK
<1>5. /\ clean = {} /\ clean' = {}
      /\ \A s \in Session : at'[s] # "idle" =>
            "resized" \in why'[s] /\ ("time" \notin why'[s] => "time" \notin why[s])
    <2>1. Nothing \notin LaunchSpec
        BY SizingAssumption DEF Request
    <2>2. QED
        BY <1>1, <2>1 DEF CleanBySplit, SizingTypeOK
<1>6. InWizard' /\ CleanBySplit'
    BY <1>1, <1>5 DEF InWizard, CleanBySplit, SizingTypeOK
<1>7. SizedByPods' /\ PodsAreThere' /\ TimeIsAllowed'
    BY <1>1, <1>5 DEF SizedByPods, PodsAreThere, TimeIsAllowed
<1>8. QED
    BY <1>4, <1>6, <1>7

(* The types hold, and a launch whose sizes come from a reading that still *)
(* holds, and the job it becomes, ask for exactly the CPUs and the memory  *)
(* of its pods (apply_pods, from_template, from_rerun, _edit_pods).        *)
THEOREM SizesFollowPods == SizingSpec => []SizingInv
<1>1. SizingInit => SizingInv
    <2> SUFFICES ASSUME SizingInit PROVE SizingInv
        OBVIOUS
    <2> USE DEF SizingInit
    <2> HIDE DEF LaunchSpec, Sbatch, Request, SizedFor
    <2>1. SizingTypeOK
        BY SizingAssumption DEF SizingTypeOK, Stages, Reasons
    <2>2. InWizard /\ SizedByPods /\ CleanBySplit /\ PodsAreThere /\ TimeIsAllowed
        BY DEF InWizard, SizedByPods, CleanBySplit, PodsAreThere, TimeIsAllowed
    <2>3. QED
        BY <2>1, <2>2 DEF SizingInv
<1>2. SizingInv /\ [SizingNext]_sizingVars => SizingInv'
    <2> SUFFICES ASSUME SizingInv, [SizingNext]_sizingVars PROVE SizingInv'
        OBVIOUS
    <2>1. CASE UNCHANGED sizingVars
        BY <2>1 DEF sizingVars, SizingInv, SizingTypeOK, InWizard, SizedByPods, CleanBySplit,
           PodsAreThere, TimeIsAllowed
    <2>2. CASE SizingNext
        BY <2>2, IntakeKeeps, HubKeeps, SubmitKeeps, JobEndsKeeps, ResizePodsKeeps DEF SizingNext
    <2>3. QED
        BY <2>1, <2>2
<1>3. QED
    BY <1>1, <1>2, PTL DEF SizingSpec

LEMMA RerunStep == SizingInv /\ RerunRepeats /\ [SizingNext]_sizingVars => RerunRepeats'
<1> SUFFICES ASSUME SizingInv, RerunRepeats, [SizingNext]_sizingVars PROVE RerunRepeats'
    OBVIOUS
<1>1. /\ pods \in Splits /\ at \in [Session -> Stages]
      /\ spec \in [Session -> Request \cup {Nothing}]
      /\ again \in [Session -> Sbatch \cup {Nothing}]
      /\ script \in [Session -> Sbatch \cup {Nothing}]
      /\ \A s \in Session : at[s] = "idle" => again[s] = Nothing
    BY DEF SizingInv, SizingTypeOK, InWizard
<1> HIDE DEF Repeats, Request, Sbatch, SizingInv
(* Nothing is run again by s itself, and the others go on.                 *)
<1>2. ASSUME NEW s \in Session, again'[s] = Nothing,
             \A r \in Session \ {s} : /\ at'[r] = at[r] /\ spec'[r] = spec[r]
                                      /\ again'[r] = again[r]
      PROVE  RerunRepeats'
    BY <1>2 DEF RerunRepeats
<1>3. ASSUME UNCHANGED <<spec, again>>, \A r \in Session : at'[r] # "idle" => at[r] # "idle"
      PROVE  RerunRepeats'
    BY <1>3 DEF RerunRepeats
<1>4. ASSUME NEW s \in Session, Fresh(s) \/ FineTune(s) \/ LoadTemplate(s) \/ OwnScript(s)
      PROVE  RerunRepeats'
    <2>1. at[s] = "idle" /\ UNCHANGED again
        BY <1>4 DEF Fresh, FineTune, LoadTemplate, OwnScript, Starts, Goes
    <2>2. \A r \in Session \ {s} : at'[r] = at[r] /\ spec'[r] = spec[r]
        BY <1>1, <1>4 DEF Fresh, FineTune, LoadTemplate, OwnScript, Starts, Goes
    <2>3. QED
        BY <1>1, <1>2, <2>1, <2>2
<1>5. ASSUME NEW s \in Session, Rerun(s) PROVE RerunRepeats'
    <2>1. PICK reading \in {pods, Nothing} :
              /\ script[s] # Nothing
              /\ Starts(s, FromRerun(script[s], reading), {"stored", "time"})
              /\ again' = [again EXCEPT ![s] = script[s]]
        BY <1>5 DEF Rerun, Readings
    <2>2. Repeats(FromRerun(script[s], reading), script[s])
        BY <1>1, <2>1, RerunIs
    <2>3. /\ at' = [at EXCEPT ![s] = "hub"]
          /\ spec' = [spec EXCEPT ![s] = FromRerun(script[s], reading)]
        BY <2>1 DEF Starts, Goes
    <2> HIDE DEF FromRerun
    <2>4. QED
        BY <1>1, <2>1, <2>2, <2>3 DEF RerunRepeats
<1>6. ASSUME NEW s \in Session, EditPods(s) \/ EditTime(s) \/ EditEnv(s) PROVE RerunRepeats'
    <2>1. PICK ls, reasons : Edits(s, ls, reasons)
        BY <1>6 DEF EditPods, EditTime, EditEnv
    <2>2. QED
        BY <1>1, <1>2, <2>1 DEF Edits, Goes
<1>7. ASSUME NEW s \in Session, Cancel(s) \/ Submit(s) \/ SubmitOwn(s) PROVE RerunRepeats'
    <2>1. Leaves(s)
        BY <1>7 DEF Cancel, Submit, SubmitOwn
    <2>2. QED
        BY <1>1, <1>2, <2>1 DEF Leaves
<1>8. ASSUME NEW s \in Session, ReadNode(s) \/ SaveTemplate(s) \/ Launch(s) PROVE RerunRepeats'
    <2>1. UNCHANGED <<spec, again>> /\ at[s] # "idle"
        BY <1>8 DEF ReadNode, SaveTemplate, Launch, Goes
    <2>2. \A r \in Session \ {s} : at'[r] = at[r]
        BY <1>1, <1>8 DEF ReadNode, SaveTemplate, Launch, Goes
    <2>3. QED
        BY <1>3, <2>1, <2>2
<1>9. CASE ResizePods \/ (\E j \in Job : JobEnds(j)) \/ UNCHANGED sizingVars
    <2>1. UNCHANGED <<at, spec, again>>
        BY <1>9 DEF ResizePods, JobEnds, sizingVars
    <2>2. QED
        BY <1>3, <2>1
<1>10. QED
    BY <1>4, <1>5, <1>6, <1>7, <1>8, <1>9 DEF SizingNext, Intake, Hub

(* A job that is run again unedited asks for all that _parse_sbatch finds  *)
(* in its script, whoever wrote that and however the node is split now     *)
(* (from_rerun).                                                           *)
THEOREM RunAgain == SizingSpec => []RerunRepeats
<1>1. SizingInit => RerunRepeats
    BY DEF SizingInit, RerunRepeats
<1>2. QED
    BY <1>1, RerunStep, SizesFollowPods, PTL DEF SizingSpec

(* The shares of k of n pods are within the whole.                         *)
LEMMA SharesFit ==
    ASSUME NEW whole \in Nat, NEW n \in Nat \ {0}, NEW k \in 0..n
    PROVE  (whole \div n) * k <= whole
<1> DEFINE q == whole \div n
<1>1. q \in Nat /\ n * q <= whole
    OBVIOUS
<1> HIDE DEF q
<1>2. q * k <= q * n
    BY <1>1
<1>3. q * n = n * q /\ q * k \in Nat /\ q * n \in Nat
    BY <1>1
<1>4. QED
    BY <1>1, <1>2, <1>3 DEF q

(* What is submitted can run, if neither its sizes nor its time come from  *)
(* somewhere else than a valid reading and the hub (_edit_pods,            *)
(* _edit_time, validate_sbatch).                                           *)
THEOREM LaunchesFit == SizingSpec => []LaunchFits
<1>1. SizingInv => LaunchFits
    <2> SUFFICES ASSUME SizingInv, NEW s \in Session, at[s] \in {"submit", "own"},
                        why[s] \subseteq {"time"}, Fits(pods)
                 PROVE  spec[s].cpus <= Cpus /\ spec[s].mem <= Usable
        BY DEF LaunchFits, SizingInv, PodsAreThere, TimeIsAllowed
    <2>1. spec[s] \in LaunchSpec /\ pods \in Nat \ {0} /\ Cpus \in Nat /\ Usable \in Nat
        BY SizingAssumption DEF SizingInv, SizingTypeOK, InWizard, Usable, Headroom
    <2>2. SizedFor(spec[s], pods)
        BY DEF SizingInv, SizedByPods
    <2>3. /\ spec[s].pods \in 1..pods
          /\ spec[s].cpus = PodResources(pods).cpus * spec[s].pods
          /\ spec[s].mem = PodResources(pods).mem * spec[s].pods
        BY <2>1, <2>2, SizedForIs
    <2>4. PodResources(pods).cpus = Cpus \div pods /\ PodResources(pods).mem = Usable \div pods
        BY <2>1 DEF Fits, PodResources, AtLeast1
    <2>5. spec[s].pods \in 0..pods
        BY <2>1, <2>3
    <2>6. /\ (Cpus \div pods) * spec[s].pods <= Cpus
          /\ (Usable \div pods) * spec[s].pods <= Usable
        BY <2>1, <2>5, SharesFit
    <2>7. QED
        BY <2>3, <2>4, <2>6
<1>2. QED
    BY <1>1, SizesFollowPods, PTL

-------------------------------------------------------------------------------
(* Sizing: sums over a set of jobs.  What holds for every set is shown by  *)
(* looking at a smallest one for which it would not.                       *)

Pick(js) == CHOOSE s \in js : TRUE

(* One step of the sum over js that MapThenSumSet makes, from what f gives *)
(* for smaller sets.                                                       *)
Adds(asked, field, f, js) ==
    IF js = {} THEN 0 ELSE asked[Pick(js)][field] + f[js \ {Pick(js)}]
Sum(asked, field, all) ==
    CHOOSE f : f = [js \in SUBSET all |-> Adds(asked, field, f, js)]

LEMMA TotalIsSum ==
    ASSUME NEW asked, NEW field, NEW js
    PROVE  Total(asked, field, js) = Sum(asked, field, js)[js]
BY DEF Total, MapThenSumSet, MapThenFoldSet, Sum, Adds, Pick

LEMMA LeastNatural ==
    ASSUME NEW N \in SUBSET Nat, N # {}
    PROVE  \E n \in N : \A m \in N : n <= m
<1> DEFINE R == {r \in Nat \X Nat : r[1] < r[2]}
<1>1. IsWellFoundedOn(R, Nat)
    BY NatLessThanWellFounded DEF OpToRel
<1> HIDE DEF R
<1>2. PICK n \in N : \A m \in N : <<m, n>> \notin R
    BY <1>1, WFMin
<1>3. ASSUME NEW m \in N PROVE n <= m
    <2>1. m \in Nat /\ n \in Nat /\ <<m, n>> \notin R
        BY <1>2
    <2>2. ~(m < n)
        BY <2>1 DEF R
    <2>3. QED
        BY <2>1, <2>2
<1>4. QED
    BY <1>3

LEMMA LeastSet ==
    ASSUME NEW all, IsFiniteSet(all), NEW T \in SUBSET SUBSET all, T # {}
    PROVE  \E js \in T : \A s \in js : js \ {s} \notin T
<1>1. IsWellFoundedOn(StrictSubsetOrdering(all), SUBSET all)
    BY FS_StrictSubsetOrderingWellFounded, FS_FiniteSubsetsOfFinite
<1>2. PICK js \in T : \A ks \in T : <<ks, js>> \notin StrictSubsetOrdering(all)
    BY <1>1, WFMin
<1>3. QED
    BY <1>2 DEF StrictSubsetOrdering

LEMMA SumExists ==
    ASSUME NEW all, IsFiniteSet(all), NEW asked, NEW field, \A s \in all : asked[s][field] \in Nat
    PROVE  \A js \in SUBSET all :
              Sum(asked, field, all)[js] = Adds(asked, field, Sum(asked, field, all), js)
<1> DEFINE Holds(f, n) == \A js \in SUBSET all :
                              Cardinality(js) <= n => f[js] = Adds(asked, field, f, js)
           F == [SUBSET all -> Nat]
           Bad == {n \in Nat : ~ \E f \in F : Holds(f, n)}
<1>1. \A js \in SUBSET all : IsFiniteSet(js) /\ Cardinality(js) \in Nat
    BY FS_Subset, FS_CardinalityType
<1>2. \A js \in SUBSET all : js # {} =>
          /\ Pick(js) \in all /\ js \ {Pick(js)} \in SUBSET all /\ asked[Pick(js)][field] \in Nat
          /\ Cardinality(js) # 0 /\ Cardinality(js \ {Pick(js)}) = Cardinality(js) - 1
    BY <1>1, FS_RemoveElement, FS_EmptySet DEF Pick
<1>3. Bad = {}
    <2> SUFFICES ASSUME Bad # {} PROVE FALSE
        OBVIOUS
    <2>1. PICK n \in Bad : \A m \in Bad : n <= m
        BY LeastNatural
    <2>2. CASE n = 0
        <3> DEFINE f == [js \in SUBSET all |-> 0]
        <3>1. \A js \in SUBSET all : Cardinality(js) <= 0 => js = {}
            <4> SUFFICES ASSUME NEW js \in SUBSET all, Cardinality(js) <= 0 PROVE js = {}
                OBVIOUS
            <4>1. Cardinality(js) = 0
                BY <1>1
            <4>2. QED
                BY <1>1, <4>1, FS_EmptySet
        <3>2. Holds(f, 0) /\ f \in F
            BY <3>1 DEF Adds
        <3>3. QED
            BY <2>1, <2>2, <3>2
    <2>3. CASE n # 0
        <3>1. n \in Nat /\ n - 1 \in Nat /\ n - 1 \notin Bad
            <4>1. n \in Nat /\ n - 1 \in Nat /\ ~(n <= n - 1)
                BY <2>1, <2>3
            <4> HIDE DEF Bad
            <4>2. QED
                BY <2>1, <4>1
        <3>2. PICK f \in F : Holds(f, n - 1)
            BY <3>1
        <3> DEFINE g == [js \in SUBSET all |-> IF Cardinality(js) = n THEN Adds(asked, field, f, js)
                                                                ELSE f[js]]
        <3>3. g \in F
            <4>1. ASSUME NEW js \in SUBSET all PROVE Adds(asked, field, f, js) \in Nat
                <5>1. CASE js = {}
                    BY <5>1 DEF Adds
                <5>2. CASE js # {}
                    <6>1. f[js \ {Pick(js)}] \in Nat
                        BY <1>2, <5>2
                    <6>2. Adds(asked, field, f, js) = asked[Pick(js)][field] + f[js \ {Pick(js)}]
                        BY <5>2 DEF Adds
                    <6>3. asked[Pick(js)][field] \in Nat
                        BY <1>2, <5>2
                    <6>4. QED
                        BY <6>1, <6>2, <6>3
                <5>3. QED
                    BY <5>1, <5>2
            <4>2. QED
                BY <4>1
        <3>4. ASSUME NEW js \in SUBSET all, Cardinality(js) <= n
              PROVE  g[js] = Adds(asked, field, g, js)
            <4>1. Cardinality(js) # n => f[js] = Adds(asked, field, f, js)
                BY <1>1, <3>1, <3>2, <3>4
            <4>2. g[js] = Adds(asked, field, f, js)
                BY <4>1
            <4>3. js # {} => g[js \ {Pick(js)}] = f[js \ {Pick(js)}]
                BY <1>1, <1>2, <3>1, <3>4
            <4>4. QED
                BY <4>2, <4>3 DEF Adds
        <3>5. Holds(g, n)
            BY <3>4
        <3>6. QED
            BY <2>1, <3>3, <3>5
    <2>4. QED
        BY <2>2, <2>3
<1>4. PICK f \in F : Holds(f, Cardinality(all))
    BY <1>1, <1>3
<1>5. \A js \in SUBSET all : f[js] = Adds(asked, field, f, js)
    BY <1>4, FS_Subset
<1>6. f = [js \in SUBSET all |-> Adds(asked, field, f, js)]
    BY <1>5
<1>7. Sum(asked, field, all) = [js \in SUBSET all |-> Adds(asked, field, Sum(asked, field, all), js)]
    BY <1>6 DEF Sum
<1> HIDE DEF Sum, Adds
<1>8. QED
    BY <1>7

(* Jobs that each ask for the same share of every pod ask together for     *)
(* that share of their pods.                                               *)
LEMMA TotalsAgree ==
    ASSUME NEW all, IsFiniteSet(all), NEW asked, NEW field, NEW share \in Nat,
           \A s \in all : asked[s].pods \in Nat /\ asked[s][field] = share * asked[s].pods
    PROVE  /\ Total(asked, "pods", all) \in Nat
           /\ Total(asked, field, all) = share * Total(asked, "pods", all)
<1> DEFINE P == Sum(asked, "pods", all)
           F == Sum(asked, field, all)
           Bad == {js \in SUBSET all : ~(P[js] \in Nat /\ F[js] = share * P[js])}
<1>1. \A s \in all : asked[s].pods \in Nat /\ asked[s][field] \in Nat
    OBVIOUS
<1>2. \A js \in SUBSET all : P[js] = Adds(asked, "pods", P, js)
    BY <1>1, SumExists
<1>3. \A js \in SUBSET all : F[js] = Adds(asked, field, F, js)
    BY <1>1, SumExists
<1>4. \A js \in SUBSET all : js # {} => Pick(js) \in js
    BY DEF Pick
<1> HIDE DEF P, F
<1>5. Bad = {}
    <2> SUFFICES ASSUME Bad # {} PROVE FALSE
        OBVIOUS
    <2>1. PICK js \in Bad : \A s \in js : js \ {s} \notin Bad
        BY LeastSet
    <2>2. js \in SUBSET all /\ ~(P[js] \in Nat /\ F[js] = share * P[js])
        BY <2>1
    <2>3. CASE js = {}
        <3>1. P[js] = 0 /\ F[js] = 0
            BY <1>2, <1>3, <2>2, <2>3 DEF Adds
        <3>2. QED
            BY <2>2, <3>1
    <2>4. CASE js # {}
        <3> DEFINE s == Pick(js)
                   p == P[js \ {s}]
        <3>1. s \in js /\ s \in all /\ js \ {s} \in SUBSET all
            BY <1>4, <2>2, <2>4
        <3>2. p \in Nat /\ F[js \ {s}] = share * p
            BY <2>1, <3>1
        <3>3. P[js] = asked[s].pods + p /\ F[js] = asked[s][field] + share * p
            BY <1>2, <1>3, <2>2, <2>4, <3>2 DEF Adds
        <3>4. asked[s].pods \in Nat /\ asked[s][field] = share * asked[s].pods
            BY <3>1
        <3> HIDE DEF s, p
        <3>5. share * (asked[s].pods + p) = share * asked[s].pods + share * p
            BY <3>2, <3>4
        <3>6. QED
            BY <2>2, <3>2, <3>3, <3>4, <3>5
    <2>5. QED
        BY <2>3, <2>4
<1>6. all \in SUBSET all /\ P[all] \in Nat /\ F[all] = share * P[all]
    BY <1>5
<1>7. Total(asked, "pods", all) = P[all] /\ Total(asked, field, all) = F[all]
    BY TotalIsSum DEF P, F
<1>8. QED
    BY <1>6, <1>7

(* Jobs sized by the present split whose pods fit the node together fit it *)
(* in CPUs and memory too (pod_resources, fits_new_pod_count).             *)
THEOREM PodsSuffice == SizingSpec => []PodsAreEnough
<1>1. SizingInv => PodsAreEnough
    <2> SUFFICES ASSUME SizingInv, Fits(pods), NEW js \in SUBSET clean,
                        Total(active, "pods", js) <= pods
                 PROVE  Total(active, "cpus", js) <= Cpus /\ Total(active, "mem", js) <= Usable
        BY DEF PodsAreEnough
    <2>1. pods \in Nat \ {0} /\ Cpus \in Nat /\ Usable \in Nat
        BY SizingAssumption DEF SizingInv, SizingTypeOK, Usable, Headroom
    <2>2. IsFiniteSet(js)
        BY SizingAssumption, FS_Subset DEF SizingInv, SizingTypeOK
    <2>3. PodResources(pods).cpus = Cpus \div pods /\ PodResources(pods).mem = Usable \div pods
        BY <2>1 DEF Fits, PodResources, AtLeast1
    <2>4. Cpus \div pods \in Nat /\ Usable \div pods \in Nat
        BY <2>1
    <2>5. ASSUME NEW j \in js
          PROVE  /\ active[j].pods \in Nat
                 /\ active[j].cpus = (Cpus \div pods) * active[j].pods
                 /\ active[j].mem = (Usable \div pods) * active[j].pods
        <3>1. active[j] \in LaunchSpec /\ SizedFor(active[j], pods)
            BY DEF SizingInv, CleanBySplit
        <3>2. active[j].pods \in Nat
            BY <3>1 DEF LaunchSpec
        <3>3. QED
            BY <2>1, <2>3, <3>1, <3>2, SizedForIs
    <2>6. /\ Total(active, "pods", js) \in Nat
          /\ Total(active, "cpus", js) = (Cpus \div pods) * Total(active, "pods", js)
        BY <2>2, <2>4, <2>5, TotalsAgree
    <2>7. Total(active, "mem", js) = (Usable \div pods) * Total(active, "pods", js)
        BY <2>2, <2>4, <2>5, TotalsAgree
    <2>8. Total(active, "pods", js) \in 0..pods
        BY <2>1, <2>6
    <2>9. QED
        BY <2>1, <2>6, <2>7, <2>8, SharesFit
<1>2. QED
    BY <1>1, SizesFollowPods, PTL
===============================================================================
