---------------------------- MODULE SubmissionProofs ----------------------------
(***************************************************************************)
(* The two components about a submission: Launch, up to the job and its    *)
(* folder, and Notebook, from the job to the card that the user is shown.  *)
(* Each has its inductive invariant and what follows from it, for every    *)
(* set of launches and every assignment of users and job names to them,    *)
(* and for every set of jobs and ports.                                    *)
(***************************************************************************)
EXTENDS Launch, Notebook, FiniteSetTheorems, TLAPS

(* Launch.                                                                 *)
LEMMA FolderType ==
    ASSUME TypeOK, NEW l \in Launch
    PROVE  FolderOf(l) \in Folder
BY DEF TypeOK, FolderOf, Folder, Slots

LEMMA InitInv == Init => IInv
<1> SUFFICES ASSUME Init PROVE IInv
    OBVIOUS
<1>1. TypeOK
    BY LaunchAssumption DEF Init, TypeOK, InProgress, Returned, Kinds,
       Trail!TrailInit, Trail!TrailTypeOK, Trail!Answers
<1>2. NoJobUnasked
    BY DEF Init, NoJobUnasked
<1>3. ASSUME NEW l \in Launch PROVE AnswerInv(l) /\ RequestInv(l) /\ FolderInv(l)
    BY DEF Init, AnswerInv, RequestInv, FolderInv, Trail!TrailInit
<1>4. Unanswered = {}
    BY DEF Init, Unanswered
<1>5. LostInv
    BY <1>4, FS_EmptySet DEF Init, LostInv
<1>6. QED
    BY <1>1, <1>2, <1>3, <1>5 DEF IInv

-------------------------------------------------------------------------------
(* Type correctness.                                                       *)

LEMMA TypeStep == TypeOK /\ [Next]_vars => TypeOK'
<1> SUFFICES ASSUME TypeOK, [Next]_vars PROVE TypeOK'
    OBVIOUS
<1> USE LaunchAssumption
<1>1. ASSUME NEW l \in Launch PROVE FolderOf(l) \in Folder /\ <<SlotOf[l], clock>> \in Folder
    BY DEF TypeOK, FolderOf, Folder, Slots
<1>2. CASE UNCHANGED vars
    BY <1>2 DEF vars, auditVars, slurmVars, TypeOK, Trail!TrailTypeOK
<1>3. ASSUME NEW l \in Launch, Wizard(l) PROVE TypeOK'
    <2> USE DEF TypeOK, Step, KeepFolder, RemoveFolder, InProgress, Returned,
            auditVars, slurmVars, Trail!TrailTypeOK
    <2>1. CASE MakeFolder(l)
        <3>1. PICK k \in Kinds : kind' = [kind EXCEPT ![l] = k]
            BY <2>1 DEF MakeFolder
        <3>2. stage' \in [Launch -> {"new"} \cup InProgress \cup Returned]
            BY <2>1 DEF MakeFolder
        <3>3. kind' \in [Launch -> Kinds] /\ made' \in [Launch -> 0..MaxClock]
            BY <2>1, <3>1 DEF MakeFolder
        <3>4. folders' \subseteq Folder
            BY <1>1, <2>1 DEF MakeFolder
        <3>5. QED
            BY <2>1, <3>2, <3>3, <3>4 DEF MakeFolder
    <2>2. CASE Decline(l)
        BY <2>2 DEF Decline
    <2>3. CASE WriteScript(l)
        BY <2>3 DEF WriteScript
    <2>4. CASE AskAudit(l)
        BY <2>4 DEF AskAudit, Trail!Ask, Trail!Answers
    <2>5. CASE Gate(l)
        BY <2>5 DEF Gate
    <2>6. CASE Sbatch(l)
        <3>1. CASE script[FolderOf(l)] # NoLaunch
            <4>1. script[FolderOf(l)] \in Launch
                BY <1>1, <3>1
            <4>2. /\ stage' \in [Launch -> {"new"} \cup InProgress \cup Returned]
                  /\ rpc' \in [Launch -> {"none", "sent", "accepted", "rejected"}]
                BY <2>6, <3>1 DEF Sbatch
            <4>3. /\ runs' \in [Launch -> Launch \cup {NoLaunch}]
                  /\ \A m \in Launch : rpc'[m] # "none" => runs'[m] # NoLaunch
                BY <2>6, <3>1, <4>1 DEF Sbatch
            <4>4. QED
                BY <2>6, <4>2, <4>3 DEF Sbatch
        <3>2. CASE script[FolderOf(l)] = NoLaunch
            BY <2>6, <3>2 DEF Sbatch
        <3>3. QED
            BY <3>1, <3>2
    <2>7. CASE Report(l)
        BY <2>7 DEF Report
    <2>8. CASE TimeOut(l)
        BY <2>8 DEF TimeOut
    <2>9. CASE CleanUp(l)
        BY <2>9 DEF CleanUp
    <2>10. CASE Kill(l)
        BY <2>10 DEF Kill
    <2>11. QED
        BY <1>3, <2>1, <2>2, <2>3, <2>4, <2>5, <2>6, <2>7, <2>8, <2>9, <2>10 DEF Wizard
<1>4. ASSUME NEW l \in Launch, Daemon(l) PROVE TypeOK'
    <2> USE DEF TypeOK, slurmVars, Trail!TrailTypeOK
    <2>1. CASE Record(l)
        BY <2>1 DEF Record, Trail!Record
    <2>2. CASE Answer(l)
        <3>1. PICK a \in {"recorded", "open", "refused"} : Trail!Answer(l, a)
            BY <2>2 DEF Answer
        <3>2. answer' \in [Launch -> Trail!Answers]
            BY <3>1 DEF Trail!Answer, Trail!Answers
        <3>3. QED
            BY <2>2, <3>1, <3>2 DEF Answer, Trail!Answer
    <2>3. QED
        BY <1>4, <2>1, <2>2 DEF Daemon
<1>5. ASSUME NEW l \in Launch, Slurm(l) PROVE TypeOK'
    BY <1>5 DEF Slurm, Accept, Reject, StartJob, EndJob, RequeueJob, TypeOK, auditVars,
       Trail!TrailTypeOK
<1>6. CASE Tick
    BY <1>6 DEF Tick, TypeOK, auditVars, slurmVars, Trail!TrailTypeOK
<1>7. QED
    BY <1>2, <1>3, <1>4, <1>5, <1>6 DEF Next

-------------------------------------------------------------------------------
(* The gate and the request: NoJobUnasked, AnswerInv and RequestInv.       *)

GateInv(l) ==
    /\ rpc[l] # "none" =>
            /\ l \in asked
            /\ answer[l] \in {"recorded", "open"}
            /\ answer[l] = "recorded" => l \in trail
    /\ AnswerInv(l)
    /\ RequestInv(l)

(* A step of one launch leaves what the others have asked and sent alone.  *)
LEMMA OthersGate ==
    ASSUME TypeOK, NEW l \in Launch, GateInv(l),
           stage'[l] = stage[l], rpc'[l] = rpc[l], job'[l] = job[l],
           answer'[l] = answer[l], l \in asked' <=> l \in asked, l \in trail => l \in trail'
    PROVE  GateInv(l)'
BY DEF GateInv, AnswerInv, RequestInv

LEMMA GateWizard ==
    ASSUME TypeOK, NEW m \in Launch, NEW l \in Launch, GateInv(l), Wizard(m)
    PROVE  GateInv(l)'
<1>1. CASE l # m
    <2>1. /\ stage'[l] = stage[l] /\ rpc'[l] = rpc[l] /\ job'[l] = job[l]
          /\ trail' = trail
        BY <1>1 DEF TypeOK, Wizard, MakeFolder, Decline, WriteScript, AskAudit, Gate,
           Sbatch, Report, TimeOut, CleanUp, Kill, Step, Trail!Ask, auditVars, slurmVars
    <2>2. CASE AskAudit(m)
        BY <1>1, <2>1, <2>2, OthersGate DEF AskAudit, Trail!Ask, TypeOK, Trail!TrailTypeOK
    <2>3. CASE ~AskAudit(m)
        <3>1. UNCHANGED auditVars
            BY <2>3 DEF Wizard, MakeFolder, Decline, WriteScript, Gate, Sbatch, Report,
               TimeOut, CleanUp, Kill
        <3>2. QED
            BY <2>1, <3>1, OthersGate DEF auditVars
    <2>4. QED
        BY <2>2, <2>3
<1>2. CASE l = m
    <2> USE <1>2 DEF TypeOK, GateInv, AnswerInv, RequestInv, Step, auditVars, slurmVars
    <2>1. CASE MakeFolder(l)
        BY <2>1 DEF MakeFolder
    <2>2. CASE Decline(l)
        BY <2>2 DEF Decline
    <2>3. CASE WriteScript(l)
        BY <2>3 DEF WriteScript
    <2>4. CASE AskAudit(l)
        <3>1. /\ stage[l] = "gate" /\ stage'[l] = "asked"
              /\ rpc'[l] = "none" /\ job'[l] = "none"
            BY <2>4 DEF AskAudit
        <3>2. l \in asked' /\ answer'[l] \in {"none", "open"}
            BY <2>4, <3>1 DEF AskAudit, Trail!Ask, Trail!TrailTypeOK
        <3>3. QED
            BY <3>1, <3>2
    <2>5. CASE Gate(l)
        BY <2>5 DEF Gate
    <2>6. CASE Sbatch(l)
        BY <2>6 DEF Sbatch
    <2>7. CASE Report(l)
        BY <2>7 DEF Report
    <2>8. CASE TimeOut(l)
        BY <2>8 DEF TimeOut
    <2>9. CASE CleanUp(l)
        BY <2>9 DEF CleanUp
    <2>10. CASE Kill(l)
        BY <2>10 DEF Kill, InProgress
    <2>11. QED
        BY <2>1, <2>2, <2>3, <2>4, <2>5, <2>6, <2>7, <2>8, <2>9, <2>10 DEF Wizard
<1>3. QED
    BY <1>1, <1>2

LEMMA GateDaemon ==
    ASSUME TypeOK, NEW m \in Launch, NEW l \in Launch, GateInv(l), Daemon(m)
    PROVE  GateInv(l)'
<1>1. CASE Record(m)
    BY <1>1, OthersGate DEF Record, Trail!Record, slurmVars
<1>2. CASE Answer(m)
    <2>1. PICK a \in {"recorded", "open", "refused"} : Trail!Answer(m, a)
        BY <1>2 DEF Answer
    <2>2. CASE l # m
        BY <1>2, <2>1, <2>2, OthersGate
           DEF Answer, Trail!Answer, slurmVars, TypeOK, Trail!TrailTypeOK
    <2>3. CASE l = m
        <3>1. /\ answer[l] = "none" /\ l \in asked /\ rpc[l] = "none"
              /\ answer'[l] = a
              /\ a = "recorded" => l \in trail
            BY <2>1, <2>3 DEF Trail!Answer, TypeOK, Trail!TrailTypeOK, GateInv
        <3>2. stage[l] # "submit"
            BY <3>1 DEF GateInv, AnswerInv
        <3>3. UNCHANGED <<stage, slurmVars, asked, trail>>
            BY <1>2, <2>1 DEF Answer, Trail!Answer
        <3>4. AnswerInv(l)' /\ RequestInv(l)' /\ rpc'[l] = "none"
            BY <3>1, <3>2, <3>3 DEF GateInv, AnswerInv, RequestInv, slurmVars
        <3>5. QED
            BY <3>4 DEF GateInv
    <2>4. QED
        BY <2>2, <2>3
<1>3. QED
    BY <1>1, <1>2 DEF Daemon

LEMMA GateSlurm ==
    ASSUME TypeOK, NEW m \in Launch, NEW l \in Launch, GateInv(l), Slurm(m)
    PROVE  GateInv(l)'
BY DEF Slurm, Accept, Reject, StartJob, EndJob, RequeueJob, TypeOK, auditVars,
   GateInv, AnswerInv, RequestInv

LEMMA GateStep ==
    ASSUME TypeOK, NEW l \in Launch, GateInv(l), [Next]_vars
    PROVE  GateInv(l)'
<1>1. CASE UNCHANGED vars \/ Tick
    BY <1>1 DEF vars, Tick, auditVars, slurmVars, GateInv, AnswerInv, RequestInv
<1>2. QED
    BY <1>1, GateWizard, GateDaemon, GateSlurm DEF Next

-------------------------------------------------------------------------------
(* Folders: FolderInv.  A step of m works on the folder of m alone, which  *)
(* is the folder of no launch without a twin but m.                        *)

Moves(m) ==
    /\ \A l \in Launch \ {m} : stage'[l] = stage[l] /\ kind'[l] = kind[l] /\ made'[l] = made[l]
    /\ stage'[m] # "new"
    /\ stage[m] # "new" => kind'[m] = kind[m] /\ made'[m] = made[m]

OthersUntouched(m) ==
    \A f \in Folder :
        f # FolderOf(m)' => (f \in folders' <=> f \in folders) /\ script'[f] = script[f]

LEMMA OthersFolder ==
    ASSUME TypeOK, NEW m \in Launch, NEW l \in Launch \ {m}, Moves(m), OthersUntouched(m),
           rpc'[l] = rpc[l], runs'[l] = runs[l], FolderInv(l)
    PROVE  FolderInv(l)'
<1> SUFFICES ASSUME stage'[l] # "new", ~HasTwin(l)'
             PROVE  /\ Leaves(l)' <=> FolderOf(l)' \notin folders'
                    /\ stage'[l] \in {"gate", "asked", "submit", "sbatch"} => script'[FolderOf(l)'] = l
                    /\ rpc'[l] # "none" => runs'[l] = l
    BY DEF FolderInv
<1>1. FolderOf(l)' = FolderOf(l) /\ FolderOf(l) \in Folder
    BY FolderType DEF Moves, FolderOf
<1>2. stage[l] # "new" /\ stage'[l] = stage[l] /\ (Leaves(l)' <=> Leaves(l))
    BY DEF Moves, Leaves
<1>3. ASSUME NEW k \in Launch, Twin(l, k) PROVE FALSE
    <2>1. l # k /\ stage[k] # "new" /\ FolderOf(l) = FolderOf(k)
        BY <1>3 DEF Twin
    <2>2. stage'[k] # "new" /\ FolderOf(k)' = FolderOf(k)
        BY <2>1 DEF Moves, FolderOf
    <2>3. Twin(l, k)'
        BY <1>1, <2>1, <2>2 DEF Twin
    <2>4. QED
        BY <2>3 DEF HasTwin
<1>4. ~HasTwin(l)
    BY <1>3 DEF HasTwin
<1>5. FolderOf(l) # FolderOf(m)'
    BY <1>1 DEF HasTwin, Twin, Moves
<1>6. (FolderOf(l) \in folders' <=> FolderOf(l) \in folders) /\ script'[FolderOf(l)] = script[FolderOf(l)]
    BY <1>1, <1>5 DEF OthersUntouched
<1>7. QED
    BY <1>1, <1>2, <1>4, <1>6 DEF FolderInv

(* A step that neither moves a launch nor touches a folder.                *)
LEMMA FolderKept ==
    ASSUME TypeOK, NEW l \in Launch, FolderInv(l),
           UNCHANGED <<stage, kind, made, folders, script, runs>>,
           rpc'[l] # "none" => rpc[l] # "none"
    PROVE  FolderInv(l)'
<1>1. FolderOf(l)' = FolderOf(l) /\ (Leaves(l)' <=> Leaves(l)) /\ (HasTwin(l)' <=> HasTwin(l))
    BY DEF FolderOf, Leaves, HasTwin, Twin
<1>2. QED
    BY <1>1 DEF FolderInv

LEMMA WizardMoves ==
    ASSUME TypeOK, NEW m \in Launch, Wizard(m)
    PROVE  Moves(m) /\ OthersUntouched(m)
<1>1. FolderOf(m) \in Folder
    BY FolderType
<1>2. CASE MakeFolder(m)
    <2>1. Moves(m)
        BY <1>2 DEF MakeFolder, Step, Moves, TypeOK
    <2>2. FolderOf(m)' = <<SlotOf[m], clock>>
        BY <1>2 DEF MakeFolder, FolderOf, TypeOK
    <2>3. OthersUntouched(m)
        BY <1>2, <2>2 DEF MakeFolder, OthersUntouched
    <2>4. QED
        BY <2>1, <2>3
<1>3. CASE ~MakeFolder(m)
    <2>1. UNCHANGED <<kind, made>>
        BY <1>3 DEF Wizard, Decline, WriteScript, AskAudit, Gate, Sbatch, Report, TimeOut,
           CleanUp, Kill
    <2>2. Moves(m)
        BY <1>3, <2>1 DEF Wizard, Decline, WriteScript, AskAudit, Gate, Sbatch, Report,
           TimeOut, CleanUp, Kill, Step, Moves, TypeOK
    <2>3. FolderOf(m)' = FolderOf(m)
        BY <2>1 DEF FolderOf
    <2>4. \/ KeepFolder
          \/ RemoveFolder(m)
          \/ folders' = folders /\ script' = [script EXCEPT ![FolderOf(m)] = m]
        BY <1>3 DEF Wizard, Decline, WriteScript, AskAudit, Gate, Sbatch, Report, TimeOut,
           CleanUp, Kill, KeepFolder
    <2>5. OthersUntouched(m)
        BY <1>1, <2>3, <2>4 DEF KeepFolder, RemoveFolder, OthersUntouched, TypeOK
    <2>6. QED
        BY <2>2, <2>5
<1>4. QED
    BY <1>2, <1>3

LEMMA OwnFolder ==
    ASSUME TypeOK, NEW l \in Launch, GateInv(l), FolderInv(l), Wizard(l)
    PROVE  FolderInv(l)'
<1>1. FolderOf(l) \in Folder
    BY FolderType
<1>2. CASE MakeFolder(l)
    <2>1. stage'[l] = "review" /\ rpc'[l] = "none"
        BY <1>2 DEF MakeFolder, Step, TypeOK, GateInv, RequestInv, slurmVars
    <2>2. FolderOf(l)' \in folders'
        BY <1>2 DEF MakeFolder, FolderOf, TypeOK
    <2>3. QED
        BY <2>1, <2>2 DEF FolderInv, Leaves
<1>3. CASE ~MakeFolder(l)
    <2>1. FolderOf(l)' = FolderOf(l) /\ kind' = kind /\ stage[l] # "new"
        BY <1>3 DEF Wizard, Decline, WriteScript, AskAudit, Gate, Sbatch, Report, TimeOut,
           CleanUp, Kill, FolderOf, Step, InProgress
    <2>2. HasTwin(l) => HasTwin(l)'
        <3>1. SUFFICES ASSUME NEW k \in Launch, Twin(l, k) PROVE Twin(l, k)'
            BY DEF HasTwin
        <3>2. Moves(l)
            BY WizardMoves
        <3>3. QED
            BY <2>1, <3>1, <3>2 DEF Twin, Moves, FolderOf
    <2>3. SUFFICES ASSUME ~HasTwin(l), 
                          Leaves(l) <=> FolderOf(l) \notin folders,
                          stage[l] \in {"gate", "asked", "submit", "sbatch"} => script[FolderOf(l)] = l,
                          rpc[l] # "none" => runs[l] = l
                   PROVE  /\ Leaves(l)' <=> FolderOf(l) \notin folders'
                          /\ stage'[l] \in {"gate", "asked", "submit", "sbatch"} => script'[FolderOf(l)] = l
                          /\ rpc'[l] # "none" => runs'[l] = l
        BY <2>1, <2>2 DEF FolderInv
    <2> USE <1>1, <2>1, <2>3 DEF TypeOK, Leaves, Step, RemoveFolder, KeepFolder, slurmVars
    <2>4. CASE Decline(l)
        BY <2>4 DEF Decline
    <2>5. CASE WriteScript(l)
        BY <2>5 DEF WriteScript
    <2>6. CASE AskAudit(l)
        BY <2>6 DEF AskAudit
    <2>7. CASE Gate(l)
        BY <2>7 DEF Gate
    <2>8. CASE Sbatch(l)
        BY <2>8, LaunchAssumption DEF Sbatch
    <2>9. CASE Report(l)
        BY <2>9 DEF Report
    <2>10. CASE TimeOut(l)
        BY <2>10 DEF TimeOut
    <2>11. CASE CleanUp(l)
        BY <2>11 DEF CleanUp
    <2>12. CASE Kill(l)
        BY <2>12 DEF Kill, InProgress
    <2>13. QED
        BY <1>3, <2>4, <2>5, <2>6, <2>7, <2>8, <2>9, <2>10, <2>11, <2>12 DEF Wizard
<1>4. QED
    BY <1>2, <1>3

LEMMA FolderStep ==
    ASSUME TypeOK, NEW l \in Launch, GateInv(l), FolderInv(l), [Next]_vars
    PROVE  FolderInv(l)'
<1>1. ASSUME NEW m \in Launch, Wizard(m) PROVE FolderInv(l)'
    <2>1. CASE l = m
        BY <1>1, <2>1, OwnFolder
    <2>2. CASE l # m
        <3>1. rpc'[l] = rpc[l] /\ runs'[l] = runs[l]
            BY <1>1, <2>2 DEF Wizard, MakeFolder, Decline, WriteScript, AskAudit, Gate,
               Sbatch, Report, TimeOut, CleanUp, Kill, slurmVars, TypeOK
        <3>2. QED
            BY <1>1, <2>2, <3>1, WizardMoves, OthersFolder
    <2>3. QED
        BY <2>1, <2>2
<1>2. ASSUME NEW m \in Launch, Daemon(m) \/ Slurm(m) PROVE FolderInv(l)'
    <2>1. /\ UNCHANGED <<stage, kind, made, folders, script, runs>>
          /\ rpc'[l] # "none" => rpc[l] # "none"
        BY <1>2 DEF Daemon, Record, Answer, Slurm, Accept, Reject, StartJob, EndJob,
           RequeueJob, slurmVars, TypeOK
    <2>2. QED
        BY <2>1, FolderKept
<1>3. CASE UNCHANGED vars \/ Tick
    BY <1>3, FolderKept DEF vars, Tick, slurmVars
<1>4. QED
    BY <1>1, <1>2, <1>3 DEF Next

-------------------------------------------------------------------------------
(* Requests of launches that were reported as failed: LostInv.             *)

LEMMA LostKept ==
    ASSUME LostInv, Unanswered' \subseteq Unanswered, lost \in Nat, lost' = lost
    PROVE  LostInv'
<1>1. /\ IsFiniteSet(Unanswered')
      /\ Cardinality(Unanswered') <= Cardinality(Unanswered)
    BY FS_Subset DEF LostInv
<1>2. Cardinality(Unanswered) \in Nat /\ Cardinality(Unanswered') \in Nat
    BY <1>1, FS_CardinalityType DEF LostInv
<1>3. QED
    BY <1>1, <1>2 DEF LostInv

LEMMA LostStep ==
    ASSUME TypeOK, \A l \in Launch : RequestInv(l), LostInv, [Next]_vars
    PROVE  LostInv'
<1> USE LaunchAssumption
<1>1. lost \in Nat
    BY DEF TypeOK
<1>2. CASE UNCHANGED vars \/ Tick
    BY <1>1, <1>2, LostKept DEF vars, Tick, slurmVars, Unanswered
<1>3. ASSUME NEW m \in Launch, Wizard(m), ~TimeOut(m) PROVE LostInv'
    <2>1. lost' = lost
        BY <1>3 DEF Wizard, MakeFolder, Decline, WriteScript, AskAudit, Gate, Sbatch,
           Report, CleanUp, Kill
    <2>2. ASSUME NEW l \in Launch, l \in Unanswered' PROVE l \in Unanswered
        <3>1. stage'[l] \in {"failing", "failed"} /\ rpc'[l] \in {"sent", "accepted"}
            BY <2>2 DEF Unanswered
        <3>2. stage[l] \in {"failing", "failed"} /\ rpc[l] \in {"sent", "accepted"}
            BY <1>3, <3>1 DEF Wizard, MakeFolder, Decline, WriteScript, AskAudit, Gate,
               Sbatch, Report, CleanUp, Kill, Step, slurmVars, TypeOK, RequestInv
        <3>3. QED
            BY <3>2 DEF Unanswered
    <2>3. Unanswered' \subseteq Unanswered
        BY <2>2 DEF Unanswered
    <2>4. QED
        BY <1>1, <2>1, <2>3, LostKept
<1>4. ASSUME NEW m \in Launch, TimeOut(m) PROVE LostInv'
    <2>1. Unanswered' \subseteq Unanswered \cup {m}
        BY <1>4 DEF TimeOut, Step, slurmVars, TypeOK, Unanswered
    <2>2. /\ IsFiniteSet(Unanswered \cup {m})
          /\ Cardinality(Unanswered \cup {m}) <= Cardinality(Unanswered) + 1
        <3>1. Cardinality(Unanswered) \in Nat
            BY FS_CardinalityType DEF LostInv
        <3>2. /\ IsFiniteSet(Unanswered \cup {m})
              /\ \/ Cardinality(Unanswered \cup {m}) = Cardinality(Unanswered)
                 \/ Cardinality(Unanswered \cup {m}) = Cardinality(Unanswered) + 1
            BY FS_AddElement DEF LostInv
        <3>3. QED
            BY <3>1, <3>2
    <2>3. /\ IsFiniteSet(Unanswered')
          /\ Cardinality(Unanswered') <= Cardinality(Unanswered \cup {m})
        BY <2>1, <2>2, FS_Subset
    <2>4. /\ Cardinality(Unanswered) \in Nat
          /\ Cardinality(Unanswered') \in Nat
          /\ Cardinality(Unanswered \cup {m}) \in Nat
        BY <2>2, <2>3, FS_CardinalityType DEF LostInv
    <2>5. lost' = lost + 1 /\ Cardinality(Unanswered) <= lost
        BY <1>4 DEF TimeOut, LostInv
    <2>6. QED
        BY <1>1, <2>2, <2>3, <2>4, <2>5 DEF LostInv
<1>5. ASSUME NEW m \in Launch, Daemon(m) \/ Slurm(m) PROVE LostInv'
    <2>1. lost' = lost
        BY <1>5 DEF Daemon, Record, Answer, Slurm, Accept, Reject, StartJob, EndJob, RequeueJob
    <2>2. Unanswered' \subseteq Unanswered
        BY <1>5 DEF Daemon, Record, Answer, Slurm, Accept, Reject, StartJob, EndJob,
           RequeueJob, slurmVars, TypeOK, Unanswered
    <2>3. QED
        BY <1>1, <2>1, <2>2, LostKept
<1>6. QED
    BY <1>2, <1>3, <1>4, <1>5 DEF Next

-------------------------------------------------------------------------------
(* The theorems.                                                           *)

LEMMA GateOfAll ==
    NoJobUnasked /\ (\A l \in Launch : AnswerInv(l) /\ RequestInv(l))
        <=> \A l \in Launch : GateInv(l)
BY DEF NoJobUnasked, GateInv

(* The inductive invariant holds of every reachable state.                 *)
THEOREM LaunchInvariance == Spec => []IInv
<1>1. Init => IInv
    BY InitInv
<1>2. IInv /\ [Next]_vars => IInv'
    <2> SUFFICES ASSUME IInv, [Next]_vars PROVE IInv'
        OBVIOUS
    <2>1. TypeOK /\ LostInv /\ \A l \in Launch : GateInv(l) /\ RequestInv(l) /\ FolderInv(l)
        BY GateOfAll DEF IInv
    <2>2. TypeOK'
        BY <2>1, TypeStep
    <2>3. \A l \in Launch : GateInv(l)'
        BY <2>1, GateStep
    <2>4. \A l \in Launch : FolderInv(l)'
        BY <2>1, FolderStep
    <2>5. LostInv'
        BY <2>1, LostStep
    <2>6. NoJobUnasked' /\ \A l \in Launch : AnswerInv(l)' /\ RequestInv(l)'
        BY <2>3 DEF NoJobUnasked, GateInv
    <2>7. QED
        BY <2>2, <2>4, <2>5, <2>6 DEF IInv
<1>3. QED
    BY <1>1, <1>2, PTL DEF Spec

(* The gate: no request without the audit log's consent (wizard.py:988).   *)
THEOREM Gated == Spec => []NoJobUnasked
<1>1. IInv => NoJobUnasked
    BY DEF IInv
<1>2. QED
    BY <1>1, LaunchInvariance, PTL

(* What the wizard reports of a submission (wizard.py:992-1005) is true,   *)
(* but for as many failures as sbatch processes were killed.               *)
THEOREM Told == Spec => []ToldIsTrue
<1>1. IInv => ToldIsTrue
    BY DEF IInv, LostInv, RequestInv, ToldIsTrue
<1>2. QED
    BY <1>1, LaunchInvariance, PTL

(* A job has its folder and its own script (wizard.py:896, 920, 932).      *)
THEOREM FolderKeptForJob == Spec => []JobKeepsFolder
<1>1. IInv => JobKeepsFolder
    <2> SUFFICES ASSUME IInv, NEW l \in Launch, job[l] \in {"pending", "running"}, ~HasTwin(l)
                 PROVE  /\ runs[l] = l
                        /\ FolderOf(l) \in folders
                             \/ (kind[l] = "notebook" /\ stage[l] = "failed" /\ lost > 0)
        BY DEF JobKeepsFolder
    <2>1. RequestInv(l) /\ FolderInv(l) /\ LostInv /\ lost \in Nat
        BY LaunchAssumption DEF IInv, TypeOK
    <2>2. rpc[l] = "accepted"
        BY <2>1 DEF RequestInv
    <2>3. stage[l] \notin {"new", "discarded", "blocked", "crashed"}
        BY <2>1, <2>2 DEF RequestInv
    <2>4. runs[l] = l /\ (FolderOf(l) \in folders \/ Leaves(l))
        BY <2>1, <2>2, <2>3 DEF FolderInv
    <2>5. CASE Leaves(l)
        <3>1. stage[l] = "failed" /\ kind[l] = "notebook"
            BY <2>3, <2>5 DEF Leaves
        <3>2. l \in Unanswered
            BY <2>2, <3>1 DEF Unanswered
        <3>3. Cardinality(Unanswered) # 0 /\ Cardinality(Unanswered) \in Nat
            BY <2>1, <3>2, FS_EmptySet, FS_CardinalityType DEF LostInv
        <3>4. lost > 0
            BY <2>1, <3>3 DEF LostInv
        <3>5. QED
            BY <2>4, <3>1, <3>4
    <2>6. QED
        BY <2>4, <2>5
<1>2. QED
    BY <1>1, LaunchInvariance, PTL

(* No folder is left of a launch that the code takes back.                 *)
THEOREM LeavesNothing == Spec => []NothingLeft
<1>1. IInv => NothingLeft
    BY DEF IInv, FolderInv, Leaves, NothingLeft
<1>2. QED
    BY <1>1, LaunchInvariance, PTL

-------------------------------------------------------------------------------
(* Notebook.                                                               *)

LEMMA NotebookInitInv == NotebookInit => NotebookIInv
<1> SUFFICES ASSUME NotebookInit PROVE NotebookIInv
    OBVIOUS
<1> USE NotebookAssumption
<1>1. NotebookTypeOK
    BY DEF NotebookInit, NotebookTypeOK, Waiting, WaitOver
<1>2. \A j \in Job : ScriptInv(j) /\ FirstRunInv(j) /\ SessionInv(j) /\ ListedInv(j)
    BY DEF NotebookInit, ScriptInv, FirstRunInv, SessionInv, ListedInv
<1>3. WronglyGone = {}
    BY DEF NotebookInit, WronglyGone
<1>4. IsFiniteSet(WronglyGone) /\ GoneIsOver
    BY <1>3, FS_EmptySet DEF NotebookInit, GoneIsOver
<1>5. QED
    BY <1>1, <1>2, <1>4 DEF NotebookIInv

-------------------------------------------------------------------------------
(* Type correctness.                                                       *)

LEMMA NotebookTypeStep == NotebookTypeOK /\ [NotebookNext]_notebookVars => NotebookTypeOK'
<1> SUFFICES ASSUME NotebookTypeOK, [NotebookNext]_notebookVars PROVE NotebookTypeOK'
    OBVIOUS
<1> USE NotebookAssumption DEF NotebookTypeOK
<1>1. CASE UNCHANGED notebookVars
    BY <1>1 DEF notebookVars, scriptVars, sessionVars
<1>2. ASSUME NEW j \in Job, Script(j) PROVE NotebookTypeOK'
    <2> USE DEF Reaches, sessionVars
    <2>1. CASE Scan(j)
        <3>1. PICK p \in Port : port' = [port EXCEPT ![j] = p]
            BY <2>1 DEF Scan
        <3>2. QED
            BY <2>1, <3>1 DEF Scan
    <2>2. CASE PrintInfo(j)
        BY <2>2 DEF PrintInfo
    <2>3. CASE Bind(j)
        BY <2>3 DEF Bind, Aiming
    <2>4. CASE Watch(j)
        BY <2>4 DEF Watch
    <2>5. CASE WatchExpires(j)
        BY <2>5 DEF WatchExpires
    <2>6. CASE Flush(j)
        BY <2>6 DEF Flush, scriptVars
    <2>7. QED
        BY <1>2, <2>1, <2>2, <2>3, <2>4, <2>5, <2>6 DEF Script
<1>3. ASSUME NEW j \in Job, SlurmStep(j) PROVE NotebookTypeOK'
    <2> USE DEF Reaches, sessionVars
    <2>1. CASE Start(j)
        BY <2>1 DEF Start
    <2>2. CASE JobEnds(j)
        BY <2>2 DEF JobEnds, StopsAs
    <2>3. CASE Requeue(j)
        BY <2>3 DEF Requeue, StopsAs
    <2>4. CASE PendAgain(j)
        BY <2>4 DEF PendAgain, scriptVars
    <2>5. CASE Suspend(j)
        BY <2>5 DEF Suspend, scriptVars
    <2>6. CASE GoesOn(j)
        BY <2>6 DEF GoesOn, scriptVars
    <2>7. QED
        BY <1>3, <2>1, <2>2, <2>3, <2>4, <2>5, <2>6 DEF SlurmStep
<1>4. ASSUME NEW p \in Port, Others(p) PROVE NotebookTypeOK'
    BY <1>4 DEF Others, OtherListens, OtherCloses, Aiming, sessionVars
<1>5. ASSUME NEW j \in Job, Loop(j) \/ Deadline(j) \/ Show(j) \/ Breaks(j) PROVE NotebookTypeOK'
    <2> USE DEF jobVars, scriptVars, Goes, Waiting, WaitOver
    <2>1. CASE Loop(j)
        BY <2>1 DEF Loop, CheckMarker, AskQueue, NotYet
    <2>2. CASE Deadline(j)
        BY <2>2 DEF Deadline
    <2>3. CASE Show(j)
        BY <2>3 DEF Show, ReadCard, ReadLateCard
    <2>4. CASE Breaks(j)
        BY <2>4 DEF Breaks, AskFails, Leave
    <2>5. QED
        BY <1>5, <2>1, <2>2, <2>3, <2>4
<1>6. QED
    BY <1>1, <1>2, <1>3, <1>4, <1>5 DEF NotebookNext

-------------------------------------------------------------------------------
(* What a session does, the scripts do not see.                            *)

SessionOnly == \E j \in Job : Loop(j) \/ Deadline(j) \/ Show(j) \/ Breaks(j)

LEMMA SessionLeavesJobs == SessionOnly => UNCHANGED jobVars
BY DEF SessionOnly, Loop, CheckMarker, AskQueue, NotYet, Deadline, Show, ReadCard,
   ReadLateCard, Breaks, AskFails, Leave

(* Scripts: ScriptInv.                                                     *)
LEMMA ScriptStep ==
    ASSUME NotebookTypeOK, \A j \in Job : ScriptInv(j), [NotebookNext]_notebookVars, NEW l \in Job
    PROVE  ScriptInv(l)'
<1> USE NotebookAssumption
<1>1. ScriptInv(l)
    OBVIOUS
<1>2. CASE UNCHANGED notebookVars \/ SessionOnly
    <2>1. UNCHANGED <<queue, scriptVars, out>>
        BY <1>2, SessionLeavesJobs DEF notebookVars, jobVars
    <2>2. QED
        BY <1>1, <2>1 DEF ScriptInv, scriptVars
<1>3. ASSUME NEW j \in Job, Script(j) PROVE ScriptInv(l)'
    <2> USE <1>1 DEF NotebookTypeOK, Reaches
    <2>1. CASE Scan(j)
        <3>1. PICK p \in Port : listener[p] = Free /\ port' = [port EXCEPT ![j] = p]
            BY <2>1 DEF Scan
        <3>2. QED
            BY <2>1, <3>1 DEF Scan, ScriptInv
    <2>2. CASE PrintInfo(j)
        BY <2>2 DEF PrintInfo, ScriptInv
    <2>3. CASE Bind(j)
        <3>1. port[j] \in Port /\ at[j] = "printed"
            BY <2>3 DEF Bind
        <3>2. CASE l = j
            <4>1. \A p \in Port : listener[p] # j
                BY <3>1 DEF ScriptInv
            <4>2. QED
                BY <2>3, <3>1, <3>2, <4>1 DEF Bind, ScriptInv
        <3>3. CASE l # j
            <4>1. /\ at'[l] = at[l]
                  /\ UNCHANGED <<queue, port, out, watching>>
                  /\ listener' = [listener EXCEPT ![port[j]] = j]
                  /\ listener[port[j]] = Free
                BY <2>3, <3>3 DEF Bind
            <4>2. at[l] \in {"scanned", "printed"} /\ l \notin raced' => port[l] # port[j]
                BY <2>3, <3>3 DEF Bind, Aiming
            <4>3. l \notin raced' => l \notin raced
                BY <2>3 DEF Bind
            <4>4. \A p \in Port : listener'[p] = l <=> listener[p] = l
                BY <3>1, <3>3, <4>1
            <4>5. at[l] \in {"scanned", "printed"} => port[l] \in Port
                OBVIOUS
            <4>6. QED
                BY <3>1, <4>1, <4>2, <4>3, <4>4, <4>5 DEF ScriptInv
        <3>4. QED
            BY <3>2, <3>3
    <2>4. CASE Watch(j)
        BY <2>4 DEF Watch, ScriptInv
    <2>5. CASE WatchExpires(j)
        BY <2>5 DEF WatchExpires, ScriptInv
    <2>6. CASE Flush(j)
        BY <2>6 DEF Flush, ScriptInv, scriptVars
    <2>7. QED
        BY <1>3, <2>1, <2>2, <2>3, <2>4, <2>5, <2>6 DEF Script
<1>4. ASSUME NEW j \in Job, SlurmStep(j) PROVE ScriptInv(l)'
    <2> USE <1>1 DEF NotebookTypeOK, Reaches
    <2>1. CASE Start(j)
        BY <2>1 DEF Start, ScriptInv
    <2>2. ASSUME NEW state \in {"completing", "over"}, StopsAs(j, state) PROVE ScriptInv(l)'
        <3>1. CASE l = j
            <4>1. \A p \in Port : listener'[p] # j
                BY <2>2 DEF StopsAs
            <4>2. at'[j] = "off" /\ queue'[j] \notin {"running", "suspended"} /\ j \notin watching'
                BY <2>2 DEF StopsAs
            <4>3. QED
                BY <3>1, <4>1, <4>2 DEF ScriptInv
        <3>2. CASE l # j
            <4>1. /\ at'[l] = at[l] /\ queue'[l] = queue[l] /\ port'[l] = port[l]
                  /\ out' = out /\ raced' = raced
                  /\ l \in watching' <=> l \in watching
                  /\ \A p \in Port : listener'[p] = IF listener[p] = j THEN Free ELSE listener[p]
                BY <2>2, <3>2 DEF StopsAs
            <4>2. at[l] \in {"scanned", "printed"} => port[l] \in Port
                OBVIOUS
            <4>3. QED
                BY <3>2, <4>1, <4>2 DEF ScriptInv
        <3>3. QED
            BY <3>1, <3>2
    <2>3. CASE JobEnds(j) \/ Requeue(j)
        BY <2>2, <2>3 DEF JobEnds, Requeue
    <2>4. CASE PendAgain(j)
        BY <2>4 DEF PendAgain, ScriptInv, scriptVars
    <2>5. CASE Suspend(j)
        BY <2>5 DEF Suspend, ScriptInv, scriptVars
    <2>6. CASE GoesOn(j)
        BY <2>6 DEF GoesOn, ScriptInv, scriptVars
    <2>7. QED
        BY <1>4, <2>1, <2>3, <2>4, <2>5, <2>6 DEF SlurmStep
<1>5. ASSUME NEW q \in Port, Others(q) PROVE ScriptInv(l)'
    <2>1. UNCHANGED <<queue, at, port, watching, out>>
        BY <1>5 DEF Others, OtherListens, OtherCloses
    <2>2. \A p \in Port : listener'[p] = l <=> listener[p] = l
        BY <1>5 DEF Others, OtherListens, OtherCloses, NotebookTypeOK
    <2>3. at[l] \in {"scanned", "printed"} /\ l \notin raced' => listener'[port[l]] = Free
        <3>1. SUFFICES ASSUME at[l] \in {"scanned", "printed"}, l \notin raced'
                       PROVE  listener'[port[l]] = Free
            OBVIOUS
        <3>2. port[l] \in Port /\ l \notin raced
            BY <1>5, <3>1 DEF Others, OtherListens, OtherCloses, NotebookTypeOK
        <3>3. listener[port[l]] = Free
            BY <1>1, <3>1, <3>2 DEF ScriptInv
        <3>4. CASE OtherListens(q)
            BY <3>1, <3>2, <3>3, <3>4 DEF OtherListens, Aiming, NotebookTypeOK
        <3>5. CASE OtherCloses(q)
            BY <3>2, <3>3, <3>5 DEF OtherCloses, NotebookTypeOK
        <3>6. QED
            BY <1>5, <3>4, <3>5 DEF Others
    <2>4. QED
        BY <1>1, <2>1, <2>2, <2>3 DEF ScriptInv
<1>6. QED
    BY <1>2, <1>3, <1>4, <1>5 DEF NotebookNext, SessionOnly

-------------------------------------------------------------------------------
(* Runs: FirstRunInv.                                                      *)

LEMMA FirstRunOfSession ==
    ASSUME NotebookTypeOK, NEW l \in Job, FirstRunInv(l), SessionOnly
    PROVE  FirstRunInv(l)'
<1>1. UNCHANGED jobVars
    BY SessionLeavesJobs
<1>2. shown'[l] = shown[l] \/ shown'[l] = seen[l]
    BY DEF SessionOnly, Loop, CheckMarker, AskQueue, NotYet, Deadline, Show, ReadCard,
       ReadLateCard, Breaks, AskFails, Leave, NotebookTypeOK
<1>3. QED
    BY <1>1, <1>2 DEF jobVars, scriptVars, FirstRunInv

LEMMA FirstRunOfScript ==
    ASSUME NotebookTypeOK, NEW j \in Job, NEW l \in Job, ScriptInv(l), FirstRunInv(l), Script(j)
    PROVE  FirstRunInv(l)'
<1> USE NotebookAssumption DEF NotebookTypeOK, Reaches, sessionVars
<1>1. CASE Scan(j)
    <2>1. /\ UNCHANGED <<queue, marker, out, seen, shown, requeued, raced>>
          /\ at'[l] = at[l] \/ at[l] = "setup"
        BY <1>1 DEF Scan
    <2>2. QED
        BY <2>1 DEF FirstRunInv
<1>2. CASE PrintInfo(j)
    <2>1. CASE l = j
        <3>1. at[l] = "scanned" /\ out[l] = NoPort /\ queue[l] \in {"running", "suspended"}
            BY <1>2, <2>1 DEF PrintInfo, ScriptInv
        <3>2. UNCHANGED <<queue, marker, seen, shown, requeued, raced>>
            BY <1>2 DEF PrintInfo
        <3>3. QED
            BY <3>1, <3>2 DEF FirstRunInv
    <2>2. CASE l # j
        BY <1>2, <2>2 DEF PrintInfo, FirstRunInv
    <2>3. QED
        BY <2>1, <2>2
<1>3. CASE Bind(j)
    <2>1. /\ UNCHANGED <<queue, marker, out, seen, shown, requeued>>
          /\ raced \subseteq raced'
          /\ at'[l] = at[l] \/ at'[l] = "serving"
        BY <1>3 DEF Bind
    <2>2. QED
        BY <2>1 DEF FirstRunInv
<1>4. CASE Watch(j)
    <2>1. UNCHANGED <<queue, at, out, seen, shown, requeued, raced>>
        BY <1>4 DEF Watch
    <2>2. CASE l = j
        <3>1. l \in watching /\ listener[port[l]] # Free
            BY <1>4, <2>2 DEF Watch
        <3>2. at[l] = "serving" \/ l \in raced
            BY <3>1 DEF ScriptInv
        <3>3. queue[l] \in {"running", "suspended"}
            BY <3>1 DEF ScriptInv
        <3>4. QED
            BY <2>1, <3>2, <3>3 DEF FirstRunInv
    <2>3. CASE l # j
        <3>1. l \in marker' <=> l \in marker
            BY <1>4, <2>3 DEF Watch
        <3>2. QED
            BY <2>1, <3>1 DEF FirstRunInv
    <2>4. QED
        BY <2>2, <2>3
<1>5. CASE WatchExpires(j)
    BY <1>5 DEF WatchExpires, FirstRunInv
<1>6. CASE Flush(j)
    BY <1>6 DEF Flush, scriptVars, FirstRunInv
<1>7. QED
    BY <1>1, <1>2, <1>3, <1>4, <1>5, <1>6 DEF Script

LEMMA FirstRunOfSlurm ==
    ASSUME NotebookTypeOK, NEW j \in Job, NEW l \in Job, ScriptInv(l), FirstRunInv(l), SlurmStep(j)
    PROVE  FirstRunInv(l)'
<1> USE NotebookAssumption DEF NotebookTypeOK, Reaches, sessionVars
<1>1. CASE Start(j)
    <2>1. UNCHANGED <<marker, seen, shown, requeued, raced>>
        BY <1>1 DEF Start
    <2>2. CASE l = j
        BY <1>1, <2>1, <2>2 DEF Start, FirstRunInv
    <2>3. CASE l # j
        BY <1>1, <2>1, <2>3 DEF Start, FirstRunInv
    <2>4. QED
        BY <2>2, <2>3
<1>2. CASE JobEnds(j)
    BY <1>2 DEF JobEnds, StopsAs, FirstRunInv
<1>3. CASE Requeue(j)
    <2>1. CASE l = j
        BY <1>3, <2>1 DEF Requeue, FirstRunInv
    <2>2. CASE l # j
        BY <1>3, <2>2 DEF Requeue, StopsAs, FirstRunInv
    <2>3. QED
        BY <2>1, <2>2
<1>4. CASE PendAgain(j)
    BY <1>4 DEF PendAgain, scriptVars, FirstRunInv
<1>5. CASE Suspend(j)
    BY <1>5 DEF Suspend, scriptVars, FirstRunInv
<1>6. CASE GoesOn(j)
    BY <1>6 DEF GoesOn, scriptVars, FirstRunInv
<1>7. QED
    BY <1>1, <1>2, <1>3, <1>4, <1>5, <1>6 DEF SlurmStep

LEMMA FirstRunStep ==
    ASSUME NotebookTypeOK, NEW l \in Job, ScriptInv(l), FirstRunInv(l), [NotebookNext]_notebookVars
    PROVE  FirstRunInv(l)'
<1>1. CASE UNCHANGED notebookVars
    BY <1>1 DEF notebookVars, scriptVars, sessionVars, FirstRunInv
<1>2. ASSUME NEW p \in Port, Others(p) PROVE FirstRunInv(l)'
    BY <1>2 DEF Others, OtherListens, OtherCloses, sessionVars, FirstRunInv
<1>3. QED
    BY <1>1, <1>2, FirstRunOfSession, FirstRunOfScript, FirstRunOfSlurm
       DEF NotebookNext, SessionOnly

LEMMA SessionStep ==
    ASSUME NotebookTypeOK, NEW l \in Job, SessionInv(l), [NotebookNext]_notebookVars
    PROVE  SessionInv(l)'
<1>1. marker \subseteq marker'
    BY DEF NotebookNext, notebookVars, Script, Scan, PrintInfo, Bind, Watch, WatchExpires, Flush,
           SlurmStep, Start,
       JobEnds, Requeue, PendAgain, Suspend, GoesOn, StopsAs, Others, OtherListens, OtherCloses, Loop,
       CheckMarker, AskQueue, NotYet, Deadline, Show, ReadCard, ReadLateCard, Breaks,
       AskFails, Leave, jobVars
<1>2. CASE SessionOnly
    BY <1>1, <1>2 DEF SessionOnly, Loop, CheckMarker, AskQueue, NotYet, Deadline, Show, ReadCard,
       ReadLateCard, Breaks, AskFails, Leave, Goes, NotebookTypeOK, SessionInv
<1>3. CASE ~SessionOnly
    <2>1. session' = session
        BY <1>3 DEF SessionOnly, NotebookNext, notebookVars, Script, Scan, PrintInfo, Bind, Watch,
           WatchExpires,
           Flush, SlurmStep, Start, JobEnds, Requeue, PendAgain, Suspend, GoesOn, StopsAs, Others, OtherListens,
           OtherCloses, sessionVars
    <2>2. QED
        BY <1>1, <2>1 DEF SessionInv
<1>4. QED
    BY <1>2, <1>3

(* What squeue lists: ListedInv.                                           *)
LEMMA ListedStep ==
    ASSUME NotebookTypeOK, NEW l \in Job, ListedInv(l), [NotebookNext]_notebookVars
    PROVE  ListedInv(l)'
<1> USE DEF NotebookTypeOK, ListedInv
<1>1. CASE UNCHANGED notebookVars \/ SessionOnly
    BY <1>1, SessionLeavesJobs DEF notebookVars, jobVars
<1>2. ASSUME NEW j \in Job, Script(j) PROVE ListedInv(l)'
    BY <1>2 DEF Script, Scan, PrintInfo, Bind, Watch, WatchExpires, Flush
<1>3. ASSUME NEW j \in Job, SlurmStep(j) PROVE ListedInv(l)'
    BY <1>3 DEF SlurmStep, Start, JobEnds, Requeue, PendAgain, Suspend, GoesOn, StopsAs
<1>4. ASSUME NEW p \in Port, Others(p) PROVE ListedInv(l)'
    BY <1>4 DEF Others, OtherListens, OtherCloses
<1>5. QED
    BY <1>1, <1>2, <1>3, <1>4 DEF NotebookNext, SessionOnly

-------------------------------------------------------------------------------
(* Jobs that are taken for gone: GoneIsOver.                               *)

LEMMA GoneKept ==
    ASSUME IsFiniteSet(WronglyGone), GoneIsOver, WronglyGone' \subseteq WronglyGone,
           failures \in Nat, failures' = failures
    PROVE  IsFiniteSet(WronglyGone') /\ GoneIsOver'
<1>1. IsFiniteSet(WronglyGone') /\ Cardinality(WronglyGone') <= Cardinality(WronglyGone)
    BY FS_Subset
<1>2. Cardinality(WronglyGone) \in Nat /\ Cardinality(WronglyGone') \in Nat
    BY <1>1, FS_CardinalityType
<1>3. QED
    BY <1>1, <1>2 DEF GoneIsOver

LEMMA GoneStep ==
    ASSUME NotebookTypeOK, \A l \in Job : ListedInv(l), IsFiniteSet(WronglyGone), GoneIsOver,
           [NotebookNext]_notebookVars
    PROVE  IsFiniteSet(WronglyGone') /\ GoneIsOver'
<1> USE NotebookAssumption
<1>1. failures \in Nat
    BY DEF NotebookTypeOK
<1>2. CASE UNCHANGED notebookVars
    BY <1>1, <1>2, GoneKept DEF notebookVars, sessionVars, WronglyGone
<1>3. ASSUME NEW j \in Job, AskFails(j) PROVE IsFiniteSet(WronglyGone') /\ GoneIsOver'
    <2>1. WronglyGone' \subseteq WronglyGone \cup {j}
        BY <1>3 DEF AskFails, Goes, jobVars, NotebookTypeOK, WronglyGone
    <2>2. /\ IsFiniteSet(WronglyGone \cup {j})
          /\ \/ Cardinality(WronglyGone \cup {j}) = Cardinality(WronglyGone)
             \/ Cardinality(WronglyGone \cup {j}) = Cardinality(WronglyGone) + 1
        BY FS_AddElement
    <2>3. /\ IsFiniteSet(WronglyGone')
          /\ Cardinality(WronglyGone') <= Cardinality(WronglyGone \cup {j})
        BY <2>1, <2>2, FS_Subset
    <2>4. /\ Cardinality(WronglyGone) \in Nat
          /\ Cardinality(WronglyGone') \in Nat
          /\ Cardinality(WronglyGone \cup {j}) \in Nat
        BY <2>2, <2>3, FS_CardinalityType
    <2>5. failures' = failures + 1
        BY <1>3 DEF AskFails
    <2>6. QED
        BY <1>1, <2>2, <2>3, <2>4, <2>5 DEF GoneIsOver
<1>4. ASSUME NEW j \in Job, Loop(j) \/ Deadline(j) \/ Show(j) \/ Leave(j)
      PROVE  IsFiniteSet(WronglyGone') /\ GoneIsOver'
    <2>1. UNCHANGED <<jobVars, failures>>
        BY <1>4 DEF Loop, CheckMarker, AskQueue, NotYet, Deadline, Show, ReadCard,
           ReadLateCard, Leave
    <2>2. ASSUME NEW l \in Job, l \in WronglyGone' PROVE l \in WronglyGone
        <3>1. session'[l] = "gone" /\ queue[l] # "over" /\ l \notin unlisted
            BY <2>1, <2>2 DEF WronglyGone, jobVars
        <3>2. queue[l] \in {"pending", "running"}
            BY <3>1 DEF ListedInv
        <3>3. session[l] = "gone"
            BY <1>4, <3>1, <3>2 DEF Loop, CheckMarker, AskQueue, NotYet, Deadline, Show,
               ReadCard, ReadLateCard, Leave, Goes, NotebookTypeOK
        <3>4. QED
            BY <3>1, <3>3 DEF WronglyGone
    <2>3. WronglyGone' \subseteq WronglyGone
        BY <2>2 DEF WronglyGone
    <2>4. QED
        BY <1>1, <2>1, <2>3, GoneKept
<1>5. ASSUME NEW j \in Job, Script(j) \/ SlurmStep(j) PROVE IsFiniteSet(WronglyGone') /\ GoneIsOver'
    <2>1. UNCHANGED <<session, failures>> /\ unlisted \subseteq unlisted'
        BY <1>5 DEF Script, Scan, PrintInfo, Bind, Watch, WatchExpires, Flush, SlurmStep, Start,
           JobEnds, Requeue, PendAgain, Suspend, GoesOn, StopsAs, sessionVars
    <2>2. \A l \in Job : queue[l] = "over" => queue'[l] = "over"
        BY <1>5 DEF Script, Scan, PrintInfo, Bind, Watch, WatchExpires, Flush, SlurmStep, Start,
           JobEnds, Requeue, PendAgain, Suspend, GoesOn, StopsAs, NotebookTypeOK
    <2>3. WronglyGone' \subseteq WronglyGone
        BY <2>1, <2>2 DEF WronglyGone
    <2>4. QED
        BY <1>1, <2>1, <2>3, GoneKept
<1>6. ASSUME NEW p \in Port, Others(p) PROVE IsFiniteSet(WronglyGone') /\ GoneIsOver'
    BY <1>1, <1>6, GoneKept DEF Others, OtherListens, OtherCloses, sessionVars, WronglyGone
<1>7. QED
    BY <1>2, <1>3, <1>4, <1>5, <1>6 DEF NotebookNext, Breaks

-------------------------------------------------------------------------------
(* The theorems.                                                           *)

(* The inductive invariant holds of every reachable state.                 *)
THEOREM NotebookInvariance == NotebookSpec => []NotebookIInv
<1>1. NotebookInit => NotebookIInv
    BY NotebookInitInv
<1>2. NotebookIInv /\ [NotebookNext]_notebookVars => NotebookIInv'
    <2> SUFFICES ASSUME NotebookIInv, [NotebookNext]_notebookVars PROVE NotebookIInv'
        OBVIOUS
    <2>1. /\ NotebookTypeOK /\ IsFiniteSet(WronglyGone) /\ GoneIsOver
          /\ \A j \in Job : ScriptInv(j) /\ FirstRunInv(j) /\ SessionInv(j) /\ ListedInv(j)
        BY DEF NotebookIInv
    <2>2. NotebookTypeOK'
        BY <2>1, NotebookTypeStep
    <2>3. \A j \in Job : ScriptInv(j)'
        BY <2>1, ScriptStep
    <2>4. \A j \in Job : FirstRunInv(j)'
        BY <2>1, FirstRunStep
    <2>5. \A j \in Job : SessionInv(j)'
        BY <2>1, SessionStep
    <2>6. IsFiniteSet(WronglyGone)' /\ GoneIsOver'
        BY <2>1, GoneStep
    <2>7. \A j \in Job : ListedInv(j)'
        BY <2>1, ListedStep
    <2>8. QED
        BY <2>2, <2>3, <2>4, <2>5, <2>6, <2>7 DEF NotebookIInv
<1>3. QED
    BY <1>1, <1>2, PTL DEF NotebookSpec

(* A server listens on the port that its job has printed (jobs.py:480) and *)
(* that the session has shown.                                             *)
THEOREM Advertised == NotebookSpec => []ServedIsAdvertised
<1>1. NotebookIInv => ServedIsAdvertised
    <2> SUFFICES ASSUME NotebookIInv, NEW j \in Job, NEW p \in Port, listener[p] = j
                 PROVE  /\ out[j] = p
                        /\ shown[j] \in {p, NoPort} \/ j \in requeued
        BY DEF ServedIsAdvertised
    <2>1. ScriptInv(j) /\ FirstRunInv(j)
        BY DEF NotebookIInv
    <2>2. out[j] = p
        BY <2>1 DEF ScriptInv
    <2>3. QED
        BY <2>1, <2>2 DEF FirstRunInv
<1>2. QED
    BY <1>1, NotebookInvariance, PTL

(* The card of a ready job leads to its server (connect.py:72).            *)
THEOREM CardServed == NotebookSpec => CardIsServed
<1>1. NotebookIInv /\ [NotebookNext]_notebookVars =>
          [\A j \in Job :
              session[j] = "ready" /\ session'[j] = "card" =>
                  \/ listener[shown'[j]] = j
                  \/ queue[j] \notin {"running", "suspended"}
                  \/ j \in requeued \cup raced]_notebookVars
    <2> SUFFICES ASSUME NotebookIInv, [NotebookNext]_notebookVars, NEW j \in Job,
                        session[j] = "ready", session'[j] = "card",
                        queue[j] \in {"running", "suspended"}, j \notin requeued \cup raced
                 PROVE  listener[shown'[j]] = j
        OBVIOUS
    <2>1. NotebookTypeOK /\ ScriptInv(j) /\ FirstRunInv(j) /\ SessionInv(j)
        BY DEF NotebookIInv
    <2>2. SessionOnly
        BY DEF SessionOnly, NotebookNext, notebookVars, Script, Scan, PrintInfo, Bind, Watch,
           WatchExpires,
           Flush, SlurmStep, Start, JobEnds, Requeue, PendAgain, Suspend, GoesOn, StopsAs, Others, OtherListens,
           OtherCloses, sessionVars
    <2>3. ReadCard(j)
        BY <2>1, <2>2 DEF SessionOnly, Loop, CheckMarker, AskQueue, NotYet, Deadline, Show,
           ReadCard, ReadLateCard, Breaks, AskFails, Leave, Goes, NotebookTypeOK
    <2>4. shown'[j] = seen[j] /\ seen[j] # NoPort
        BY <2>1, <2>3 DEF ReadCard, Goes, NotebookTypeOK
    <2>5. at[j] = "serving" /\ seen[j] = out[j]
        BY <2>1, <2>4 DEF SessionInv, FirstRunInv
    <2>6. out[j] = port[j] /\ port[j] \in Port
        BY <2>1, <2>5 DEF ScriptInv, NotebookTypeOK
    <2>7. QED
        BY <2>1, <2>4, <2>5, <2>6 DEF ScriptInv
<1>2. QED
    BY <1>1, NotebookInvariance, PTL DEF NotebookSpec, CardIsServed

(* "The job ended before JupyterLab came up" (wizard.py:404) is true, but  *)
(* for as many sessions as squeue calls failed.                            *)
THEOREM GoneOver == NotebookSpec => []GoneIsOver
<1>1. NotebookIInv => GoneIsOver
    BY DEF NotebookIInv
<1>2. QED
    BY <1>1, NotebookInvariance, PTL
===============================================================================
