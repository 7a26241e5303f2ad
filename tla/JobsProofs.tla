------------------------------- MODULE JobsProofs -------------------------------
(***************************************************************************)
(* The inductive invariants of Jobs and what follows from them, for every  *)
(* number of jobs, dashboards and menus, whoever they belong to.           *)
(***************************************************************************)
EXTENDS Jobs, FiniteSetTheorems, TLAPS

(* Who acts on a job acts on one of SLURM's.                               *)
TargetInv == \A s \in Viewer \cup Manager :
    at[s] \in {"confirm", "extend", "log", "act"} => target[s] \in Job

ActInv == IInv /\ TargetInv

LEMMA InitInv == Init => ActInv
<1> SUFFICES ASSUME Init PROVE ActInv
    OBVIOUS
<1> USE JobsAssumption DEF JobsAssumption
<1>1. /\ \A v \in Viewer : at[v] = "refresh"
      /\ \A m \in Manager : at[m] = "choose"
    BY DEF Init
<1>2. TypeOK
    <2>1. at \in [Viewer \cup Manager -> ViewStages \cup ManageStages]
        BY DEF Init, ViewStages, ManageStages
    <2>2. /\ \A v \in Viewer : at[v] \in ViewStages
          /\ \A m \in Manager : at[m] \in ManageStages
        BY <1>1 DEF ViewStages, ManageStages
    <2>3. live \in [Viewer -> Seq(Entry)] /\ list \in [Viewer -> Seq(Entry)]
        BY DEF Init
    <2>4. queue \in [Job -> States]
        BY DEF Init, States
    <2>5. drain \in [stage : DrainStages, todo : SUBSET Job, now : Job \cup {NoJob}]
        BY DEF Init, DrainStages
    <2>6. faults \in 0..MaxFaults /\ refreshes \in 0..MaxRefreshes
        BY DEF Init
    <2>7. drained \in BOOLEAN
        BY DEF Init
    <2>8. since \in [Viewer -> SUBSET Job] /\ blind \subseteq Viewer
        BY DEF Init
    <2>9. cancelled \cup logged \cup unlogged \cup spared \subseteq Job
        BY DEF Init
    <2>10. /\ selected \in [Viewer -> Nat]
           /\ frame \in [Viewer -> Job \cup {NoJob}] /\ shown \in [Viewer -> Job \cup {NoJob}]
           /\ typed \in [Viewer -> Job \cup {NoJob, NoKey}]
           /\ behind \subseteq Viewer
           /\ target \in [Viewer \cup Manager -> Job \cup {NoJob}]
        BY DEF Init
    <2>11. QED
        BY <2>1, <2>2, <2>3, <2>4, <2>5, <2>6, <2>7, <2>8, <2>9, <2>10 DEF TypeOK
<1>3. QED
    BY <1>1, <1>2 DEF Init, ActInv, IInv, FrameIsList, ScreenIsFrame, OnlyOwn, DrainStage,
           TargetInv, ActsOnShown

-------------------------------------------------------------------------------
(* The lists of jobs.                                                      *)

(* A finite set has an enumeration, so SetToSeq is one: what the sequence  *)
(* holds is the set, and each element once.                                *)
LEMMA Enumeration ==
    ASSUME NEW S, IsFiniteSet(S)
    PROVE  /\ SetToSeq(S) \in Seq(S)
           /\ \A i, j \in DOMAIN SetToSeq(S) : SetToSeq(S)[i] = SetToSeq(S)[j] => i = j
           /\ \A x \in S : \E i \in DOMAIN SetToSeq(S) : SetToSeq(S)[i] = x
<1> DEFINE n == Cardinality(S)
           s == SetToSeq(S)
<1>1. n \in Nat /\ ExistsBijection(1..n, S)
    BY FS_CardinalityType
<1>2. \E f \in [1..n -> S] : IsInjective(f)
    BY <1>1 DEF ExistsBijection, Bijection, Injection
<1>3. s \in [1..n -> S] /\ IsInjective(s)
    BY <1>2 DEF SetToSeq
<1>4. s \in Injection(1..n, S)
    BY <1>3 DEF Injection
<1>5. IsFiniteSet(1..n) /\ Cardinality(1..n) = n
    BY <1>1, FS_Interval
<1>6. s \in Surjection(1..n, S)
    BY <1>4, <1>5, FS_Injection
<1>7. s \in Seq(S)
    BY <1>1, <1>3
<1>8. QED
    BY <1>3, <1>6, <1>7 DEF IsInjective, Surjection

(* Entries of jobs in a state of the program: the entries of the set, each *)
(* of its jobs once.                                                       *)
LEMMA EntriesOf ==
    ASSUME TypeOK, NEW js \in SUBSET Job
    PROVE  /\ Entries(js) \in Seq(Entry)
           /\ Listed(Entries(js)) = js
           /\ \A i, j \in DOMAIN Entries(js) : Entries(js)[i].job = Entries(js)[j].job => i = j
<1> DEFINE E == {EntryOf(j) : j \in js}
           f == [j \in js |-> EntryOf(j)]
<1>1. IsFiniteSet(js)
    BY JobsAssumption, FS_Subset DEF JobsAssumption
<1>2. f \in Surjection(js, E)
    BY DEF Surjection
<1>3. IsFiniteSet(E)
    BY <1>1, <1>2, FS_Surjection
<1>4. \A x \in E : x \in Entry /\ x.job \in js /\ x = EntryOf(x.job)
    BY DEF EntryOf, Entry, TypeOK
<1>5. /\ SetToSeq(E) \in Seq(E)
      /\ \A i, j \in DOMAIN SetToSeq(E) : SetToSeq(E)[i] = SetToSeq(E)[j] => i = j
      /\ \A x \in E : \E i \in DOMAIN SetToSeq(E) : SetToSeq(E)[i] = x
    BY <1>3, Enumeration
<1> HIDE DEF E
<1>6. \A i \in DOMAIN SetToSeq(E) : SetToSeq(E)[i] \in E
    BY <1>5
<1>7. Entries(js) = SetToSeq(E)
    BY DEF Entries, E
<1>8. Entries(js) \in Seq(Entry)
    BY <1>4, <1>5, <1>7
<1>9. Listed(Entries(js)) = js
    <2>1. \A j \in js : \E i \in DOMAIN SetToSeq(E) : SetToSeq(E)[i].job = j
        <3>1. SUFFICES ASSUME NEW j \in js
                       PROVE  \E i \in DOMAIN SetToSeq(E) : SetToSeq(E)[i].job = j
            OBVIOUS
        <3>2. EntryOf(j) \in E /\ EntryOf(j).job = j
            BY DEF E, EntryOf
        <3>3. QED
            BY <1>5, <3>2
    <2>2. \A i \in DOMAIN SetToSeq(E) : SetToSeq(E)[i].job \in js
        BY <1>4, <1>6
    <2>3. QED
        BY <1>7, <2>1, <2>2 DEF Listed
<1>10. \A x, y \in E : x.job = y.job => x = y
    BY <1>4
<1>11. QED
    BY <1>5, <1>6, <1>7, <1>8, <1>9, <1>10

-------------------------------------------------------------------------------
(* Type correctness.                                                       *)

LEMMA Listing ==
    ASSUME TypeOK, NEW v \in Viewer, HasSelection(v)
    PROVE  Selection(v) \in Entry /\ Selection(v).job \in Job
<1>1. selected[v] + 1 \in 1..Len(list[v])
    BY DEF TypeOK, HasSelection
<1>2. list[v] \in Seq(Entry)
    BY DEF TypeOK
<1>3. Selection(v) \in Entry
    BY <1>1, <1>2 DEF Selection
<1>4. QED
    BY <1>3 DEF Entry

LEMMA ExceptType ==
    ASSUME NEW S, NEW T, NEW f \in [S -> T], NEW x \in S, NEW y \in T
    PROVE  [f EXCEPT ![x] = y] \in [S -> T]
OBVIOUS

LEMMA PlaceType ==
    ASSUME TypeOK, NEW v \in Viewer, NEW next \in ViewStages, at' = [at EXCEPT ![v] = next]
    PROVE  /\ at' \in [Viewer \cup Manager -> ViewStages \cup ManageStages]
           /\ \A w \in Viewer : at'[w] \in ViewStages
           /\ \A m \in Manager : at'[m] \in ManageStages
<1>1. /\ at \in [Viewer \cup Manager -> ViewStages \cup ManageStages]
      /\ \A w \in Viewer : at[w] \in ViewStages
      /\ \A m \in Manager : at[m] \in ManageStages /\ m # v
    BY JobsAssumption DEF TypeOK, JobsAssumption
<1>2. QED
    BY <1>1

LEMMA DashboardType ==
    ASSUME ActInv, NEW v \in Viewer, Dashboard(v)
    PROVE  TypeOK' /\ TargetInv'
<1>p. \A next \in ViewStages : at' = [at EXCEPT ![v] = next] =>
          /\ at' \in [Viewer \cup Manager -> ViewStages \cup ManageStages]
          /\ \A w \in Viewer : at'[w] \in ViewStages
          /\ \A m \in Manager : at'[m] \in ManageStages
    BY PlaceType DEF ActInv, IInv
<1> USE JobsAssumption DEF JobsAssumption, TypeOK, ViewStages, ManageStages, TargetInv,
        slurmVars, drainVars, viewVars, listVars, keyVars
<1>0. TypeOK /\ TargetInv
    BY DEF ActInv, IInv
<1>1. CASE ReadQueue(v)
    <2>1. Entries({j \in Job : queue[j] \in Alive}) \in Seq(Entry)
        BY <1>0, EntriesOf
    <2>2. live' \in [Viewer -> Seq(Entry)] /\ list' \in [Viewer -> Seq(Entry)]
        <3>1. PICK y \in Seq(Entry) : live' = [live EXCEPT ![v] = y]
            <4>1. \/ live' = [live EXCEPT ![v] = Entries({j \in Job : queue[j] \in Alive})]
                  \/ live' = [live EXCEPT ![v] = <<>>]
                BY <1>1 DEF ReadQueue
            <4>2. <<>> \in Seq(Entry)
                OBVIOUS
            <4>3. QED
                BY <2>1, <4>1, <4>2
        <3>2. live \in [Viewer -> Seq(Entry)] /\ list \in [Viewer -> Seq(Entry)]
            BY <1>0
        <3>3. [live EXCEPT ![v] = y] \in [Viewer -> Seq(Entry)]
            BY <3>2, ExceptType
        <3>4. list' = list
            BY <1>1 DEF ReadQueue
        <3>5. QED
            BY <3>1, <3>2, <3>3, <3>4
    <2>3. faults' \in 0..MaxFaults /\ refreshes' \in 0..MaxRefreshes
        BY <1>0, <1>1 DEF ReadQueue, Fault
    <2>4. since' \in [Viewer -> SUBSET Job] /\ blind' \subseteq Viewer
        BY <1>0, <1>1 DEF ReadQueue
    <2>5. QED
        BY <1>0, <1>1, <2>2, <2>3, <2>4 DEF ReadQueue, Goes
<1>2. CASE ReadHistory(v)
    <2>1. Entries(Finished(v)) \in Seq(Entry)
        BY <1>0, EntriesOf DEF Finished, Newest, Over
    <2>2. live[v] \in Seq(Entry) /\ live[v] \o Entries(Finished(v)) \in Seq(Entry)
        BY <1>0, <2>1
    <2>3. list' \in [Viewer -> Seq(Entry)]
        <3>1. PICK y \in Seq(Entry) : list' = [list EXCEPT ![v] = y]
            BY <1>2, <2>2 DEF ReadHistory
        <3>2. QED
            BY <1>0, <3>1, ExceptType
    <2>4. list'[v] # <<>> => Len(list'[v]) - 1 \in Nat
        BY <2>3
    <2>5. selected' \in [Viewer -> Nat]
        BY <1>0, <1>2, <2>4 DEF ReadHistory
    <2>6. faults' \in 0..MaxFaults /\ blind' \subseteq Viewer /\ behind' \subseteq Viewer
        BY <1>0, <1>2 DEF ReadHistory, Fault
    <2>7. QED
        BY <1>0, <1>2, <2>3, <2>5, <2>6 DEF ReadHistory, Goes
<1>3. CASE Draw(v)
    <2>1. Highlighted(v) \in Job \cup {NoJob}
        BY <1>0, Listing DEF Highlighted
    <2>2. frame' \in [Viewer -> Job \cup {NoJob}]
        BY <1>0, <1>3, <2>1 DEF Draw
    <2>3. QED
        BY <1>0, <1>3, <2>2 DEF Draw, Goes
<1>4. CASE Press(v)
    <2>1. Selection(v).job \in Job
        BY <1>0, <1>4, Listing DEF Press
    <2>2. PICK stage \in {"confirm", "extend"} : at' = [at EXCEPT ![v] = stage]
        BY <1>4 DEF Press
    <2>3. target' = [target EXCEPT ![v] = Selection(v).job]
        BY <1>4 DEF Press
    <2>4. QED
        BY <1>0, <1>4, <2>1, <2>2, <2>3 DEF Press
<1>a. typed \in [Viewer -> Job \cup {NoJob, NoKey}]
      => [typed EXCEPT ![v] = NoKey] \in [Viewer -> Job \cup {NoJob, NoKey}]
    OBVIOUS
<1>b. Restarts(v) => /\ shown' \in [Viewer -> Job \cup {NoJob}] /\ frame' = frame
                     /\ typed' \in [Viewer -> Job \cup {NoJob, NoKey}] /\ behind' \subseteq Viewer
    BY <1>0, <1>a DEF Restarts, KeyDone
<1>5. CASE Pass(v)
    <2>1. /\ shown' \in [Viewer -> Job \cup {NoJob}] /\ frame' = frame
          /\ typed' \in [Viewer -> Job \cup {NoJob, NoKey}] /\ behind' \subseteq Viewer
        <3>1. CASE UNCHANGED keyVars
            BY <1>0, <3>1 DEF keyVars
        <3>2. CASE KeyDone(v) /\ UNCHANGED <<frame, shown, behind>>
            BY <1>0, <1>a, <3>2 DEF KeyDone
        <3>3. CASE Restarts(v)
            BY <1>b, <3>3
        <3>4. QED
            BY <1>5, <3>1, <3>2, <3>3 DEF Pass
    <2>2. at' = [at EXCEPT ![v] = "draw"] \/ at' = [at EXCEPT ![v] = "refresh"]
        BY <1>5 DEF Pass, Back
    <2>3. /\ at' \in [Viewer \cup Manager -> ViewStages \cup ManageStages]
          /\ \A w \in Viewer : at'[w] \in ViewStages
          /\ \A m \in Manager : at'[m] \in ManageStages
        <3>1. "draw" \in ViewStages /\ "refresh" \in ViewStages
            OBVIOUS
        <3>2. QED
            BY <1>p, <2>2, <3>1
    <2>4. at'[v] \in {"draw", "refresh"} /\ \A s \in Viewer \cup Manager : s # v => at'[s] = at[s]
        BY <1>0, <2>2
    <2>5. TargetInv'
        BY <1>0, <1>5, <2>4 DEF Pass
    <2>6. UNCHANGED <<slurmVars, listVars, target, drainVars, faults, logged, unlogged>>
        BY <1>5 DEF Pass
    <2>7. TypeOK'
        BY <1>0, <2>1, <2>3, <2>6
    <2>8. QED
        BY <2>5, <2>7
<1>6. CASE SelectNext(v)
    <2>1. Len(list[v]) \in Nat \ {0}
        BY <1>0, <1>6 DEF SelectNext
    <2>2. (selected[v] + 1) % Len(list[v]) \in Nat
        BY <1>0, <2>1
    <2>3. selected' \in [Viewer -> Nat]
        BY <1>0, <1>6, <2>2 DEF SelectNext
    <2>4. typed' \in [Viewer -> Job \cup {NoJob, NoKey}] /\ behind' = behind
        BY <1>0, <1>6, <1>a DEF SelectNext, KeyDone
    <2>5. QED
        BY <1>0, <1>6, <2>3, <2>4 DEF SelectNext, Goes
<1>7. CASE Confirm(v)
    <2>1. target[v] \in Job
        BY <1>0, <1>7 DEF Confirm
    <2>2. queue' \in [Job -> States] /\ cancelled' \cup unlogged' \subseteq Job
        BY <1>0, <1>7, <2>1 DEF Confirm, Scancel, Cancelled, Becomes, States
    <2>3. faults' \in 0..MaxFaults
        BY <1>0, <1>7 DEF Confirm, Scancel, Fault
    <2>4. \E next \in {"draw", "refresh", "log"} : at' = [at EXCEPT ![v] = next]
        BY <1>7 DEF Confirm, Back
    <2>5. Restarts(v) \/ UNCHANGED keyVars
        BY <1>7 DEF Confirm
    <2>6. UNCHANGED <<drained, listVars, target, drainVars, logged>>
        BY <1>7 DEF Confirm
    <2>7. /\ frame' \in [Viewer -> Job \cup {NoJob}] /\ shown' \in [Viewer -> Job \cup {NoJob}]
          /\ typed' \in [Viewer -> Job \cup {NoJob, NoKey}] /\ behind' \subseteq Viewer
        BY <1>0, <1>b, <2>5
    <2>8. QED
        BY <1>0, <1>7, <2>1, <2>2, <2>3, <2>4, <2>6, <2>7
<1>8. CASE Log(v)
    <2>1. at' = [at EXCEPT ![v] = "draw"] \/ at' = [at EXCEPT ![v] = "refresh"]
        BY <1>8 DEF Log, Back
    <2>2. /\ at' \in [Viewer \cup Manager -> ViewStages \cup ManageStages]
          /\ \A w \in Viewer : at'[w] \in ViewStages
          /\ \A m \in Manager : at'[m] \in ManageStages
        <3>1. "draw" \in ViewStages /\ "refresh" \in ViewStages
            OBVIOUS
        <3>2. QED
            BY <1>p, <2>1, <3>1
    <2>3. at'[v] \in {"draw", "refresh"} /\ \A s \in Viewer \cup Manager : s # v => at'[s] = at[s]
        BY <1>0, <2>1
    <2>4. target[v] \in Job /\ logged' \subseteq Job
        BY <1>0, <1>8 DEF Log
    <2>5. TargetInv'
        BY <1>0, <1>8, <2>3 DEF Log
    <2>6. UNCHANGED <<slurmVars, listVars, target, drainVars, faults, unlogged>> /\ Restarts(v)
        BY <1>8 DEF Log
    <2>7. TypeOK'
        BY <1>0, <1>b, <2>2, <2>4, <2>6
    <2>8. QED
        BY <2>5, <2>7
<1>9. CASE Extend(v)
    BY <1>0, <1>9, <1>b DEF Extend, Goes
<1>10. CASE Paint(v)
    BY <1>0, <1>10 DEF Paint
<1>11. CASE Type(v)
    <2>1. shown[v] \in Job \cup {NoJob, NoKey}
        BY <1>0
    <2>2. typed' \in [Viewer -> Job \cup {NoJob, NoKey}]
        BY <1>0, <1>11, <2>1 DEF Type
    <2>3. QED
        BY <1>0, <1>11, <2>2 DEF Type
<1>12. QED
    BY <1>1, <1>2, <1>3, <1>4, <1>5, <1>6, <1>7, <1>8, <1>9, <1>10, <1>11 DEF Dashboard

LEMMA ManagerType ==
    ASSUME ActInv, NEW m \in Manager, Choose(m) \/ ManageCancel(m) \/ ManageState(m)
    PROVE  TypeOK' /\ TargetInv'
<1> USE JobsAssumption DEF JobsAssumption, TypeOK, ViewStages, ManageStages, TargetInv,
        slurmVars, drainVars, viewVars, listVars, keyVars, Goes
<1>0. TypeOK /\ TargetInv
    BY DEF ActInv, IInv
<1>1. CASE Choose(m)
    <2>1. PICK j \in Job : target' = [target EXCEPT ![m] = j]
        BY <1>1 DEF Choose
    <2>2. QED
        BY <1>0, <1>1, <2>1 DEF Choose
<1>2. CASE ManageCancel(m)
    <2>1. target[m] \in Job
        BY <1>0, <1>2 DEF ManageCancel
    <2>2. queue' \in [Job -> States] /\ cancelled' \cup logged' \subseteq Job
        BY <1>0, <1>2, <2>1 DEF ManageCancel, Cancelled, Becomes, States
    <2>3. QED
        BY <1>0, <1>2, <2>2 DEF ManageCancel
<1>3. CASE ManageState(m)
    <2>1. target[m] \in Job
        BY <1>0, <1>3 DEF ManageState
    <2>2. \/ \E y \in States : queue' = [queue EXCEPT ![target[m]] = y]
          \/ queue' = queue
        BY <1>3 DEF ManageState, Becomes, States
    <2>3. queue' \in [Job -> States]
        <3>1. queue \in [Job -> States]
            BY <1>0
        <3>2. ASSUME NEW y \in States, queue' = [queue EXCEPT ![target[m]] = y]
              PROVE  queue' \in [Job -> States]
            BY ONLY <2>1, <3>1, <3>2
        <3>3. QED
            BY <2>2, <3>1, <3>2
    <2>4. QED
        BY <1>0, <1>3, <2>3 DEF ManageState
<1>4. QED
    BY <1>1, <1>2, <1>3

LEMMA LeaveType ==
    ASSUME ActInv, NEW s \in Viewer \cup Manager, Leave(s)
    PROVE  TypeOK' /\ TargetInv'
<1>1. TypeOK /\ TargetInv
    BY DEF ActInv, IInv
<1>2. unlogged' \subseteq Job
    BY <1>1 DEF Leave, TypeOK, TargetInv
<1>3. QED
    BY <1>1, <1>2 DEF Leave, TypeOK, TargetInv, ViewStages, ManageStages, slurmVars, drainVars, viewVars, listVars, keyVars

LEMMA DrainType ==
    ASSUME ActInv, Drain
    PROVE  TypeOK' /\ TargetInv'
<1> USE JobsAssumption DEF JobsAssumption, TypeOK, TargetInv, DrainStages,
        slurmVars, drainVars, viewVars, listVars, keyVars
<1>0. TypeOK /\ TargetInv /\ DrainStage
    BY DEF ActInv, IInv
<1>1. CASE StartDrain
    <2>1. /\ drain' \in [stage : DrainStages, todo : SUBSET Job, now : Job \cup {NoJob}]
          /\ spared' \subseteq Job
        <3>1. Running \subseteq Job
            BY DEF Running
        <3>2. CASE drain' = [drain EXCEPT !.stage = "cancel", !.todo = Running]
            BY <1>0, <1>1, <3>1, <3>2 DEF StartDrain
        <3>3. CASE drain' = [drain EXCEPT !.stage = "update"]
            BY <1>0, <1>1, <3>1, <3>3 DEF StartDrain
        <3>4. QED
            BY <1>1, <3>2, <3>3 DEF StartDrain
    <2>2. faults' \in 0..MaxFaults
        BY <1>0, <1>1 DEF StartDrain, Fault
    <2>3. QED
        BY <1>0, <1>1, <2>1, <2>2 DEF StartDrain
<1>2. ASSUME NEW j \in Job, DrainCancel(j)
      PROVE  TypeOK' /\ TargetInv'
    <2>1. /\ drain' \in [stage : DrainStages, todo : SUBSET Job, now : Job \cup {NoJob}]
          /\ spared' \subseteq Job
        <3>1. drain.todo \ {j} \in SUBSET Job
            BY <1>0
        <3>2. CASE drain' = [stage |-> "record", todo |-> drain.todo \ {j}, now |-> j]
            BY <1>0, <1>2, <3>1, <3>2 DEF DrainCancel
        <3>3. CASE drain' = [drain EXCEPT !.todo = @ \ {j}]
            BY <1>0, <1>2, <3>1, <3>3 DEF DrainCancel
        <3>4. QED
            BY <1>2, <3>2, <3>3 DEF DrainCancel
    <2>2. Scancel(j, "ok") \/ Scancel(j, "failed")
        BY <1>2 DEF DrainCancel
    <2>3. queue' \in [Job -> States] /\ cancelled' \cup unlogged' \subseteq Job
        BY <1>0, <2>2 DEF Scancel, Cancelled, Becomes, States
    <2>4. faults' \in 0..MaxFaults
        BY <1>0, <2>2 DEF Scancel, Fault
    <2>5. QED
        BY <1>0, <1>2, <2>1, <2>3, <2>4 DEF DrainCancel
<1>3. CASE DrainRecord
    <2>1. logged' \subseteq Job
        BY <1>0, <1>3 DEF DrainRecord, DrainStage
    <2>2. QED
        BY <1>0, <1>3, <2>1 DEF DrainRecord
<1>4. CASE UpdateNode
    <2>1. drain' \in [stage : DrainStages, todo : SUBSET Job, now : Job \cup {NoJob}]
        BY <1>0, <1>4 DEF UpdateNode
    <2>2. faults' \in 0..MaxFaults
        BY <1>0, <1>4 DEF UpdateNode, Fault
    <2>3. drained' \in BOOLEAN
        BY <1>0, <1>4 DEF UpdateNode
    <2>4. QED
        BY <1>0, <1>4, <2>1, <2>2, <2>3 DEF UpdateNode
<1>5. CASE Resume
    BY <1>0, <1>5 DEF Resume
<1>6. QED
    BY <1>1, <1>2, <1>3, <1>4, <1>5 DEF Drain

LEMMA TypeStep == ActInv /\ [Next]_vars => TypeOK' /\ TargetInv'
<1> SUFFICES ASSUME ActInv, [Next]_vars PROVE TypeOK' /\ TargetInv'
    OBVIOUS
<1>1. CASE UNCHANGED vars
    BY <1>1 DEF ActInv, IInv, TypeOK, TargetInv, vars, slurmVars, drainVars, viewVars, listVars, keyVars
<1>2. CASE Slurm
    <2>1. queue' \in [Job -> States] /\ spared' \subseteq Job
        BY <1>2 DEF ActInv, IInv, TypeOK, Slurm, Submit, StartJob, EndJob, Becomes, States
    <2>2. QED
        BY <1>2, <2>1 DEF ActInv, IInv, TypeOK, TargetInv, Slurm, viewVars, listVars, keyVars
<1>3. QED
    BY <1>1, <1>2, DashboardType, ManagerType, LeaveType, DrainType DEF Next

-------------------------------------------------------------------------------
(* What a dashboard shows and acts on, and who acts.                       *)

(* What the frame, the screen, the key, the target and the place of a      *)
(* dashboard or menu say of each other, which its own steps alone can      *)
(* change.                                                                 *)
ViewInv(v) ==
    /\ at[v] = "key" \/ (at[v] = "draw" /\ v \notin behind) => frame[v] = Highlighted(v)
    /\ v \notin behind => shown[v] = frame[v] /\ typed[v] \in {frame[v], NoKey}
    /\ at[v] = "extend" => OwnerOf[target[v]] = UserOf[v]
    /\ v \notin behind /\ at[v] \in {"confirm", "extend", "log"} => target[v] = typed[v]
OwnInv(s) ==
    at[s] \in {"confirm", "log", "act"} => s \in Admin \/ OwnerOf[target[s]] = UserOf[s]

LEMMA ViewInvs ==
    IInv <=> /\ TypeOK /\ DrainStage
             /\ \A v \in Viewer : ViewInv(v)
             /\ \A s \in Viewer \cup Manager : OwnInv(s)
BY DEF IInv, ViewInv, OwnInv, FrameIsList, ScreenIsFrame, OnlyOwn, ActsOnShown

(* The parts of the state that only v's own steps change.                  *)
Screens(v) == <<frame[v], shown[v], typed[v]>>
Lists(v) == <<live[v], list[v], selected[v], since[v]>>

LEMMA ViewSame ==
    ASSUME NEW v \in Viewer, ViewInv(v),
           at'[v] = at[v] \/ at'[v] = "off", target'[v] = target[v],
           UNCHANGED Screens(v), UNCHANGED Lists(v), v \in behind' <=> v \in behind
    PROVE  ViewInv(v)'
BY DEF ViewInv, Highlighted, HasSelection, Selection, Screens, Lists

(* The steps of a dashboard.                                               *)
LEMMA DashboardView ==
    ASSUME ActInv, NEW v \in Viewer, Dashboard(v)
    PROVE  ViewInv(v)' /\ OwnInv(v)'
<1>0. TypeOK /\ ViewInv(v) /\ OwnInv(v)
    BY ViewInvs DEF ActInv
<1> USE DEF ViewInv, OwnInv, TypeOK
<1>1. CASE ReadQueue(v)
    <2>1. at'[v] = "history" /\ UNCHANGED <<frame, shown, typed, behind>>
        BY <1>0, <1>1 DEF ReadQueue, Goes, keyVars
    <2>2. QED
        BY <1>0, <2>1
<1>2. CASE ReadHistory(v)
    <2>1. at'[v] = "draw" /\ v \in behind'
        BY <1>0, <1>2 DEF ReadHistory, Goes
    <2>2. QED
        BY <2>1
<1>3. CASE Draw(v)
    <2>1. at'[v] = "key" /\ Highlighted(v)' = Highlighted(v) /\ frame'[v] = Highlighted(v)
        BY <1>0, <1>3 DEF Draw, Goes, Highlighted, HasSelection, Selection, listVars
    <2>2. v \notin behind => frame'[v] = frame[v]
        BY <1>0, <1>3, <2>1 DEF Draw, Goes
    <2>3. UNCHANGED <<shown, typed, behind>>
        BY <1>3 DEF Draw
    <2>4. QED
        BY <1>0, <2>1, <2>2, <2>3
<1>4. CASE Paint(v)
    <2>1. at' = at /\ at[v] \in Live /\ UNCHANGED <<frame, typed>> /\ Highlighted(v)' = Highlighted(v)
        BY <1>4 DEF Paint, Highlighted, HasSelection, Selection, listVars
    <2>2. shown'[v] = frame[v]
        BY <1>0, <1>4 DEF Paint
    <2>3. v \notin behind' => v \notin behind \/ (at[v] # "draw" /\ typed[v] = NoKey)
        BY <1>4 DEF Paint
    <2>4. QED
        BY <1>0, <2>1, <2>2, <2>3 DEF Live
<1>5. CASE Type(v)
    <2>1. at' = at /\ at[v] \in Live /\ UNCHANGED <<frame, shown, behind>>
          /\ Highlighted(v)' = Highlighted(v)
        BY <1>5 DEF Type, Highlighted, HasSelection, Selection, listVars
    <2>2. typed'[v] = shown[v]
        BY <1>0, <1>5 DEF Type
    <2>3. QED
        BY <1>0, <2>1, <2>2 DEF Live
<1>6. CASE Press(v)
    <2>1. at'[v] \in {"confirm", "extend"} /\ target'[v] = Highlighted(v)
        BY <1>0, <1>6 DEF Press, Highlighted
    <2>2. UNCHANGED <<frame, shown, typed, behind>> /\ at[v] = "key" /\ typed[v] # NoKey
        BY <1>6 DEF Press, viewVars, keyVars
    <2>3. /\ at'[v] = "extend" => OwnerOf[target'[v]] = UserOf[v]
          /\ at'[v] = "confirm" => v \in Admin \/ OwnerOf[target'[v]] = UserOf[v]
        BY <1>0, <1>6, <2>1 DEF Press
    <2>4. QED
        BY <1>0, <2>1, <2>2, <2>3
<1>7. CASE Pass(v)
    <2>1. at[v] = "key" /\ at'[v] \in {"draw", "refresh"} /\ Highlighted(v)' = Highlighted(v)
        BY <1>0, <1>7 DEF Pass, Back, Highlighted, HasSelection, Selection, listVars
    <2>2. CASE Restarts(v)
        <3>1. v \in behind'
            BY <2>2 DEF Restarts
        <3>2. QED
            BY <2>1, <3>1
    <2>3. CASE ~Restarts(v)
        <3>1. UNCHANGED <<frame, shown, behind>>
            BY <1>7, <2>3 DEF Pass, keyVars
        <3>2. typed'[v] \in {typed[v], NoKey}
            BY <1>0, <1>7, <2>3 DEF Pass, KeyDone, keyVars
        <3>3. QED
            BY <1>0, <2>1, <3>1, <3>2
    <2>4. QED
        BY <2>2, <2>3
<1>8. CASE SelectNext(v)
    <2>1. at'[v] = "refresh" /\ UNCHANGED <<frame, shown, behind>>
        BY <1>0, <1>8 DEF SelectNext, Goes
    <2>2. typed'[v] = NoKey
        BY <1>0, <1>8 DEF SelectNext, KeyDone
    <2>3. QED
        BY <1>0, <2>1, <2>2
<1>9. CASE Confirm(v) /\ at'[v] = "log" /\ UNCHANGED keyVars
    <2>1. at[v] = "confirm" /\ target' = target
        BY <1>9 DEF Confirm
    <2>2. UNCHANGED <<frame, shown, typed, behind>>
        BY <1>9 DEF keyVars
    <2>3. QED
        BY <1>0, <1>9, <2>1, <2>2
<1>10. CASE Restarts(v) /\ at'[v] \in {"draw", "refresh"}
    <2>1. v \in behind'
        BY <1>10 DEF Restarts
    <2>2. QED
        BY <1>10, <2>1
<1>11. Confirm(v) \/ Log(v) \/ Extend(v) =>
          \/ Confirm(v) /\ at'[v] = "log" /\ UNCHANGED keyVars
          \/ Restarts(v) /\ at'[v] \in {"draw", "refresh"}
    BY <1>0 DEF Confirm, Log, Extend, Goes, Back
<1>12. QED
    BY <1>1, <1>2, <1>3, <1>4, <1>5, <1>6, <1>7, <1>8, <1>9, <1>10, <1>11 DEF Dashboard

(* A dashboard leaves the others alone.                                    *)
LEMMA DashboardFrame ==
    ASSUME TypeOK, NEW v \in Viewer, Dashboard(v), NEW s \in Viewer \cup Manager, s # v
    PROVE  /\ at'[s] = at[s] /\ target'[s] = target[s]
           /\ s \in Viewer => /\ UNCHANGED Screens(s) /\ UNCHANGED Lists(s)
                              /\ (s \in blind' <=> s \in blind)
                              /\ (s \in behind' <=> s \in behind)
<1> USE DEF TypeOK, Goes, Back, KeyDone, Restarts, viewVars, listVars, keyVars
<1>1. at'[s] = at[s] /\ target'[s] = target[s]
    BY DEF Dashboard, ReadQueue, ReadHistory, Draw, Paint, Type, Press, Pass, SelectNext,
       Confirm, Log, Extend
<1>2. ASSUME s \in Viewer PROVE UNCHANGED Screens(s)
    <2>1. frame'[s] = frame[s]
        BY <1>2 DEF Dashboard, ReadQueue, ReadHistory, Draw, Paint, Type, Press, Pass,
           SelectNext, Confirm, Log, Extend
    <2>2. shown'[s] = shown[s]
        BY <1>2 DEF Dashboard, ReadQueue, ReadHistory, Draw, Paint, Type, Press, Pass,
           SelectNext, Confirm, Log, Extend
    <2>3. typed'[s] = typed[s]
        BY <1>2 DEF Dashboard, ReadQueue, ReadHistory, Draw, Paint, Type, Press, Pass,
           SelectNext, Confirm, Log, Extend
    <2>4. QED
        BY <2>1, <2>2, <2>3 DEF Screens
<1>3. ASSUME s \in Viewer PROVE UNCHANGED Lists(s)
    BY <1>3 DEF Lists, Dashboard, ReadQueue, ReadHistory, Draw, Paint, Type, Press, Pass,
       SelectNext, Confirm, Log, Extend
<1>4. ASSUME s \in Viewer
      PROVE  (s \in blind' <=> s \in blind) /\ (s \in behind' <=> s \in behind)
    BY <1>4 DEF Dashboard, ReadQueue, ReadHistory, Draw, Paint, Type, Press, Pass,
       SelectNext, Confirm, Log, Extend
<1>5. QED
    BY <1>1, <1>2, <1>3, <1>4

LEMMA DrainStageStep == ActInv /\ [Next]_vars => DrainStage'
<1> SUFFICES ASSUME ActInv, [Next]_vars PROVE DrainStage'
    OBVIOUS
<1>1. DrainStage /\ TypeOK
    BY DEF ActInv, IInv
<1>2. CASE Drain
    <2>1. ASSUME NEW j \in Job, DrainCancel(j) PROVE DrainStage'
        <3>1. CASE drain' = [stage |-> "record", todo |-> drain.todo \ {j}, now |-> j]
            BY <3>1, JobsAssumption DEF DrainStage, JobsAssumption
        <3>2. CASE drain' = [drain EXCEPT !.todo = @ \ {j}]
            <4>1. drain'.stage = drain.stage /\ drain'.now = drain.now /\ drain.stage = "cancel"
                BY <1>1, <2>1, <3>2 DEF DrainCancel, TypeOK
            <4>2. QED
                BY <1>1, <4>1 DEF DrainStage
        <3>3. QED
            BY <2>1, <3>1, <3>2 DEF DrainCancel
    <2>2. CASE StartDrain
        <3>1. /\ drain'.stage \in {"cancel", "update"} /\ drain'.now = drain.now
              /\ drain'.stage = "update" => drain'.todo = drain.todo
            BY <1>1, <2>2 DEF StartDrain, TypeOK
        <3>2. QED
            BY <1>1, <2>2, <3>1 DEF StartDrain, DrainStage
    <2>3. CASE DrainRecord
        BY <1>1, <2>3 DEF DrainRecord, DrainStage, TypeOK
    <2>4. CASE UpdateNode
        BY <1>1, <2>4 DEF UpdateNode, DrainStage, TypeOK
    <2>5. CASE Resume
        BY <1>1, <2>5 DEF Resume, drainVars, DrainStage
    <2>6. QED
        BY <1>2, <2>1, <2>2, <2>3, <2>4, <2>5 DEF Drain
<1>3. CASE UNCHANGED drain
    BY <1>1, <1>3 DEF DrainStage
<1>4. QED
    BY <1>2, <1>3 DEF Next, vars, drainVars, Slurm, Dashboard, ReadQueue, ReadHistory, Draw,
       Paint, Type, Press, Pass, KeyDone, Restarts, SelectNext, Confirm, Log, Extend, Leave, Choose, ManageCancel, ManageState

LEMMA ActStep == ActInv /\ [Next]_vars => ActInv'
<1> SUFFICES ASSUME ActInv, [Next]_vars PROVE ActInv'
    OBVIOUS
<1>1. TypeOK /\ (\A v \in Viewer : ViewInv(v)) /\ \A s \in Viewer \cup Manager : OwnInv(s)
    BY ViewInvs DEF ActInv
<1>2. TypeOK' /\ TargetInv' /\ DrainStage'
    BY TypeStep, DrainStageStep
<1>3. ASSUME NEW v \in Viewer PROVE ViewInv(v)'
    <2>1. CASE \E w \in Viewer : Dashboard(w)
        <3>1. CASE Dashboard(v)
            BY <3>1, DashboardView
        <3>2. ASSUME NEW w \in Viewer, w # v, Dashboard(w) PROVE ViewInv(v)'
            BY <1>1, <3>2, DashboardFrame, ViewSame
        <3>3. QED
            BY <2>1, <3>1, <3>2
    <2>2. CASE \E m \in Manager : Choose(m) \/ ManageCancel(m) \/ ManageState(m)
        <3>1. at'[v] = at[v] /\ target'[v] = target[v] /\ UNCHANGED <<listVars, keyVars>>
            BY <1>1, <2>2, JobsAssumption DEF Choose, ManageCancel, ManageState, Goes, TypeOK,
               JobsAssumption, viewVars
        <3>2. QED
            BY <1>1, <3>1, ViewSame DEF listVars, keyVars, Screens, Lists
    <2>3. CASE \E s \in Viewer \cup Manager : Leave(s)
        <3>1. at'[v] \in {at[v], "off"} /\ target' = target /\ UNCHANGED <<listVars, keyVars>>
            BY <1>1, <2>3 DEF Leave, TypeOK, viewVars
        <3>2. QED
            BY <1>1, <3>1, ViewSame DEF listVars, keyVars, Screens, Lists
    <2>4. CASE Slurm \/ Drain \/ UNCHANGED vars
        <3>1. UNCHANGED <<at, target, listVars, keyVars>>
            BY <2>4 DEF vars, viewVars, listVars, keyVars, Slurm, Drain, StartDrain, DrainCancel, DrainRecord,
               UpdateNode, Resume
        <3>2. QED
            BY <1>1, <3>1, ViewSame DEF listVars, keyVars, Screens, Lists
    <2>5. QED
        BY <2>1, <2>2, <2>3, <2>4 DEF Next
<1>4. ASSUME NEW s \in Viewer \cup Manager PROVE OwnInv(s)'
    <2>1. CASE \E w \in Viewer : Dashboard(w)
        <3>1. ASSUME s \in Viewer, Dashboard(s) PROVE OwnInv(s)'
            BY <3>1, DashboardView
        <3>2. ASSUME NEW w \in Viewer, w # s, Dashboard(w) PROVE OwnInv(s)'
            BY <1>1, <3>2, DashboardFrame DEF OwnInv
        <3>3. QED
            BY <2>1, <3>1, <3>2
    <2>2. ASSUME NEW m \in Manager, Choose(m) PROVE OwnInv(s)'
        <3>1. CASE s = m
            BY <1>1, <2>2, <3>1 DEF Choose, Goes, OwnInv, TypeOK
        <3>2. CASE s # m
            BY <1>1, <2>2, <3>2 DEF Choose, Goes, OwnInv, TypeOK
        <3>3. QED
            BY <3>1, <3>2
    <2>3. CASE \E m \in Manager : ManageCancel(m) \/ ManageState(m)
        BY <1>1, <2>3 DEF ManageCancel, ManageState, Goes, OwnInv, TypeOK
    <2>4. CASE \E r \in Viewer \cup Manager : Leave(r)
        BY <1>1, <2>4 DEF Leave, OwnInv, TypeOK
    <2>5. CASE UNCHANGED <<at, target>>
        BY <1>1, <2>5 DEF OwnInv
    <2>6. QED
        BY <2>1, <2>2, <2>3, <2>4, <2>5 DEF Next, vars, Slurm, Drain, StartDrain, DrainCancel,
           DrainRecord, UpdateNode, Resume
<1>5. QED
    BY <1>2, <1>3, <1>4, ViewInvs DEF ActInv, IInv, ViewInv, OwnInv, FrameIsList, ScreenIsFrame,
       OnlyOwn, ActsOnShown

(* Everything the invariant names holds in every state: the types, that a  *)
(* key acts on the job that the screen highlighted when it was typed       *)
(* unless it was typed before the present list was painted, and that       *)
(* nobody but an admin acts on the job of another (run_dashboard,          *)
(* manage_job).                                                            *)
THEOREM JobsInv == Spec => []IInv
<1>1. Spec => []ActInv
    BY InitInv, ActStep, PTL DEF Spec
<1>2. ActInv => IInv
    BY DEF ActInv
<1>3. QED
    BY <1>1, <1>2, PTL

(* The same for the property alone.                                        *)
THEOREM Shown == Spec => []ActsOnShown
<1>1. IInv => ActsOnShown
    BY DEF IInv
<1>2. QED
    BY <1>1, JobsInv, PTL

-------------------------------------------------------------------------------
(* Every cancelled job has its event.                                      *)

Accounted(j) ==
    \/ j \in logged \cup unlogged
    \/ \E v \in Viewer : at[v] = "log" /\ target[v] = j
    \/ drain.now = j

LEMMA CancelByDashboard ==
    ASSUME ActInv, CancelIsLogged, NEW v \in Viewer, Dashboard(v)
    PROVE  CancelIsLogged'
<1>0. TypeOK /\ TargetInv
    BY DEF ActInv, IInv
<1>1. CASE Confirm(v)
    <2>1. at[v] = "confirm" /\ UNCHANGED <<drain, target, logged>>
        BY <1>1 DEF Confirm, drainVars
    <2>2. unlogged \subseteq unlogged'
        BY <1>1 DEF Confirm, Scancel
    <2>3. ASSUME NEW w \in Viewer, at[w] = "log" PROVE at'[w] = "log"
        BY <1>0, <1>1, <2>1, <2>3 DEF Confirm, Back, TypeOK
    <2>4. ASSUME NEW j \in cancelled', j \notin cancelled PROVE Accounted(j)'
        <3>1. j = target[v] /\ (j \in unlogged' \/ at'[v] = "log")
            BY <1>0, <1>1, <2>4 DEF Confirm, Scancel, Cancelled, TypeOK
        <3>2. QED
            BY <2>1, <3>1 DEF Accounted
    <2>5. QED
        BY <2>1, <2>2, <2>3, <2>4 DEF CancelIsLogged, Accounted
<1>2. CASE Log(v)
    <2>1. \A w \in Viewer : at[w] = "log" => at'[w] = "log" \/ target[w] \in logged'
        BY <1>0, <1>2 DEF Log, Back, TypeOK
    <2>2. QED
        BY <1>2, <2>1 DEF Log, CancelIsLogged, slurmVars, drainVars
<1>3. CASE ~Confirm(v) /\ ~Log(v)
    <2>1. UNCHANGED <<cancelled, logged, unlogged, drain>> /\ at[v] # "log"
        BY <1>3 DEF Dashboard, ReadQueue, ReadHistory, Draw, Paint, Type, Press, Pass, KeyDone, Restarts,
           SelectNext, Extend,
           Goes, Live, slurmVars, drainVars
    <2>2. \A w \in Viewer : at[w] = "log" => at'[w] = "log" /\ target'[w] = target[w]
        BY <1>0, <2>1, DashboardFrame
    <2>3. QED
        BY <2>1, <2>2 DEF CancelIsLogged
<1>4. QED
    BY <1>1, <1>2, <1>3

LEMMA CancelByDrain ==
    ASSUME ActInv, CancelIsLogged, Drain
    PROVE  CancelIsLogged'
<1>0. TypeOK /\ DrainStage
    BY DEF ActInv, IInv
<1>1. ASSUME NEW k \in Job, DrainCancel(k) PROVE CancelIsLogged'
    <2>1. drain.now = NoJob /\ NoJob \notin cancelled
        BY <1>0, <1>1, JobsAssumption DEF DrainCancel, DrainStage, TypeOK, JobsAssumption
    <2>2. UNCHANGED <<at, target, logged>> /\ unlogged \subseteq unlogged'
        BY <1>1 DEF DrainCancel, Scancel
    <2>3. ASSUME NEW j \in cancelled', j \notin cancelled PROVE Accounted(j)'
        <3>1. CASE Scancel(k, "ok") /\ drain' = [stage |-> "record", todo |-> drain.todo \ {k}, now |-> k]
            BY <2>3, <3>1 DEF Scancel, Cancelled, Accounted
        <3>2. CASE Scancel(k, "failed")
            BY <2>3, <3>2 DEF Scancel, Cancelled, Accounted
        <3>3. QED
            BY <1>1, <3>1, <3>2 DEF DrainCancel
    <2>4. QED
        BY <2>1, <2>2, <2>3 DEF CancelIsLogged, Accounted
<1>2. CASE DrainRecord
    BY <1>0, <1>2 DEF DrainRecord, CancelIsLogged, slurmVars
<1>3. CASE StartDrain \/ UpdateNode \/ Resume
    <2>1. drain'.now = drain.now
        BY <1>0, <1>3 DEF StartDrain, UpdateNode, Resume, drainVars, TypeOK
    <2>2. QED
        BY <1>3, <2>1 DEF StartDrain, UpdateNode, Resume, CancelIsLogged, slurmVars
<1>4. QED
    BY <1>1, <1>2, <1>3 DEF Drain

LEMMA CancelStep == ActInv /\ CancelIsLogged /\ [Next]_vars => CancelIsLogged'
<1> SUFFICES ASSUME ActInv, CancelIsLogged, [Next]_vars PROVE CancelIsLogged'
    OBVIOUS
<1>0. TypeOK
    BY DEF ActInv, IInv
<1>1. CASE Slurm \/ UNCHANGED vars
    <2>1. UNCHANGED <<cancelled, logged, unlogged, at, target, drain>>
        BY <1>1 DEF Slurm, vars, slurmVars, drainVars
    <2>2. QED
        BY <2>1 DEF CancelIsLogged
<1>2. ASSUME NEW m \in Manager, Choose(m) \/ ManageCancel(m) \/ ManageState(m)
      PROVE  CancelIsLogged'
    <2>1. \A v \in Viewer : at'[v] = at[v] /\ target'[v] = target[v]
        BY <1>0, <1>2, JobsAssumption DEF Choose, ManageCancel, ManageState, Goes, TypeOK,
           JobsAssumption
    <2>2. UNCHANGED <<drain, unlogged>> /\ logged \subseteq logged' /\ cancelled' \subseteq cancelled \cup logged'
        BY <1>2 DEF Choose, ManageCancel, ManageState, Cancelled, slurmVars, drainVars
    <2>3. QED
        BY <2>1, <2>2 DEF CancelIsLogged
<1>3. ASSUME NEW s \in Viewer \cup Manager, Leave(s) PROVE CancelIsLogged'
    <2>1. \A v \in Viewer : at[v] = "log" => \/ at'[v] = "log" /\ target'[v] = target[v]
                                             \/ target[v] \in unlogged'
        BY <1>0, <1>3 DEF Leave, TypeOK
    <2>2. UNCHANGED <<cancelled, logged, drain>> /\ unlogged \subseteq unlogged'
        BY <1>3 DEF Leave, slurmVars, drainVars
    <2>3. QED
        BY <2>1, <2>2 DEF CancelIsLogged
<1>4. QED
    BY <1>1, <1>2, <1>3, CancelByDashboard, CancelByDrain DEF Next

(* A job that was cancelled here has its event, is about to get it, or is  *)
(* one of those whose command or session failed in between (run_dashboard, *)
(* manage_job, drain_node), whatever else happens at the same time.        *)
THEOREM Cancellations == Spec => []CancelIsLogged
<1>1. Init => CancelIsLogged
    BY DEF Init, CancelIsLogged
<1>2. Spec => []ActInv
    BY InitInv, ActStep, PTL DEF Spec
<1>3. QED
    BY <1>1, <1>2, CancelStep, PTL DEF Spec

-------------------------------------------------------------------------------
(* What a drained node runs.                                               *)

(* While the jobs are cancelled, those that run are still to be cancelled, *)
(* or started late or could not be.                                        *)
DrainInv ==
    /\ drain.stage # "idle" => Running \subseteq spared \cup drain.todo
    /\ DrainLeavesOnlyLate

LEMMA DrainStep == ActInv /\ DrainInv /\ [Next]_vars => DrainInv'
<1> SUFFICES ASSUME ActInv, DrainInv, [Next]_vars PROVE DrainInv'
    OBVIOUS
<1> USE DEF DrainInv, DrainLeavesOnlyLate, Running
<1>0. TypeOK /\ DrainStage
    BY DEF ActInv, IInv
(* No new job runs, and none leaves the lists.                             *)
<1>1. ASSUME Running' \subseteq Running, spared \subseteq spared', UNCHANGED <<drain, drained>>
      PROVE  DrainInv'
    BY <1>1
<1>2. CASE Slurm
    <2>1. PICK k \in Job : Submit(k) \/ StartJob(k) \/ EndJob(k)
        BY <1>2 DEF Slurm
    <2>2. Running' \subseteq Running \cup {k} /\ (k \in Running' => k \in spared')
        BY <1>0, <2>1 DEF Submit, StartJob, EndJob, Becomes, TypeOK
    <2>3. spared \subseteq spared' /\ UNCHANGED <<drain, drained>>
        BY <1>2, <2>1 DEF Slurm, Submit, StartJob, EndJob
    <2>4. QED
        BY <2>2, <2>3
<1>3. ASSUME NEW v \in Viewer, Dashboard(v) PROVE DrainInv'
    <2>1. Running' \subseteq Running
        BY <1>0, <1>3 DEF Dashboard, ReadQueue, ReadHistory, Draw, Paint, Type, Press, Pass, KeyDone, Restarts,
           SelectNext,
           Confirm, Scancel, Cancelled, Becomes, Log, Extend, slurmVars, TypeOK
    <2>2. UNCHANGED <<drain, drained, spared>>
        BY <1>3 DEF Dashboard, ReadQueue, ReadHistory, Draw, Paint, Type, Press, Pass, KeyDone, Restarts,
           SelectNext, Confirm,
           Log, Extend, slurmVars, drainVars
    <2>3. QED
        BY <1>1, <2>1, <2>2
<1>4. ASSUME NEW m \in Manager, Choose(m) \/ ManageCancel(m) \/ ManageState(m)
      PROVE  DrainInv'
    <2>1. Running' \subseteq Running
        BY <1>0, <1>4 DEF Choose, ManageCancel, ManageState, Cancelled, Becomes, slurmVars, TypeOK
    <2>2. UNCHANGED <<drain, drained, spared>>
        BY <1>4 DEF Choose, ManageCancel, ManageState, slurmVars, drainVars
    <2>3. QED
        BY <1>1, <2>1, <2>2
<1>5. ASSUME NEW j \in Job, DrainCancel(j) PROVE DrainInv'
    <2>1. Running' \subseteq Running
        BY <1>0, <1>5 DEF DrainCancel, Scancel, Cancelled, Becomes, TypeOK
    <2>2. CASE Scancel(j, "ok") /\ drain' = [stage |-> "record", todo |-> drain.todo \ {j}, now |-> j]
               /\ spared' = spared
        <3>1. j \notin Running'
            BY <1>0, <2>2 DEF Scancel, Cancelled, Becomes, TypeOK
        <3>2. QED
            BY <1>0, <1>5, <2>1, <2>2, <3>1 DEF DrainCancel
    <2>3. CASE drain' = [drain EXCEPT !.todo = @ \ {j}] /\ spared' = spared \cup {j}
        <3>1. drain'.todo = drain.todo \ {j} /\ drain.stage # "idle"
            BY <1>0, <1>5, <2>3 DEF DrainCancel, TypeOK
        <3>2. QED
            BY <1>0, <1>5, <2>1, <2>3, <3>1 DEF DrainCancel
    <2>4. QED
        BY <1>5, <2>2, <2>3 DEF DrainCancel
<1>6. CASE StartDrain
    BY <1>0, <1>6 DEF StartDrain, slurmVars, TypeOK
<1>7. CASE DrainRecord
    BY <1>0, <1>7 DEF DrainRecord, slurmVars, TypeOK
<1>8. CASE UpdateNode
    <2>1. drain.todo = {} /\ drain.stage # "idle" /\ drain'.stage = "idle"
        BY <1>0, <1>8 DEF UpdateNode, DrainStage, TypeOK
    <2>2. QED
        BY <1>8, <2>1 DEF UpdateNode
<1>9. CASE Resume
    BY <1>9 DEF Resume, drainVars
<1>10. ASSUME NEW s \in Viewer \cup Manager, Leave(s) PROVE DrainInv'
    BY <1>1, <1>10 DEF Leave, slurmVars, drainVars
<1>11. CASE UNCHANGED vars
    BY <1>1, <1>11 DEF vars, slurmVars, drainVars
<1>12. QED
    BY <1>2, <1>3, <1>4, <1>5, <1>6, <1>7, <1>8, <1>9, <1>10, <1>11 DEF Next, Drain

(* However jobs come and go meanwhile: a job that runs on a drained node   *)
(* started after drain_node listed the node, or could not be cancelled.    *)
THEOREM Drained == Spec => []DrainLeavesOnlyLate
<1>1. Init => DrainInv
    BY DEF Init, DrainInv, DrainLeavesOnlyLate
<1>2. Spec => []ActInv
    BY InitInv, ActStep, PTL DEF Spec
<1>3. DrainInv => DrainLeavesOnlyLate
    BY DEF DrainInv
<1>4. QED
    BY <1>1, <1>2, <1>3, DrainStep, PTL DEF Spec

-------------------------------------------------------------------------------
(* What a dashboard lists.                                                 *)

Once(s) == \A i, k \in DOMAIN s : s[i].job = s[k].job => i = k

LEMMA OnceCounts ==
    ASSUME NEW s \in Seq(Entry), Once(s)
    PROVE  Cardinality(Listed(s)) = Len(s)
<1> DEFINE f == [i \in 1..Len(s) |-> s[i].job]
<1>1. DOMAIN s = 1..Len(s) /\ Len(s) \in Nat
    OBVIOUS
<1>2. f \in Surjection(1..Len(s), Listed(s))
    BY <1>1 DEF Surjection, Listed
<1>3. f \in Injection(1..Len(s), Listed(s))
    BY <1>1, <1>2 DEF Surjection, Injection, IsInjective, Once
<1>4. IsFiniteSet(1..Len(s)) /\ Cardinality(1..Len(s)) = Len(s)
    BY <1>1, FS_Interval
<1>5. QED
    BY <1>2, <1>3, <1>4, FS_Surjection

LEMMA Appended ==
    ASSUME NEW s \in Seq(Entry), NEW t \in Seq(Entry), Once(s), Once(t),
           Listed(s) \cap Listed(t) = {}
    PROVE  Once(s \o t) /\ Listed(s \o t) = Listed(s) \cup Listed(t)
<1> DEFINE st == s \o t
<1>1. /\ Len(s) \in Nat /\ Len(t) \in Nat /\ DOMAIN s = 1..Len(s) /\ DOMAIN t = 1..Len(t)
      /\ DOMAIN st = 1..(Len(s) + Len(t))
    OBVIOUS
<1>2. \A i \in DOMAIN st : i \in DOMAIN s => st[i] = s[i]
    BY <1>1
<1>3. \A i \in DOMAIN st : i \notin DOMAIN s => i - Len(s) \in DOMAIN t /\ st[i] = t[i - Len(s)]
    BY <1>1
<1>4. \A i \in DOMAIN t : i + Len(s) \in DOMAIN st /\ st[i + Len(s)] = t[i]
    BY <1>1
<1>5. \A i \in DOMAIN s : i \in DOMAIN st
    BY <1>1
<1> HIDE DEF st
<1>6. Listed(st) = Listed(s) \cup Listed(t)
    BY <1>2, <1>3, <1>4, <1>5 DEF Listed
<1>7. ASSUME NEW i \in DOMAIN st, NEW k \in DOMAIN st, st[i].job = st[k].job
      PROVE  i = k
    <2>1. CASE i \in DOMAIN s /\ k \in DOMAIN s
        BY <1>2, <1>7, <2>1 DEF Once
    <2>2. CASE i \notin DOMAIN s /\ k \notin DOMAIN s
        <3>1. i - Len(s) = k - Len(s)
            BY <1>3, <1>7, <2>2 DEF Once
        <3>2. QED
            BY <1>1, <3>1
    <2>3. CASE i \in DOMAIN s /\ k \notin DOMAIN s
        BY <1>2, <1>3, <1>7, <2>3 DEF Listed
    <2>4. CASE i \notin DOMAIN s /\ k \in DOMAIN s
        BY <1>2, <1>3, <1>7, <2>4 DEF Listed
    <2>5. QED
        BY <2>1, <2>2, <2>3, <2>4
<1>8. QED
    BY <1>6, <1>7 DEF Once, st

(* Left out for newer jobs that are over too.                              *)
Cut(j) == queue[j] = "over" /\ Cardinality(NewerOver(j)) >= History

(* After squeue, a job that was there is in its list or is over, also when *)
(* it ends before sacct; the list of both holds every job that is not cut, *)
(* and once.                                                               *)
ListInv(v) ==
    /\ at[v] = "history" =>
          /\ Once(live[v])
          /\ v \in blind \/ \A j \in since[v] : j \in Listed(live[v]) \/ queue[j] = "over"
    /\ at[v] \in {"draw", "key", "confirm", "extend", "log"} =>
          /\ Once(list[v])
          /\ v \in blind \/ \A j \in since[v] \ Listed(list[v]) : Cut(j)
ListsInv == \A v \in Viewer : ListInv(v)

LEMMA OverStays ==
    ASSUME TypeOK, [Next]_vars, NEW j \in Job, queue[j] = "over"
    PROVE  queue'[j] = "over"
<1> USE DEF Becomes, Cancelled, Alive, TypeOK, slurmVars
<1>1. CASE Slurm
    BY <1>1 DEF Slurm, Submit, StartJob, EndJob
<1>2. ASSUME NEW v \in Viewer, Dashboard(v) PROVE queue'[j] = "over"
    BY <1>2 DEF Dashboard, ReadQueue, ReadHistory, Draw, Paint, Type, Press, Pass, KeyDone, Restarts,
           SelectNext, Confirm,
       Scancel, Log, Extend
<1>3. ASSUME NEW m \in Manager, Choose(m) \/ ManageCancel(m) \/ ManageState(m)
      PROVE  queue'[j] = "over"
    BY <1>3 DEF Choose, ManageCancel, ManageState
<1>4. CASE Drain
    BY <1>4 DEF Drain, StartDrain, DrainCancel, Scancel, DrainRecord, UpdateNode, Resume
<1>5. ASSUME NEW s \in Viewer \cup Manager, Leave(s) PROVE queue'[j] = "over"
    BY <1>5 DEF Leave
<1>6. CASE UNCHANGED vars
    BY <1>6 DEF vars
<1>7. QED
    BY <1>1, <1>2, <1>3, <1>4, <1>5, <1>6 DEF Next

(* More jobs are over later, so a job that is cut stays cut.               *)
LEMMA CutStays ==
    ASSUME TypeOK, [Next]_vars, NEW j \in Job, Cut(j)
    PROVE  Cut(j)'
<1>1. NewerOver(j) \subseteq NewerOver(j)'
    BY OverStays DEF NewerOver, Over
<1>2. IsFiniteSet(NewerOver(j)) /\ IsFiniteSet(NewerOver(j)')
    BY JobsAssumption, FS_Subset DEF NewerOver, Over, JobsAssumption
<1>3. Cardinality(NewerOver(j)) <= Cardinality(NewerOver(j)')
    BY <1>1, <1>2, FS_Subset
<1>4. Cardinality(NewerOver(j)) \in Nat /\ Cardinality(NewerOver(j)') \in Nat /\ History \in Nat
    BY <1>2, FS_CardinalityType, JobsAssumption DEF JobsAssumption
<1>5. queue'[j] = "over"
    BY OverStays DEF Cut
<1>6. Cardinality(NewerOver(j)') >= History
    BY <1>3, <1>4 DEF Cut
<1>7. QED
    BY <1>5, <1>6 DEF Cut

LEMMA ListSame ==
    ASSUME TypeOK, [Next]_vars, NEW v \in Viewer, ListInv(v),
           \/ at'[v] \in {at[v], "off", "refresh"}
           \/ {at[v], at'[v]} \subseteq {"draw", "key", "confirm", "extend", "log"},
           live'[v] = live[v], list'[v] = list[v], since'[v] = since[v], v \in blind' <=> v \in blind
    PROVE  ListInv(v)'
<1>1. \A j \in since[v] : queue[j] = "over" => queue'[j] = "over"
    BY OverStays DEF TypeOK
<1>2. \A j \in since[v] : Cut(j) => Cut(j)'
    BY CutStays DEF TypeOK
<1>3. QED
    BY <1>1, <1>2 DEF ListInv

LEMMA ListByDashboard ==
    ASSUME TypeOK, NEW v \in Viewer, ListInv(v), Dashboard(v)
    PROVE  ListInv(v)'
<1>0. [Next]_vars
    BY DEF Next
<1>1. CASE ReadQueue(v)
    <2> DEFINE js == {j \in Job : queue[j] \in Alive}
    <2>1. at'[v] = "history" /\ since'[v] = {j \in Job : queue[j] # "new"} /\ queue' = queue
        BY <1>1 DEF ReadQueue, Goes, TypeOK, slurmVars
    <2>2. CASE live' = [live EXCEPT ![v] = Entries(js)]
        <3>1. live'[v] = Entries(js)
            BY <2>2 DEF TypeOK
        <3>2. Once(Entries(js)) /\ Listed(Entries(js)) = js
            BY EntriesOf DEF Once
        <3>3. \A j \in since'[v] : j \in js \/ queue'[j] = "over"
            BY <2>1 DEF TypeOK, States, Alive
        <3>4. QED
            BY <2>1, <3>1, <3>2, <3>3 DEF ListInv
    <2>3. CASE live' = [live EXCEPT ![v] = <<>>] /\ blind' = blind \cup {v}
        <3>1. live'[v] = <<>> /\ v \in blind'
            BY <2>3 DEF TypeOK
        <3>2. Once(<<>>)
            BY DEF Once
        <3>3. QED
            BY <2>1, <3>1, <3>2 DEF ListInv
    <2>4. QED
        BY <1>1, <2>2, <2>3 DEF ReadQueue
<1>2. CASE ReadHistory(v)
    <2>1. at[v] = "history" /\ at'[v] = "draw" /\ UNCHANGED <<live, since, queue>>
        BY <1>2 DEF ReadHistory, Goes, TypeOK, slurmVars
    <2>2. Once(live[v]) /\ live[v] \in Seq(Entry)
        BY <2>1 DEF ListInv, TypeOK
    <2>3. CASE list' = [list EXCEPT ![v] = live[v] \o Entries(Finished(v))] /\ blind' = blind
        <3>1. list'[v] = live[v] \o Entries(Finished(v))
            BY <2>3 DEF TypeOK
        <3>2. /\ Entries(Finished(v)) \in Seq(Entry) /\ Once(Entries(Finished(v)))
              /\ Listed(Entries(Finished(v))) = Finished(v)
            BY EntriesOf DEF Once, Finished, Newest, Over
        <3>3. Listed(live[v]) \cap Finished(v) = {}
            BY DEF Finished
        <3>4. Once(list'[v]) /\ Listed(list'[v]) = Listed(live[v]) \cup Finished(v)
            BY <2>2, <3>1, <3>2, <3>3, Appended
        <3>5. \A j \in Over : Cardinality(NewerOver(j)) \in Nat /\ History \in Nat
            BY FS_Subset, FS_CardinalityType, JobsAssumption DEF NewerOver, Over, JobsAssumption
        <3>6. v \in blind \/ \A j \in since[v] \ (Listed(live[v]) \cup Finished(v)) : Cut(j)
            BY <2>1, <3>5 DEF ListInv, Finished, Newest, Over, Cut, TypeOK
        <3>7. \A j : Cut(j)' <=> Cut(j)
            BY <2>1 DEF Cut, NewerOver, Over
        <3>8. QED
            BY <2>1, <2>3, <3>4, <3>6, <3>7 DEF ListInv
    <2>4. CASE blind' = blind \cup {v} /\ list' = [list EXCEPT ![v] = live[v]]
        <3>1. list'[v] = live[v]
            BY <2>4 DEF TypeOK
        <3>2. QED
            BY <2>1, <2>2, <2>4, <3>1 DEF ListInv
    <2>5. QED
        BY <1>2, <2>3, <2>4 DEF ReadHistory
<1>3. CASE ~ReadQueue(v) /\ ~ReadHistory(v)
    <2>1. UNCHANGED <<live, list, since, blind>>
        BY <1>3 DEF Dashboard, Draw, Paint, Type, Press, Pass, KeyDone, Restarts,
           SelectNext, Confirm, Log, Extend, viewVars, listVars, keyVars
    <2>2. CASE Paint(v) \/ Type(v)
        <3>1. at'[v] = at[v]
            BY <2>2 DEF Paint, Type
        <3>2. QED
            BY <1>0, <2>1, <3>1, ListSame
    <2>3. CASE ~Paint(v) /\ ~Type(v)
        <3>1. /\ at[v] \in {"draw", "key", "confirm", "extend", "log"}
              /\ at'[v] \in {"draw", "key", "confirm", "extend", "log", "refresh"}
            BY <1>3, <2>3 DEF Dashboard, Draw, Press, Pass, SelectNext, Confirm, Log, Extend,
               Goes, Back, TypeOK
        <3>2. QED
            BY <1>0, <2>1, <3>1, ListSame
    <2>4. QED
        BY <2>2, <2>3
<1>4. QED
    BY <1>1, <1>2, <1>3

LEMMA ListStep == ActInv /\ ListsInv /\ [Next]_vars => ListsInv'
<1> SUFFICES ASSUME ActInv, ListsInv, [Next]_vars, NEW v \in Viewer PROVE ListInv(v)'
    BY DEF ListsInv
<1>0. TypeOK /\ ListInv(v)
    BY DEF ActInv, IInv, ListsInv
<1>1. CASE \E w \in Viewer : Dashboard(w)
    <2>1. CASE Dashboard(v)
        BY <1>0, <2>1, ListByDashboard
    <2>2. ASSUME NEW w \in Viewer, w # v, Dashboard(w) PROVE ListInv(v)'
        <3>1. /\ at'[v] = at[v] /\ live'[v] = live[v] /\ list'[v] = list[v]
              /\ since'[v] = since[v] /\ (v \in blind' <=> v \in blind)
            BY <1>0, <2>2, DashboardFrame DEF Lists
        <3>2. QED
            BY <1>0, <3>1, ListSame
    <2>3. QED
        BY <1>1, <2>1, <2>2
<1>2. CASE ~\E w \in Viewer : Dashboard(w)
    <2>1. at'[v] \in {at[v], "off"}
        BY <1>0, <1>2, JobsAssumption DEF Next, vars, Slurm, Choose, ManageCancel, ManageState,
           Leave, Drain, StartDrain, DrainCancel, DrainRecord, UpdateNode, Resume, Goes, TypeOK,
           JobsAssumption
    <2>2. UNCHANGED <<live, list, since, blind>>
        BY <1>2 DEF Next, vars, Slurm, Choose, ManageCancel, ManageState, Leave, Drain,
           StartDrain, DrainCancel, DrainRecord, UpdateNode, Resume, viewVars, listVars, keyVars
    <2>3. QED
        BY <1>0, <2>1, <2>2, ListSame
<1>3. QED
    BY <1>1, <1>2

(* Between two refreshes a dashboard lists every job that was there when   *)
(* the last one began, and each once, whatever SLURM does between squeue   *)
(* and sacct (_merged_jobs), unless one of the two failed or the job is    *)
(* over and the newest that are fill the history.                          *)
THEOREM Merged == Spec => []EachJobOnce
<1>1. Init => ListsInv
    BY JobsAssumption DEF Init, ListsInv, ListInv, JobsAssumption
<1>2. Spec => []ActInv
    BY InitInv, ActStep, PTL DEF Spec
<1>3. ActInv /\ ListsInv => EachJobOnce
    <2>1. SUFFICES ASSUME ActInv, ListsInv, NEW v \in Viewer,
                          at[v] \notin {"refresh", "history", "off"}
                   PROVE  /\ v \in blind \/ \A j \in since[v] \ Listed(list[v]) : Cut(j)
                          /\ Cardinality(Listed(list[v])) = Len(list[v])
        BY DEF EachJobOnce, Cut
    <2>2. at[v] \in {"draw", "key", "confirm", "extend", "log"} /\ list[v] \in Seq(Entry)
        BY <2>1 DEF ActInv, IInv, TypeOK, ViewStages
    <2>3. QED
        BY <2>1, <2>2, OnceCounts DEF ListsInv, ListInv
<1>4. QED
    BY <1>1, <1>2, <1>3, ListStep, PTL DEF Spec
===============================================================================
