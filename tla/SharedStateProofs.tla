--------------------------- MODULE SharedStateProofs ---------------------------
(***************************************************************************)
(* The inductive invariant of SharedState and what follows from it, for    *)
(* every set of users, environments and models.                            *)
(***************************************************************************)
EXTENDS SharedState, TLAPS

LEMMA EntriesType == ASSUME TypeOK, NEW r \in Registry PROVE Entries(r) \in SUBSET Entry
<1> DEFINE T == SUBSET Entry
<1>1. content[r] \in Seq(T)
    BY DEF TypeOK
<1>2. Entries(r) = IF Len(content[r]) = 1 THEN content[r][1] ELSE {}
    BY DEF Entries, Readable
<1>3. {} \in T
    OBVIOUS
<1> HIDE DEF T
<1>4. Len(content[r]) = 1 => content[r][1] \in T
    BY <1>1
<1>5. Entries(r) \in T
    BY <1>2, <1>3, <1>4
<1>6. QED
    BY <1>5 DEF T

LEMMA ChangeType ==
    ASSUME NEW entries \in SUBSET Entry, NEW d, d.name \in Name
    PROVE  Change(entries, d) \in SUBSET Entry
<1>1. KindOf(d.op) \in {"conda", "venv", "model"}
    BY DEF KindOf
<1>2. [name |-> d.name, kind |-> KindOf(d.op)] \in Entry
    BY <1>1 DEF Entry
<1>3. QED
    BY <1>2 DEF Change

-------------------------------------------------------------------------------
(* Type correctness.                                                       *)

LEMMA RegistersTypes == ASSUME TypeOK, StageInv, NEW s \in Session, Registers(s) PROVE TypeOK'
<1> DEFINE r == RegistryOf(doing[s].op)
<1> USE DEF fileVars
<1>1. r \in Registry /\ Idle \in [op : Op, name : Name \cup {Nobody}]
    BY DEF RegistryOf, Registry, Idle, Op, EnvOps, Building
<1>2. CASE Load(s)
    <2>1. Name_(s) \in Name
        BY <1>2 DEF Load, Goes, StageInv, AtStage
    <2>2. Change(Entries(r), doing[s]) \in SUBSET Entry
        BY <1>1, <2>1, EntriesType, ChangeType DEF Name_
    <2> HIDE DEF r
    <2>3. QED
        BY <1>1, <1>2, <2>2 DEF Load, Goes, TypeOK, Stages, r
<1>3. CASE Truncate(s)
    <2>1. CASE Refused(s, r)
        <3>1. /\ at' = [at EXCEPT ![s] = "idle"] /\ doing' = [doing EXCEPT ![s] = Idle]
              /\ mem' = [mem EXCEPT ![s] = {}]
              /\ UNCHANGED <<content, creator, disturbed, torn, shared, expected, files, qos, tres,
                             ops, faults, meddled>>
            BY <1>3, <2>1 DEF Truncate
        <3>2. QED
            BY <1>1, <3>1 DEF TypeOK, Stages
    <2>2. CASE ~Refused(s, r)
        <3> DEFINE T == SUBSET Entry
        <3>1. /\ at' = [at EXCEPT ![s] = "close"] /\ content' = [content EXCEPT ![r] = <<>>]
              /\ creator' = [creator EXCEPT ![r] = IF @ = Nobody THEN s ELSE @]
              /\ disturbed' \subseteq disturbed \cup {r} /\ torn' \subseteq torn \cup {r}
              /\ UNCHANGED <<doing, mem, shared, expected, files, qos, tres, ops, faults, meddled>>
            BY <1>3, <2>2 DEF Truncate, Truncated
        <3>2. <<>> \in Seq(T) /\ content \in [Registry -> Seq(T)]
            BY DEF TypeOK
        <3> HIDE DEF T, r
        <3>3. content' \in [Registry -> Seq(T)]
            BY <1>1, <3>1, <3>2
        <3>4. creator' \in [Registry -> Session \cup {Nobody}]
            BY <1>1, <3>1 DEF TypeOK
        <3>5. QED
            BY <1>1, <3>1, <3>3, <3>4 DEF TypeOK, Stages, T
    <2>3. QED
        BY <2>1, <2>2
<1>4. CASE Close(s)
    <2> DEFINE T == SUBSET Entry
    <2>1. mem[s] \in T /\ content \in [Registry -> Seq(T)]
        BY DEF TypeOK
    <2> HIDE DEF T
    <2>2. content' \in [Registry -> Seq(T)]
        BY <1>1, <1>4, <2>1 DEF Close
    <2>3. Change(expected[r], doing[s]) \in SUBSET Entry
        BY <1>1, <1>4, ChangeType DEF Close, Goes, StageInv, AtStage, TypeOK, Name_
    <2>4. expected' \in [Registry -> SUBSET Entry]
        BY <1>1, <1>4, <2>3 DEF Close, TypeOK
    <2>5. QED
        BY <1>1, <1>4, <2>2, <2>4 DEF Close, Goes, TypeOK, Stages, T
<1>5. CASE MakeWritable(s)
    BY <1>1, <1>5 DEF MakeWritable, Goes, TypeOK, Stages
<1>6. QED
    BY <1>2, <1>3, <1>4, <1>5 DEF Registers

LEMMA FilesTypes ==
    ASSUME TypeOK, StageInv, NEW s \in Session, Builds(s) \/ Manages(s) \/ Downloads(s)
    PROVE  TypeOK'
<1> USE DEF regVars, fileVars, Sets, Goes, Ends, Begin
<1> DEFINE Levels == {"none", "part", "python", "full"}
<1>1. Idle \in [op : Op, name : Name \cup {Nobody}]
    BY DEF Idle, Op, EnvOps, Building
<1>2. \A op \in Op, n \in Name : [op |-> op, name |-> n] \in [op : Op, name : Name \cup {Nobody}]
    OBVIOUS
<1>3. ops < MaxOps /\ ops' = ops + 1 => ops' \in 0..MaxOps
    BY SharedStateAssumption DEF TypeOK
<1>4. Fault \/ UNCHANGED faults => faults' \in 0..MaxFaults
    BY SharedStateAssumption DEF TypeOK, Fault
<1>5. Env \subseteq Name /\ Model \subseteq Name
    BY DEF Name
<1>6. {"bare", "packages", "prebuilt", "venv", "delete", "download", "remove"} \subseteq Op
    BY DEF Op, EnvOps, ModelOps, Building
<1>7. Entries("envs") \subseteq Entry /\ Entries("models") \subseteq Entry
    BY EntriesType DEF Registry
<1>8. \A e \in Entry : e.name \in Name
    BY DEF Entry
<1> HIDE DEF Entry
<1>9. ASSUME NEW op \in Op, NEW n \in Name, NEW stage \in Stages, BeginFiles(s, op, n, stage)
      PROVE  TypeOK'
    <2> USE <1>9 DEF BeginFiles
    <2>1. at' \in [Session -> Stages]
        BY DEF TypeOK
    <2>2. doing' \in [Session -> [op : Op, name : Name \cup {Nobody}]]
        BY <1>2 DEF TypeOK
    <2>3. files' \in [Name -> Levels]
        BY DEF TypeOK
    <2>4. meddled' \subseteq Session /\ ops' \in 0..MaxOps
        BY <1>3 DEF TypeOK, Others
    <2>5. UNCHANGED <<regVars, qos, tres, mem, faults>>
        OBVIOUS
    <2>6. QED
        BY <2>1, <2>2, <2>3, <2>4, <2>5 DEF TypeOK
<1>10. CASE StartBuild(s) \/ StartPrebuilt(s) \/ StartDownload(s)
    BY <1>5, <1>6, <1>9, <1>10 DEF StartBuild, StartPrebuilt, StartDownload, Stages
<1>11. CASE Create(s) \/ Pip(s) \/ Rmtree(s) \/ Fetch(s)
    <2> USE <1>11 DEF Create, Pip, Rmtree, Fetch
    <2>1. faults' \in 0..MaxFaults
        BY <1>4 DEF CondaFails, PipFails
    <2>2. files' \in [Name -> Levels]
        BY DEF TypeOK
    <2>3. at' \in [Session -> Stages]
        BY DEF TypeOK, Stages
    <2>4. doing' \in [Session -> [op : Op, name : Name \cup {Nobody}]]
        BY <1>1 DEF TypeOK
    <2>5. meddled' \subseteq Session /\ UNCHANGED mem
        BY DEF Meddles, Others, TypeOK
    <2>6. UNCHANGED <<regVars, qos, tres, ops>>
        OBVIOUS
    <2>7. QED
        BY <2>1, <2>2, <2>3, <2>4, <2>5, <2>6 DEF TypeOK
<1>12. CASE SmokeCheck(s) \/ Verify(s)
    <2> USE <1>12 DEF SmokeCheck, Verify
    <2>1. at' \in [Session -> Stages]
        BY DEF TypeOK, Stages
    <2>2. doing' \in [Session -> [op : Op, name : Name \cup {Nobody}]]
        BY <1>1 DEF TypeOK
    <2>3. faults' \in 0..MaxFaults
        BY <1>4
    <2>4. UNCHANGED <<regVars, files, qos, tres, mem, ops, meddled>>
        OBVIOUS
    <2>5. QED
        BY <2>1, <2>2, <2>3, <2>4 DEF TypeOK
<1>13. ASSUME NEW op \in Op, NEW n \in Name, NEW stage \in Stages, Begin(s, op, n, stage),
              meddled' = meddled \ {s}, UNCHANGED <<regVars, files, qos, tres, mem, faults>>
       PROVE  TypeOK'
    <2>1. at' \in [Session -> Stages]
        BY <1>13 DEF TypeOK
    <2>2. doing' \in [Session -> [op : Op, name : Name \cup {Nobody}]]
        BY <1>2, <1>13 DEF TypeOK
    <2>3. ops' \in 0..MaxOps
        BY <1>3, <1>13
    <2>4. QED
        BY <1>13, <2>1, <2>2, <2>3 DEF TypeOK
<1>14. CASE RegisterVenv(s) \/ StartDelete(s) \/ RemoveModel(s)
    <2>1. Offered \subseteq Name
        BY <1>5, <1>7, <1>8 DEF Offered
    <2>2. {"load", "rmtree"} \subseteq Stages
        BY DEF Stages
    <2> HIDE DEF Begin
    <2>3. QED
        BY <1>5, <1>6, <1>7, <1>8, <1>13, <1>14, <2>1, <2>2 DEF RegisterVenv, StartDelete, RemoveModel
<1>15. QED
    BY <1>10, <1>11, <1>12, <1>14 DEF Builds, Manages, Downloads
LEMMA LimitsTypes ==
    ASSUME TypeOK, StageInv, NEW s \in Session, Limits(s) \/ Die(s)
    PROVE  TypeOK'
<1> USE DEF regVars, fileVars, Goes, Ends, Begin
<1>1. Idle \in [op : Op, name : Name \cup {Nobody}]
    BY DEF Idle, Op, EnvOps, Building
<1>2. Fault \/ UNCHANGED faults => faults' \in 0..MaxFaults
    BY SharedStateAssumption DEF TypeOK, Fault
<1>3. NoLimits \in Tres
    BY DEF NoLimits, Tres
<1>4. CASE StartQos(s)
    <2>1. PICK l \in Limit : Begin(s, l, Nobody, "read")
        BY <1>4 DEF StartQos
    <2>2. [op |-> l, name |-> Nobody] \in [op : Op, name : Name \cup {Nobody}]
        BY DEF Op
    <2>3. doing' \in [Session -> [op : Op, name : Name \cup {Nobody}]]
        BY <2>1, <2>2 DEF TypeOK
    <2>4. ops' \in 0..MaxOps
        BY <2>1, SharedStateAssumption DEF TypeOK
    <2>5. at' \in [Session -> Stages]
        BY <2>1 DEF TypeOK, Stages
    <2>6. QED
        BY <1>4, <2>3, <2>4, <2>5 DEF StartQos, TypeOK
<1>5. CASE ReadQos(s)
    <2>1. \A l \in Limit, value \in 0..1 : Merge(l, value) \in Tres
        BY DEF Merge, TypeOK, Tres
    <2>2. at[s] = "read" => doing[s].op \in Limit
        BY DEF StageInv, AtStage
    <2>3. tres' \in [Session -> Tres]
        BY <1>5, <2>1, <2>2 DEF ReadQos, TypeOK
    <2>4. at' \in [Session -> Stages] /\ meddled' \subseteq Session /\ UNCHANGED mem
        BY <1>5 DEF ReadQos, TypeOK, Stages
    <2>5. doing' \in [Session -> [op : Op, name : Name \cup {Nobody}]]
        BY <1>1, <1>5 DEF ReadQos, TypeOK
    <2>6. faults' \in 0..MaxFaults
        BY <1>2, <1>5 DEF ReadQos
    <2>7. QED
        BY <1>5, <2>3, <2>4, <2>5, <2>6 DEF ReadQos, TypeOK
<1>6. CASE WriteQos(s)
    <2>1. qos' \in Tres /\ tres' \in [Session -> Tres]
        BY <1>3, <1>6 DEF WriteQos, TypeOK
    <2>2. at' \in [Session -> Stages] /\ meddled' \subseteq Session /\ UNCHANGED mem
        BY <1>6 DEF WriteQos, TypeOK, Stages, Others
    <2>3. doing' \in [Session -> [op : Op, name : Name \cup {Nobody}]]
        BY <1>1, <1>6 DEF WriteQos, TypeOK
    <2>4. faults' \in 0..MaxFaults
        BY <1>2, <1>6 DEF WriteQos
    <2>5. QED
        BY <1>6, <2>1, <2>2, <2>3, <2>4 DEF WriteQos, TypeOK
<1>7. CASE Die(s)
    <2>1. RegistryOf(doing[s].op) \in Registry
        BY DEF RegistryOf, Registry
    <2>2. disturbed' \cup torn' \subseteq Registry
        BY <1>7, <2>1 DEF Die, TypeOK
    <2>3. at' \in [Session -> Stages] /\ mem' \in [Session -> SUBSET Entry]
        BY <1>7 DEF Die, TypeOK, Stages
    <2>4. doing' \in [Session -> [op : Op, name : Name \cup {Nobody}]]
        BY <1>1, <1>7 DEF Die, TypeOK
    <2>5. faults' \in 0..MaxFaults /\ tres' \in [Session -> Tres]
        BY <1>2, <1>3, <1>7 DEF Die, TypeOK
    <2>6. QED
        BY <1>7, <2>2, <2>3, <2>4, <2>5 DEF Die, TypeOK
<1>8. QED
    BY <1>4, <1>5, <1>6, <1>7 DEF Limits

LEMMA TypeStep == ASSUME TypeOK, StageInv, [Next]_vars PROVE TypeOK'
<1>1. CASE UNCHANGED vars
    BY <1>1 DEF TypeOK, vars, regVars, fileVars
<1>2. CASE Next
    BY <1>2, RegistersTypes, FilesTypes, LimitsTypes DEF Next
<1>3. QED
    BY <1>1, <1>2

-------------------------------------------------------------------------------
(* A step is of one session and leaves what the others are at and about.   *)

LEMMA OneSteps ==
    ASSUME TypeOK, NEW s \in Session, NEW t \in Session \ {s},
           \/ Registers(s) \/ Builds(s) \/ Manages(s) \/ Downloads(s) \/ Limits(s) \/ Die(s)
    PROVE  at'[t] = at[t] /\ doing'[t] = doing[t] /\ mem'[t] = mem[t]
<1> USE DEF Goes, Ends, Begin, BeginFiles
<1>1. /\ \A v : at' = [at EXCEPT ![s] = v] => at'[t] = at[t]
      /\ \A v : doing' = [doing EXCEPT ![s] = v] => doing'[t] = doing[t]
      /\ \A v : mem' = [mem EXCEPT ![s] = v] => mem'[t] = mem[t]
    BY DEF TypeOK
<1>2. CASE Registers(s)
    BY <1>1, <1>2 DEF Registers, Load, Truncate, Close, MakeWritable
<1>3. CASE Builds(s)
    BY <1>1, <1>3 DEF Builds, StartBuild, StartPrebuilt, Create, Pip, SmokeCheck, Verify
<1>4. CASE Manages(s)
    BY <1>1, <1>4 DEF Manages, RegisterVenv, StartDelete, Rmtree
<1>5. CASE Downloads(s)
    BY <1>1, <1>5 DEF Downloads, StartDownload, Fetch, RemoveModel
<1>6. CASE Limits(s)
    BY <1>1, <1>6 DEF Limits, StartQos, ReadQos, WriteQos
<1>7. CASE Die(s)
    BY <1>1, <1>7 DEF Die
<1>8. QED
    BY <1>2, <1>3, <1>4, <1>5, <1>6, <1>7
LEMMA OwnStage ==
    ASSUME TypeOK, StageInv, NEW s \in Session,
           \/ Registers(s) \/ Builds(s) \/ Manages(s) \/ Downloads(s) \/ Limits(s) \/ Die(s)
    PROVE  AtStage(s)'
<1> USE DEF Goes, Ends, Begin, BeginFiles, Name_
<1>1. AtStage(s)
    BY DEF StageInv
<1>2. Env \subseteq Name /\ Model \subseteq Name
    BY DEF Name
<1>3. Entries("envs") \subseteq Entry /\ Entries("models") \subseteq Entry
    BY EntriesType DEF Registry
<1>4. \A e \in Entry : e.name \in Name
    BY DEF Entry
<1> HIDE DEF Entry
<1>5. ASSUME NEW stage, at' = [at EXCEPT ![s] = stage],
             NEW d, doing' = [doing EXCEPT ![s] = d]
      PROVE  at'[s] = stage /\ doing'[s] = d
    BY <1>5 DEF TypeOK
<1>6. ASSUME NEW stage, at' = [at EXCEPT ![s] = stage], UNCHANGED doing
      PROVE  at'[s] = stage /\ doing'[s] = doing[s]
    BY <1>6 DEF TypeOK
<1>7. at'[s] = "idle" => AtStage(s)'
    BY DEF AtStage
<1>8. CASE Registers(s)
    <2>1. CASE Load(s)
        <3>1. at'[s] = "idle" \/ (at[s] = "load" /\ at'[s] = "save" /\ doing'[s] = doing[s])
            BY <1>5, <1>6, <2>1 DEF Load
        <3>2. QED
            BY <1>1, <1>7, <3>1 DEF AtStage
    <2>2. CASE Truncate(s)
        <3>1. at'[s] = "idle" \/ (at[s] = "save" /\ at'[s] = "close" /\ doing'[s] = doing[s])
            BY <1>5, <1>6, <2>2 DEF Truncate
        <3>2. QED
            BY <1>1, <1>7, <3>1 DEF AtStage
    <2>3. CASE Close(s)
        <3>1. at[s] = "close" /\ at'[s] = "chmod" /\ doing'[s] = doing[s]
            BY <1>6, <2>3 DEF Close
        <3>2. QED
            BY <1>1, <3>1 DEF AtStage
    <2>4. CASE MakeWritable(s)
        BY <1>5, <1>7, <2>4 DEF MakeWritable
    <2>5. QED
        BY <1>8, <2>1, <2>2, <2>3, <2>4 DEF Registers
<1>9. CASE Builds(s)
    BY <1>1, <1>2, <1>5, <1>6, <1>7, <1>9
       DEF Builds, StartBuild, StartPrebuilt, Create, Pip, SmokeCheck, Verify, AtStage, EnvOps,
           Building
<1>10. CASE Manages(s)
    BY <1>1, <1>2, <1>3, <1>4, <1>5, <1>6, <1>7, <1>10
       DEF Manages, RegisterVenv, StartDelete, Rmtree, AtStage, Offered, EnvOps
<1>11. CASE Downloads(s)
    BY <1>1, <1>2, <1>3, <1>4, <1>5, <1>6, <1>7, <1>11
       DEF Downloads, StartDownload, Fetch, RemoveModel, AtStage, ModelOps
<1>12. CASE Limits(s) \/ Die(s)
    BY <1>1, <1>5, <1>6, <1>7, <1>12 DEF Limits, StartQos, ReadQos, WriteQos, Die, AtStage
<1>13. QED
    BY <1>8, <1>9, <1>10, <1>11, <1>12

LEMMA StageStep == ASSUME TypeOK, StageInv, [Next]_vars PROVE StageInv'
<1>1. CASE UNCHANGED vars
    BY <1>1 DEF StageInv, AtStage, Name_, vars
<1>2. ASSUME NEW s \in Session,
             \/ Registers(s) \/ Builds(s) \/ Manages(s) \/ Downloads(s) \/ Limits(s) \/ Die(s)
      PROVE  StageInv'
    <2>1. AtStage(s)'
        BY <1>2, OwnStage
    <2>2. ASSUME NEW t \in Session \ {s} PROVE AtStage(t)'
        <3>1. at'[t] = at[t] /\ doing'[t] = doing[t] /\ AtStage(t)
            BY <1>2, OneSteps DEF StageInv
        <3>2. QED
            BY <3>1 DEF AtStage, Name_
    <2>3. QED
        BY <2>1, <2>2 DEF StageInv
<1>3. QED
    BY <1>1, <1>2 DEF Next
-------------------------------------------------------------------------------
(* What is about to be listed: a session that works on a directory counts  *)
(* every other one that is about it as disturbed.                          *)

LEMMA FilesOthers ==
    ASSUME TypeOK, StageInv, NEW s \in Session, NEW t \in Session \ {s},
           \/ Registers(s) \/ Builds(s) \/ Manages(s) \/ Downloads(s) \/ Limits(s) \/ Die(s),
           at[t] # "idle", t \notin meddled'
    PROVE  t \notin meddled /\ (Name_(t) \in Name => files'[Name_(t)] = files[Name_(t)])
<1> USE DEF Goes, Begin, Name_
<1>1. at[t] \in Stages \ {"idle"}
    BY DEF TypeOK
<1>2. ASSUME UNCHANGED files, UNCHANGED meddled \/ meddled' = meddled \ {s} \/ meddled \subseteq meddled'
      PROVE  t \notin meddled /\ files'[Name_(t)] = files[Name_(t)]
    BY <1>2
<1>3. ASSUME NEW n, \E level : Sets(n, level) \/ UNCHANGED files,
             {u \in Others(s, Stages \ {"idle"}) : Name_(u) = n} \subseteq meddled',
             meddled \ {s} \subseteq meddled'
      PROVE  t \notin meddled /\ (Name_(t) \in Name => files'[Name_(t)] = files[Name_(t)])
    <2>1. Name_(t) # n
        BY <1>1, <1>3 DEF Others
    <2>2. Name_(t) \in Name => files'[Name_(t)] = files[Name_(t)]
        BY <1>3, <2>1 DEF Sets, TypeOK
    <2>3. QED
        BY <1>3, <2>2
<1>4. CASE Registers(s) \/ Limits(s) \/ Die(s)
    BY <1>2, <1>4 DEF Registers, Load, Truncate, Close, MakeWritable, Limits, StartQos, ReadQos,
       WriteQos, Die
<1>5. CASE SmokeCheck(s) \/ Verify(s) \/ RegisterVenv(s) \/ StartDelete(s) \/ RemoveModel(s)
    BY <1>2, <1>5 DEF SmokeCheck, Verify, RegisterVenv, StartDelete, RemoveModel
<1>6. ASSUME NEW op, NEW n, NEW stage, BeginFiles(s, op, n, stage)
      PROVE  t \notin meddled /\ (Name_(t) \in Name => files'[Name_(t)] = files[Name_(t)])
    <2>1. Sets(n, "part") \/ UNCHANGED files
        BY <1>6 DEF BeginFiles
    <2>2. /\ {u \in Others(s, Stages \ {"idle"}) : Name_(u) = n} \subseteq meddled'
          /\ meddled \ {s} \subseteq meddled'
        BY <1>6 DEF BeginFiles
    <2>3. QED
        BY <1>3, <2>1, <2>2
<1>7. CASE Create(s) \/ Pip(s) \/ Rmtree(s) \/ Fetch(s)
    <2>1. \E level : Sets(Name_(s), level) \/ UNCHANGED files
        BY <1>7 DEF Create, Pip, Rmtree, Fetch
    <2>2. Meddles(s, Name_(s))
        BY <1>7 DEF Create, Pip, Rmtree, Fetch
    <2>3. /\ {u \in Others(s, Stages \ {"idle"}) : Name_(u) = Name_(s)} \subseteq meddled'
          /\ meddled \ {s} \subseteq meddled'
        BY <2>2 DEF Meddles
    <2> HIDE DEF Name_
    <2>4. QED
        BY <1>3, <2>1, <2>3
<1>8. QED
    BY <1>4, <1>5, <1>6, <1>7 DEF Builds, Manages, Downloads, StartBuild, StartPrebuilt, StartDownload
LEMMA FilesOwn ==
    ASSUME TypeOK, StageInv, VerifiedBeforeListed, PipDone, NEW s \in Session,
           \/ Registers(s) \/ Builds(s) \/ Manages(s) \/ Downloads(s) \/ Limits(s) \/ Die(s),
           at'[s] \in {"load", "save", "close", "smoke"}, s \notin meddled'
    PROVE  Verified(s)'
<1> USE DEF Goes, Begin, BeginFiles, Ends, Name_
<1>1. /\ AtStage(s)
      /\ at[s] \in {"load", "save", "close", "smoke"} /\ s \notin meddled => Verified(s)
    BY DEF StageInv, VerifiedBeforeListed, PipDone
<1>2. ASSUME NEW stage, at' = [at EXCEPT ![s] = stage] PROVE at'[s] = stage
    BY <1>2 DEF TypeOK
<1>3. ASSUME NEW d, doing' = [doing EXCEPT ![s] = d] PROVE doing'[s] = d
    BY <1>3 DEF TypeOK
<1>4. ASSUME NEW n, Meddles(s, n) PROVE s \notin meddled
    BY <1>4 DEF Meddles
<1>5. ASSUME NEW n \in Name, NEW level, Sets(n, level) PROVE files'[n] = level
    BY <1>5 DEF Sets, TypeOK
<1>6. CASE Registers(s)
    <2>1. /\ at[s] \in {"load", "save"} /\ UNCHANGED <<files, meddled>>
          /\ doing'[s] = doing[s]
        BY <1>2, <1>3, <1>6 DEF Registers, Load, Truncate, Close, MakeWritable
    <2>2. QED
        BY <1>1, <2>1 DEF Verified
<1>7. CASE StartBuild(s) \/ StartPrebuilt(s) \/ StartDownload(s) \/ StartDelete(s) \/ Limits(s) \/ Die(s)
    BY <1>2, <1>7 DEF StartBuild, StartPrebuilt, StartDownload, StartDelete, Limits, StartQos,
       ReadQos, WriteQos, Die
<1>8. CASE RegisterVenv(s) \/ RemoveModel(s)
    <2>1. doing'[s].op \in {"venv", "remove"}
        BY <1>3, <1>8 DEF RegisterVenv, RemoveModel
    <2>2. QED
        BY <2>1 DEF Verified
<1>9. CASE Create(s)
    <2>1. at'[s] = "load" /\ doing'[s] = doing[s] /\ doing[s].op = "bare" /\ Name_(s) \in Name
          /\ Sets(Name_(s), "python")
        BY <1>1, <1>2, <1>3, <1>9 DEF Create, AtStage
    <2>2. files'[Name_(s)] = "python"
        BY <1>5, <2>1
    <2>3. QED
        BY <2>1, <2>2 DEF Verified
<1>10. CASE Pip(s)
    <2>1. /\ at'[s] = "smoke" /\ doing'[s] = doing[s] /\ doing[s].op = "packages"
          /\ Name_(s) \in Name /\ Sets(Name_(s), "full")
        BY <1>1, <1>2, <1>3, <1>10 DEF Pip, AtStage
    <2>2. files'[Name_(s)] = "full"
        BY <1>5, <2>1
    <2>3. QED
        BY <2>1, <2>2 DEF Verified
<1>11. CASE SmokeCheck(s)
    <2>1. /\ at[s] = "smoke" /\ UNCHANGED <<files, meddled>> /\ doing'[s] = doing[s]
        BY <1>2, <1>11 DEF SmokeCheck
    <2>2. QED
        BY <1>1, <2>1 DEF Verified
<1>12. CASE Verify(s)
    <2>1. /\ at[s] = "verify" /\ files[Name_(s)] = "full" /\ UNCHANGED files /\ doing'[s] = doing[s]
        BY <1>2, <1>12 DEF Verify
    <2>2. QED
        BY <1>1, <2>1 DEF Verified, AtStage
<1>13. CASE Rmtree(s)
    <2>1. /\ at[s] = "rmtree" /\ doing'[s] = doing[s] /\ Sets(Name_(s), "none")
        BY <1>2, <1>13 DEF Rmtree
    <2>2. doing[s].op = "delete" /\ files'[Name_(s)] = "none"
        BY <1>1, <1>5, <2>1 DEF AtStage
    <2>3. QED
        BY <2>1, <2>2 DEF Verified
<1>14. CASE Fetch(s)
    <2>1. /\ at[s] = "fetch" /\ doing'[s] = doing[s] /\ Sets(Name_(s), "full")
        BY <1>2, <1>14 DEF Fetch
    <2>2. doing[s].op = "download" /\ files'[Name_(s)] = "full"
        BY <1>1, <1>5, <2>1 DEF AtStage
    <2>3. QED
        BY <2>1, <2>2 DEF Verified
<1>15. QED
    BY <1>6, <1>7, <1>8, <1>9, <1>10, <1>11, <1>12, <1>13, <1>14 DEF Builds, Manages, Downloads

LEMMA FilesStep ==
    ASSUME TypeOK, StageInv, VerifiedBeforeListed, PipDone, [Next]_vars
    PROVE  VerifiedBeforeListed' /\ PipDone'
<1>1. CASE UNCHANGED vars
    BY <1>1 DEF VerifiedBeforeListed, PipDone, Verified, Name_, vars
<1>2. ASSUME NEW s \in Session,
             \/ Registers(s) \/ Builds(s) \/ Manages(s) \/ Downloads(s) \/ Limits(s) \/ Die(s)
      PROVE  VerifiedBeforeListed' /\ PipDone'
    <2>1. ASSUME NEW t \in Session, at'[t] \in {"load", "save", "close", "smoke"}, t \notin meddled'
          PROVE  Verified(t)'
        <3>1. CASE t = s
            BY <1>2, <2>1, <3>1, FilesOwn
        <3>2. CASE t # s
            <4>1. at'[t] = at[t] /\ doing'[t] = doing[t]
                BY <1>2, <3>2, OneSteps
            <4>2. Name_(t) \in Name
                BY <2>1, <4>1 DEF StageInv, AtStage
            <4>3. t \notin meddled /\ files'[Name_(t)] = files[Name_(t)]
                BY <1>2, <2>1, <3>2, <4>1, <4>2, FilesOthers
            <4>4. Verified(t)
                BY <2>1, <4>1, <4>3 DEF VerifiedBeforeListed, PipDone
            <4>5. QED
                BY <4>1, <4>3, <4>4 DEF Verified, Name_
        <3>3. QED
            BY <3>1, <3>2
    <2>2. QED
        BY <2>1 DEF VerifiedBeforeListed, PipDone
<1>3. QED
    BY <1>1, <1>2 DEF Next
-------------------------------------------------------------------------------
(* The registries, one at a time.                                          *)

WholeFile(r) ==
    /\ \A s \in Saving(r) : Saving(r) = {s} /\ content[r] = <<>>
    /\ Dumped(r) /\ Saving(r) = {} => Readable(r)
InTurns(r) ==
    /\ \A s \in Saving(r) : Pending(r) = {s}
    /\ \A s \in Pending(r) : mem[s] = Change(expected[r], doing[s])
    /\ Saving(r) = {} => Entries(r) = expected[r]
RegInv(r) ==
    /\ r \in torn => r \in disturbed
    /\ r \notin torn => WholeFile(r)
    /\ r \notin disturbed => InTurns(r)

LEMMA RegInvs ==
    TypeOK => ( (\A r \in Registry : RegInv(r)) <=>
                  /\ torn \subseteq disturbed /\ EmptyWhileSaved /\ WholeUnlessTorn
                  /\ OneSaves /\ SerialRegistry )
BY DEF TypeOK, RegInv, WholeFile, InTurns, EmptyWhileSaved, WholeUnlessTorn, OneSaves,
   SerialRegistry

(* A registry that a step does not save into.                              *)
LEMMA RegKept ==
    ASSUME NEW r \in Registry, RegInv(r),
           content'[r] = content[r], creator'[r] = creator[r], expected'[r] = expected[r],
           r \in torn' <=> r \in torn, r \in disturbed' <=> r \in disturbed,
           Saving(r)' = Saving(r), Pending(r)' \subseteq Pending(r),
           \A s \in Pending(r)' : mem'[s] = mem[s] /\ doing'[s] = doing[s]
    PROVE  RegInv(r)'
<1>1. Entries(r)' = Entries(r) /\ (Readable(r)' <=> Readable(r)) /\ (Dumped(r)' <=> Dumped(r))
    BY DEF Entries, Readable, Dumped
<1>2. r \notin torn => WholeFile(r)'
    BY <1>1 DEF RegInv, WholeFile
<1>3. Saving(r)' \subseteq Pending(r)'
    BY DEF Saving, Pending
<1>4. \A s \in Pending(r)' : Change(expected[r], doing[s])' = Change(expected[r], doing[s])
    BY DEF Change, KindOf
<1> HIDE DEF Change
<1>5. r \notin disturbed => InTurns(r)'
    BY <1>1, <1>3, <1>4 DEF RegInv, InTurns
<1>6. QED
    BY <1>2, <1>5 DEF RegInv

(* A step of a session that saves nothing before or after it.              *)
LEMMA NoSave ==
    ASSUME NEW s \in Session, at[s] # "close", at'[s] \notin {"save", "close"},
           \A t \in Session \ {s} : at'[t] = at[t] /\ doing'[t] = doing[t] /\ mem'[t] = mem[t],
           UNCHANGED <<content, creator, expected, disturbed, torn>>,
           NEW r \in Registry, RegInv(r)
    PROVE  RegInv(r)'
<1>1. Saving(r)' = Saving(r)
    BY DEF Saving
<1>2. /\ Pending(r)' \subseteq Pending(r)
      /\ \A t \in Pending(r)' : mem'[t] = mem[t] /\ doing'[t] = doing[t]
    BY DEF Pending
<1>3. QED
    BY <1>1, <1>2, RegKept

(* The registry that a step of a session is not about.                     *)
LEMMA OtherReg ==
    ASSUME NEW s \in Session, NEW r \in Registry, RegInv(r), RegistryOf(doing[s].op) # r,
           at'[s] \notin {"save", "close"} \/ doing'[s] = doing[s],
           \A t \in Session \ {s} : at'[t] = at[t] /\ doing'[t] = doing[t] /\ mem'[t] = mem[t],
           content'[r] = content[r], creator'[r] = creator[r], expected'[r] = expected[r],
           r \in torn' <=> r \in torn, r \in disturbed' <=> r \in disturbed
    PROVE  RegInv(r)'
<1> HIDE DEF RegistryOf
<1>1. Saving(r)' = Saving(r)
    BY DEF Saving
<1>2. /\ Pending(r)' \subseteq Pending(r)
      /\ \A t \in Pending(r)' : mem'[t] = mem[t] /\ doing'[t] = doing[t]
    BY DEF Pending
<1>3. QED
    BY <1>1, <1>2, RegKept
LEMMA LoadReg ==
    ASSUME TypeOK, StageInv, NEW s \in Session, Load(s), at'[s] = "save", doing'[s] = doing[s],
           \A t \in Session \ {s} : at'[t] = at[t] /\ doing'[t] = doing[t] /\ mem'[t] = mem[t],
           NEW r \in Registry, RegInv(r), RegistryOf(doing[s].op) = r
    PROVE  RegInv(r)'
<1>1. /\ at[s] = "load" /\ UNCHANGED <<content, creator, expected, torn>>
      /\ disturbed' = IF Using(s, r, {"close"}) # {} THEN disturbed \cup {r} ELSE disturbed
    BY DEF Load, Goes, fileVars
<1>2. mem'[s] = Change(Entries(r), doing[s])
    <2> DEFINE gone == doing[s].op = "remove" /\ \A e \in Entries(r) : e.name # Name_(s)
               v == IF gone THEN {} ELSE Change(Entries(r), doing[s])
               w == IF gone THEN "idle" ELSE "save"
    <2>1. mem' = [mem EXCEPT ![s] = v] /\ at' = [at EXCEPT ![s] = w]
        BY DEF Load, Goes
    <2>2. mem'[s] = v /\ at'[s] = w
        BY <2>1 DEF TypeOK
    <2> HIDE DEF gone
    <2>3. QED
        BY <2>2
<1> HIDE DEF RegistryOf, Change
<1>3. Saving(r)' = Saving(r) /\ Pending(r)' = Pending(r) \cup {s}
    BY <1>1 DEF Saving, Pending
<1>4. Entries(r)' = Entries(r) /\ (Readable(r)' <=> Readable(r)) /\ (Dumped(r)' <=> Dumped(r))
    BY <1>1 DEF Entries, Readable, Dumped
<1>5. r \notin torn' => WholeFile(r)'
    BY <1>1, <1>3, <1>4 DEF RegInv, WholeFile
<1>6. ASSUME r \notin disturbed' PROVE InTurns(r)'
    <2>1. Using(s, r, {"close"}) = {} /\ r \notin disturbed
        BY <1>1, <1>6
    <2>2. Saving(r) = {}
        BY <1>1, <2>1 DEF Saving, Using, Others
    <2>3. InTurns(r) /\ Entries(r) = expected[r] /\ mem'[s] = Change(expected[r], doing[s])
        BY <1>2, <2>1, <2>2 DEF RegInv, InTurns
    <2>4. \A t \in Session : doing'[t] = doing[t]
        OBVIOUS
    <2>5. ASSUME NEW t \in Pending(r)' PROVE mem'[t] = Change(expected[r], doing[t])
        <3>1. t \in Session
            BY DEF Pending
        <3>2. QED
            BY <1>3, <2>3, <2>5, <3>1 DEF InTurns
    <2>6. \A t \in Pending(r)' : Change(expected[r], doing[t])' = Change(expected[r], doing[t])
        BY <1>1, <2>4 DEF Pending, Change, KindOf
    <2>7. QED
        BY <1>1, <1>3, <1>4, <2>2, <2>3, <2>5, <2>6 DEF InTurns
<1>7. QED
    BY <1>1, <1>5, <1>6 DEF RegInv

LEMMA TruncateReg ==
    ASSUME TypeOK, NEW s \in Session, Truncate(s), at'[s] = "close", doing'[s] = doing[s],
           \A t \in Session \ {s} : at'[t] = at[t] /\ doing'[t] = doing[t] /\ mem'[t] = mem[t],
           NEW r \in Registry, RegInv(r), RegistryOf(doing[s].op) = r
    PROVE  RegInv(r)'
<1>1. ~Refused(s, r)
    BY DEF Truncate, TypeOK
<1>2. /\ at[s] = "save" /\ content'[r] = <<>> /\ UNCHANGED <<expected, mem>>
      /\ disturbed' = IF Using(s, r, {"save", "close"}) # {} THEN disturbed \cup {r} ELSE disturbed
      /\ torn' = IF Using(s, r, {"close"}) # {} THEN torn \cup {r} ELSE torn \ {r}
    BY <1>1 DEF Truncate, Truncated, TypeOK
<1> HIDE DEF RegistryOf, Change
<1>3. Saving(r)' = Saving(r) \cup {s} /\ Pending(r)' = Pending(r) /\ s \in Pending(r)
    BY <1>2 DEF Saving, Pending
<1>4. Using(s, r, {"close"}) \subseteq Using(s, r, {"save", "close"})
    BY DEF Using, Others
<1>5. ASSUME r \notin torn' PROVE WholeFile(r)'
    <2>1. Using(s, r, {"close"}) = {}
        BY <1>2, <1>5
    <2>2. Saving(r) = {}
        BY <1>2, <2>1 DEF Saving, Using, Others
    <2>3. QED
        BY <1>2, <1>3, <2>2 DEF WholeFile
<1>6. ASSUME r \notin disturbed' PROVE InTurns(r)'
    <2>1. Using(s, r, {"save", "close"}) = {} /\ r \notin disturbed
        BY <1>2, <1>6
    <2>2. Pending(r) = {s}
        BY <1>2, <1>3, <2>1 DEF Pending, Using, Others
    <2>3. Saving(r)' = {s} /\ Pending(r)' = {s}
        BY <1>3, <2>2 DEF Saving, Pending
    <2>4. mem'[s] = Change(expected[r], doing[s])
        BY <1>2, <2>1, <2>2 DEF RegInv, InTurns
    <2>5. Change(expected[r], doing[s])' = Change(expected[r], doing[s])
        BY <1>2 DEF Change, KindOf
    <2>6. QED
        BY <2>3, <2>4, <2>5 DEF InTurns
<1>7. r \in torn' => r \in disturbed'
    BY <1>2, <1>4
<1>8. QED
    BY <1>5, <1>6, <1>7 DEF RegInv

LEMMA CloseReg ==
    ASSUME TypeOK, NEW s \in Session, Close(s),
           \A t \in Session \ {s} : at'[t] = at[t] /\ doing'[t] = doing[t] /\ mem'[t] = mem[t],
           NEW r \in Registry, RegInv(r), RegistryOf(doing[s].op) = r
    PROVE  RegInv(r)'
<1>1. /\ at[s] = "close" /\ at'[s] = "chmod" /\ content'[r] = Append(content[r], mem[s])
      /\ expected'[r] = Change(expected[r], doing[s])
      /\ UNCHANGED <<doing, mem, creator, torn, disturbed>>
    BY DEF Close, Goes, TypeOK
<1> HIDE DEF RegistryOf, Change
<1>2. s \in Saving(r) /\ Saving(r)' = Saving(r) \ {s} /\ Pending(r)' = Pending(r) \ {s}
    BY <1>1 DEF Saving, Pending
<1>3. ASSUME r \notin torn PROVE Saving(r)' = {} /\ content'[r] = <<mem[s]>>
    <2>1. Saving(r) = {s} /\ content[r] = <<>>
        BY <1>2, <1>3 DEF RegInv, WholeFile
    <2>2. Append(<<>>, mem[s]) = <<mem[s]>>
        OBVIOUS
    <2>3. QED
        BY <1>1, <1>2, <2>1, <2>2
<1>4. ASSUME content'[r] = <<mem[s]>> PROVE Readable(r)' /\ Entries(r)' = mem[s]
    BY <1>4 DEF Readable, Entries
<1>5. r \notin torn => WholeFile(r)'
    BY <1>3, <1>4 DEF WholeFile
<1>6. ASSUME r \notin disturbed PROVE InTurns(r)'
    <2>1. r \notin torn /\ Pending(r) = {s} /\ mem[s] = Change(expected[r], doing[s])
        BY <1>2, <1>6 DEF RegInv, InTurns, Saving, Pending
    <2>2. QED
        BY <1>1, <1>2, <1>3, <1>4, <2>1 DEF InTurns
<1>7. QED
    BY <1>1, <1>5, <1>6 DEF RegInv
(* What a session that dies while it saves leaves is torn.                 *)
LEMMA DieReg ==
    ASSUME TypeOK, NEW s \in Session, Die(s), at[s] = "close", at'[s] = "idle",
           \A t \in Session \ {s} : at'[t] = at[t] /\ doing'[t] = doing[t] /\ mem'[t] = mem[t],
           NEW r \in Registry, RegInv(r), RegistryOf(doing[s].op) = r
    PROVE  RegInv(r)'
<1>1. r \in torn' /\ r \in disturbed'
    BY DEF Die
<1>2. QED
    BY <1>1 DEF RegInv

LEMMA RegStep ==
    ASSUME TypeOK, StageInv, [Next]_vars, NEW r \in Registry, RegInv(r)
    PROVE  RegInv(r)'
<1>1. CASE UNCHANGED vars
    <2>1. /\ Saving(r)' = Saving(r) /\ Pending(r)' = Pending(r)
          /\ UNCHANGED <<content, creator, expected, torn, disturbed, mem, doing>>
        BY <1>1 DEF vars, regVars, fileVars, Saving, Pending
    <2>2. QED
        BY <2>1, RegKept
<1>2. ASSUME NEW s \in Session,
             \/ Registers(s) \/ Builds(s) \/ Manages(s) \/ Downloads(s) \/ Limits(s) \/ Die(s)
      PROVE  RegInv(r)'
    <2> DEFINE q == RegistryOf(doing[s].op)
    <2>1. \A t \in Session \ {s} : at'[t] = at[t] /\ doing'[t] = doing[t] /\ mem'[t] = mem[t]
        BY <1>2, OneSteps
    <2>2. /\ \A v : at' = [at EXCEPT ![s] = v] => at'[s] = v
          /\ \A v : doing' = [doing EXCEPT ![s] = v] => doing'[s] = v
        BY DEF TypeOK
    <2>3. UNCHANGED doing => doing'[s] = doing[s]
        OBVIOUS
    <2>4. q \in Registry
        BY DEF RegistryOf, Registry
    <2> HIDE DEF q
    <2>5. CASE Load(s)
        <3>1. /\ at[s] = "load" /\ UNCHANGED <<content, creator, expected, torn>>
              /\ disturbed' \in {disturbed, disturbed \cup {q}}
              /\ at'[s] = "idle" \/ (at'[s] = "save" /\ doing'[s] = doing[s])
            BY <2>2, <2>5 DEF Load, Goes, fileVars, q
        <3>2. CASE at'[s] = "save" /\ q = r
            BY <2>1, <2>5, <3>1, <3>2, LoadReg DEF q
        <3>3. CASE q # r
            BY <2>1, <3>1, <3>3, OtherReg DEF q
        <3>4. CASE at'[s] = "idle" /\ q = r
            <4>1. Saving(r)' = Saving(r) /\ Pending(r)' = Pending(r)
                BY <2>1, <3>1, <3>4 DEF Saving, Pending
            <4>2. CASE UNCHANGED disturbed
                BY <2>1, <3>1, <3>4, <4>2, NoSave
            <4>3. CASE disturbed' = disturbed \cup {q}
                <5>1. (Readable(r)' <=> Readable(r)) /\ (Dumped(r)' <=> Dumped(r))
                    BY <3>1 DEF Readable, Dumped
                <5>2. QED
                    BY <3>1, <3>4, <4>1, <4>3, <5>1 DEF RegInv, WholeFile
            <4>4. QED
                BY <3>1, <4>2, <4>3
        <3>5. QED
            BY <3>1, <3>2, <3>3, <3>4
    <2>6. CASE Truncate(s)
        <3>1. CASE Refused(s, q)
            <4>1. /\ at[s] = "save" /\ at'[s] = "idle"
                  /\ UNCHANGED <<content, creator, expected, disturbed, torn>>
                BY <2>2, <2>6, <3>1 DEF Truncate, q
            <4>2. QED
                BY <2>1, <4>1, NoSave
        <3>2. CASE ~Refused(s, q)
            <4>1. /\ at'[s] = "close" /\ doing'[s] = doing[s] /\ UNCHANGED expected
                  /\ content' = [content EXCEPT ![q] = <<>>]
                  /\ creator' = [creator EXCEPT ![q] = IF @ = Nobody THEN s ELSE @]
                  /\ disturbed' \in {disturbed, disturbed \cup {q}}
                  /\ torn' \in {torn \cup {q}, torn \ {q}}
                BY <2>2, <2>6, <3>2 DEF Truncate, Truncated, q
            <4>2. CASE q = r
                BY <2>1, <2>6, <4>1, <4>2, TruncateReg DEF q
            <4>3. CASE q # r
                <5>1. content'[r] = content[r] /\ creator'[r] = creator[r]
                    BY <4>1, <4>3 DEF TypeOK
                <5>2. QED
                    BY <2>1, <4>1, <4>3, <5>1, OtherReg DEF q
            <4>4. QED
                BY <4>2, <4>3
        <3>3. QED
            BY <3>1, <3>2
    <2>7. CASE Close(s)
        <3>1. CASE q = r
            BY <2>1, <2>7, <3>1, CloseReg DEF q
        <3>2. CASE q # r
            <4>1. /\ content'[r] = content[r] /\ expected'[r] = expected[r] /\ at'[s] = "chmod"
                  /\ UNCHANGED <<creator, disturbed, torn>>
                BY <2>2, <2>7, <3>2 DEF Close, Goes, TypeOK, q
            <4>2. QED
                BY <2>1, <3>2, <4>1, OtherReg DEF q
        <3>3. QED
            BY <3>1, <3>2
    <2>8. CASE Die(s)
        <3>1. at'[s] = "idle" /\ UNCHANGED <<content, creator, expected>>
            BY <2>2, <2>8 DEF Die, fileVars
        <3>2. CASE at[s] # "close"
            <4>1. UNCHANGED <<disturbed, torn>>
                BY <2>8, <3>2 DEF Die
            <4>2. QED
                BY <2>1, <3>1, <3>2, <4>1, NoSave
        <3>3. CASE at[s] = "close"
            <4>1. disturbed' = disturbed \cup {q} /\ torn' = torn \cup {q}
                BY <2>8, <3>3 DEF Die, q
            <4>2. CASE q = r
                BY <2>1, <2>8, <3>1, <3>3, <4>2, DieReg DEF q
            <4>3. CASE q # r
                BY <2>1, <3>1, <4>1, <4>3, OtherReg DEF q
            <4>4. QED
                BY <4>2, <4>3
        <3>4. QED
            BY <3>2, <3>3
    <2>9. CASE MakeWritable(s) \/ Builds(s) \/ Manages(s) \/ Downloads(s) \/ Limits(s)
        <3> USE <2>9 DEF Goes, Ends, Begin, BeginFiles, regVars, fileVars
        <3>1. UNCHANGED <<content, creator, expected, disturbed, torn>>
            BY DEF MakeWritable, Builds, StartBuild, StartPrebuilt, Create, Pip, SmokeCheck, Verify,
               Manages, RegisterVenv, StartDelete, Rmtree, Downloads, StartDownload, Fetch,
               RemoveModel, Limits, StartQos, ReadQos, WriteQos
        <3>2. at[s] # "close" /\ at'[s] \notin {"save", "close"}
            BY <2>2 DEF MakeWritable, Builds, StartBuild, StartPrebuilt, Create, Pip, SmokeCheck,
               Verify, Manages, RegisterVenv, StartDelete, Rmtree, Downloads, StartDownload, Fetch,
               RemoveModel, Limits, StartQos, ReadQos, WriteQos
        <3>3. QED
            BY <2>1, <3>1, <3>2, NoSave
    <2>10. QED
        BY <1>2, <2>5, <2>6, <2>7, <2>8, <2>9 DEF Registers
<1>3. QED
    BY <1>1, <1>2 DEF Next
-------------------------------------------------------------------------------
(* The limits of a QOS.                                                    *)

LEMMA LimitsStep ==
    ASSUME TypeOK, StageInv, LimitsFresh, [Next]_vars
    PROVE  LimitsFresh'
<1>1. CASE UNCHANGED vars
    BY <1>1 DEF LimitsFresh, vars
<1>2. ASSUME NEW s \in Session,
             \/ Registers(s) \/ Builds(s) \/ Manages(s) \/ Downloads(s) \/ Limits(s) \/ Die(s)
      PROVE  LimitsFresh'
    <2> USE DEF Goes, Ends, Begin, BeginFiles
    <2>1. \A t \in Session \ {s} : at'[t] = at[t] /\ doing'[t] = doing[t]
        BY <1>2, OneSteps
    <2>2. /\ \A v : at' = [at EXCEPT ![s] = v] => at'[s] = v
          /\ \A v : tres' = [tres EXCEPT ![s] = v] =>
                 tres'[s] = v /\ \A t \in Session \ {s} : tres'[t] = tres[t]
        BY DEF TypeOK
    <2>3. ASSUME \A t \in Session \ {s} : tres'[t] = tres[t] /\ (t \in meddled => t \in meddled'),
                 qos' = qos,
                 at'[s] = "write" /\ s \notin meddled' =>
                     \A l \in Limit \ {doing'[s].op} : tres'[s][l] = qos[l]
          PROVE  LimitsFresh'
        BY <2>1, <2>3 DEF LimitsFresh
    <2>4. CASE Registers(s)
        <3>1. UNCHANGED <<qos, tres, meddled>> /\ at'[s] # "write"
            BY <2>2, <2>4 DEF Registers, Load, Truncate, Close, MakeWritable
        <3>2. QED
            BY <2>3, <3>1
    <2>5. CASE Builds(s) \/ Manages(s) \/ Downloads(s) \/ StartQos(s)
        <3> USE <2>5 DEF Builds, StartBuild, StartPrebuilt, Create, Pip, SmokeCheck, Verify,
               Manages, RegisterVenv, StartDelete, Rmtree, Downloads, StartDownload, Fetch,
               RemoveModel, StartQos
        <3>1. UNCHANGED <<qos, tres>>
            OBVIOUS
        <3>2. at'[s] # "write"
            BY <2>2
        <3>3. \A t \in Session \ {s} : t \in meddled => t \in meddled'
            BY DEF Meddles
        <3>4. QED
            BY <2>3, <3>1, <3>2, <3>3
    <2>6. CASE ReadQos(s)
        <3>1. qos' = qos /\ \A t \in Session \ {s} : tres'[t] = tres[t] /\ (t \in meddled => t \in meddled')
            BY <2>2, <2>6 DEF ReadQos
        <3>2. ASSUME at'[s] = "write"
              PROVE  \A l \in Limit \ {doing'[s].op} : tres'[s][l] = qos[l]
            <4>1. PICK value \in 0..1 : tres' = [tres EXCEPT ![s] = Merge(doing[s].op, value)]
                BY <2>2, <2>6, <3>2 DEF ReadQos
            <4>2. tres'[s] = Merge(doing[s].op, value)
                BY <2>2, <4>1
            <4>3. doing' = doing
                BY <2>2, <2>6, <3>2 DEF ReadQos
            <4>4. QED
                BY <4>2, <4>3 DEF Merge, TypeOK, Tres
        <3>3. QED
            BY <2>3, <3>1, <3>2
    <2>7. CASE WriteQos(s)
        <3>1. at'[s] = "idle" /\ \A t \in Session \ {s} : tres'[t] = tres[t]
            BY <2>2, <2>7 DEF WriteQos
        <3>2. CASE UNCHANGED <<qos, meddled>>
            BY <2>3, <3>1, <3>2
        <3>3. CASE meddled' = meddled \cup Others(s, {"write"})
            <4>1. \A t \in Session : ~(at'[t] = "write" /\ t \notin meddled')
                BY <2>1, <3>1, <3>3 DEF Others
            <4>2. QED
                BY <4>1 DEF LimitsFresh
        <3>4. QED
            BY <2>7, <3>2, <3>3 DEF WriteQos
    <2>8. CASE Die(s)
        <3>1. UNCHANGED <<qos, meddled>> /\ at'[s] = "idle" /\ \A t \in Session \ {s} : tres'[t] = tres[t]
            BY <2>2, <2>8 DEF Die
        <3>2. QED
            BY <2>3, <3>1
    <2>9. QED
        BY <1>2, <2>4, <2>5, <2>6, <2>7, <2>8 DEF Limits
<1>3. QED
    BY <1>1, <1>2 DEF Next

-------------------------------------------------------------------------------
(* The types, and what is registered was verified (build_env,              *)
(* _run_install_prebuilt and the downloads register last): a session that  *)
(* is about to list an environment or a model has seen it built or         *)
(* fetched, and its files are still so unless another works on them.       *)
THEOREM SharedStateInv == Spec => []IInv
<1>1. Init => IInv
    <2> SUFFICES ASSUME Init PROVE IInv
        OBVIOUS
    <2> USE DEF Init
    <2>1. TypeOK
        <3> DEFINE T == SUBSET Entry
        <3>1. <<>> \in Seq(T)
            OBVIOUS
        <3> HIDE DEF T
        <3>2. content \in [Registry -> Seq(T)]
            BY <3>1
        <3>3. NoLimits \in Tres /\ Idle \in [op : Op, name : Name \cup {Nobody}]
            BY DEF NoLimits, Tres, Idle, Op, EnvOps, Building
        <3>4. ops \in 0..MaxOps /\ faults \in 0..MaxFaults
            BY SharedStateAssumption
        <3>5. QED
            BY <3>2, <3>3, <3>4 DEF TypeOK, Stages, T
    <2>2. StageInv /\ VerifiedBeforeListed /\ PipDone /\ LimitsFresh
        BY DEF StageInv, AtStage, VerifiedBeforeListed, PipDone, LimitsFresh
    <2>3. \A r \in Registry : RegInv(r)
        BY DEF RegInv, WholeFile, InTurns, Saving, Pending, Dumped, Entries, Readable
    <2>4. QED
        BY <2>1, <2>2, <2>3, RegInvs DEF IInv
<1>2. IInv /\ [Next]_vars => IInv'
    <2> SUFFICES ASSUME IInv, [Next]_vars PROVE IInv'
        OBVIOUS
    <2>1. TypeOK' /\ StageInv'
        BY TypeStep, StageStep DEF IInv
    <2>2. VerifiedBeforeListed' /\ PipDone' /\ LimitsFresh'
        BY FilesStep, LimitsStep DEF IInv
    <2>3. \A r \in Registry : RegInv(r)
        BY RegInvs DEF IInv
    <2>4. \A r \in Registry : RegInv(r)'
        BY <2>3, RegStep DEF IInv
    <2>5. /\ (torn \subseteq disturbed)' /\ EmptyWhileSaved' /\ WholeUnlessTorn'
          /\ OneSaves' /\ SerialRegistry'
        <3>1. (\A r \in Registry : RegInv(r))'
            BY <2>4 DEF Registry
        <3>2. QED
            BY <2>1, <3>1, RegInvs, PTL
    <2>6. QED
        BY <2>1, <2>2, <2>5 DEF IInv
<1>3. QED
    BY <1>1, <1>2, PTL DEF Spec

(* A registry holds what was registered and not removed, as if its saves   *)
(* had taken turns, until two of them use it at once or one is left half   *)
(* done (_load_ and _save_venv_registry).                                  *)
THEOREM Serial == Spec => []SerialRegistry
<1>1. IInv => SerialRegistry
    BY DEF IInv
<1>2. QED
    BY <1>1, SharedStateInv, PTL

(* A registry that nobody is saving is one whole dump, unless a session    *)
(* died before it wrote or two wrote at once (_save_registry).             *)
THEOREM Whole == Spec => []WholeUnlessTorn
<1>1. IInv => WholeUnlessTorn
    BY DEF IInv
<1>2. QED
    BY <1>1, SharedStateInv, PTL

(* Setting one limit of a QOS keeps the other, unless another admin wrote  *)
(* between its read and its write (set_qos_merge_tres).                    *)
THEOREM LimitKept == Spec => OtherLimitKept
<1>1. ASSUME IInv, [Next]_vars, NEW s \in Session, NEW l \in Limit,
             at[s] = "write", at'[s] = "idle", s \notin meddled, l # doing[s].op
      PROVE  qos'[l] = qos[l]
    <2>1. tres[s][l] = qos[l]
        BY <1>1 DEF IInv, LimitsFresh
    <2>2. CASE UNCHANGED qos
        BY <2>2
    <2>3. ASSUME NEW t \in Session, WriteQos(t), qos' = tres[t] PROVE qos'[l] = qos[l]
        <3>1. at' = [at EXCEPT ![t] = "idle"] /\ at \in [Session -> Stages]
            BY <1>1, <2>3 DEF WriteQos, Ends, IInv, TypeOK
        <3>2. t = s
            BY <1>1, <3>1
        <3>3. QED
            BY <2>1, <2>3, <3>2
    <2>4. ASSUME NEW t \in Session,
                 \/ Registers(t) \/ Builds(t) \/ Manages(t) \/ Downloads(t)
                 \/ StartQos(t) \/ ReadQos(t) \/ Die(t)
          PROVE  UNCHANGED qos
        BY <2>4 DEF Registers, Load, Truncate, Close, MakeWritable, Builds, StartBuild,
           StartPrebuilt, BeginFiles, Create, Pip, SmokeCheck, Verify, Manages, RegisterVenv,
           StartDelete, Rmtree, Downloads, StartDownload, Fetch, RemoveModel, StartQos, ReadQos, Die
    <2>5. QED
        BY <1>1, <2>2, <2>3, <2>4 DEF Next, Limits, WriteQos, vars
<1>2. IInv /\ [Next]_vars =>
          [\A s \in Session, l \in Limit :
              at[s] = "write" /\ at'[s] = "idle" /\ s \notin meddled /\ l # doing[s].op
                  => qos'[l] = qos[l]]_vars
    BY <1>1
<1>3. QED
    BY <1>2, SharedStateInv, PTL DEF Spec, OtherLimitKept
===============================================================================
