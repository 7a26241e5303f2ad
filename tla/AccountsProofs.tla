----------------------------- MODULE AccountsProofs -----------------------------
(***************************************************************************)
(* The inductive invariants of Accounts and what follows from them, for    *)
(* every number of panels, names, UIDs, operations and failures.           *)
(***************************************************************************)
EXTENDS Accounts, WellFoundedInduction, TLAPS

(* Tenants are counted by the operations that begin them, and whoever has  *)
(* an account, or is getting one, is a tenant.                             *)
Tenancy == \A n \in Name :
    /\ tenants[n] <= requests
    /\ account["login"][n] # 0 => tenants[n] # 0
    /\ \A a \in Busy(n) : job[a].step \in AddSteps => tenants[n] # 0

(* Two panels that work on one name have crossed, and neither is clean.    *)
Alone(n) == \A a, b \in Busy(n) : a # b => n \in crossed /\ ~job[a].clean

(* What a script has brought about for a name nobody else works on.        *)
Achieved(a, n) == n \notin crossed =>
    /\ job[a].step \in {"gpu", "assoc", "area", "link", "verify", "row"}
          => account["login"][n] = job[a].uid
    /\ job[a].step \in {"dellogin", "delrow"} => account["gpu"][n] = 0
    /\ job[a].orphan /\ job[a].step \in DelSteps => n \in warned

(* What one has that met no failure so far, masked ones included.          *)
CleanSoFar(a, n) == job[a].clean =>
    /\ job[a].step \in {"area", "link", "verify", "row"} => n \in assoc
    /\ job[a].step = "row" => Agrees(n)
    /\ job[a].step \in {"data", "delgpu", "dellogin", "delrow"} => n \notin assoc
    /\ job[a].step \in {"dellogin", "delrow"} => account["gpu"][n] = 0
    /\ job[a].step = "delrow" => account["login"][n] = 0

Script(a, n) ==
    /\ Achieved(a, n) /\ CleanSoFar(a, n)
    /\ job[a].orphan => n \in troubled

(* The account on the GPU host has the UID of the one on the login node.   *)
UidFollows(n) == n \notin crossed /\ account["gpu"][n] # 0 =>
    account["login"][n] = account["gpu"][n]

(* The active row is the tenant's, who has the account still, or loses it  *)
(* to a script that comes to the row next.                                 *)
RowFollows(n) == row[n].active /\ n \notin warned /\ n \notin crossed =>
    /\ row[n].tenant = tenants[n]
    /\ account["login"][n] # 0 \/ \E a \in Busy(n) : job[a].step = "delrow"

WholeOrGone(n) == Busy(n) = {} /\ n \notin troubled => Whole(n) \/ Gone(n)

NameInv(n) ==
    /\ Alone(n) /\ \A a \in Busy(n) : Script(a, n)
    /\ UidFollows(n) /\ RowFollows(n) /\ WholeOrGone(n)

Ind ==
    /\ TypeOK /\ OneAccountPerUid /\ ScriptsHaveUids /\ TenantsThereWere /\ DataIsKept
    /\ Tenancy /\ \A n \in Name : NameInv(n)

LEMMA Bounds ==
    /\ MaxUid \in Nat \ {0} /\ MaxRequests \in Nat /\ MaxFaults \in Nat
    /\ NoName \notin Name
BY AccountsAssumption DEF AccountsAssumption

-------------------------------------------------------------------------------
(* The next free UID.                                                      *)

LEMMA SmallestOf ==
    ASSUME NEW T, T \subseteq Nat, T # {}
    PROVE  \E d \in T : \A e \in T : d <= e
<1>1. PICK d \in T : \A e \in T : ~(<<e, d>> \in OpToRel(<, Nat))
    BY NatLessThanWellFounded, WFMin
<1>2. ASSUME NEW e \in T PROVE d <= e
    <2>1. ~(e < d)
        BY <1>1 DEF OpToRel
    <2>2. QED
        BY <2>1
<1>3. QED
    BY <1>2

LEMMA MaxOf ==
    ASSUME NEW S, S \subseteq Nat, NEW bound \in Nat, S # {}, \A x \in S : x <= bound
    PROVE  Max(S) \in S /\ \A x \in S : x <= Max(S)
<1> DEFINE T == {bound - x : x \in S}
<1>1. T \subseteq Nat /\ T # {}
    <2>1. PICK x \in S : TRUE
        OBVIOUS
    <2>2. bound - x \in T
        OBVIOUS
    <2>3. ASSUME NEW y \in S PROVE bound - y \in Nat
        OBVIOUS
    <2>4. QED
        BY <2>2, <2>3
<1>2. PICK d \in T : \A e \in T : d <= e
    <2> HIDE DEF T
    <2> QED
        BY <1>1, SmallestOf
<1>3. PICK m \in S : d = bound - m
    BY <1>2
<1>4. \A x \in S : m >= x
    <2>1. SUFFICES ASSUME NEW x \in S PROVE m >= x
        OBVIOUS
    <2>2. d <= bound - x
        BY <1>2
    <2>3. QED
        BY <1>3, <2>2
<1>5. Max(S) \in S /\ \A x \in S : Max(S) >= x
    BY <1>4 DEF Max
<1>6. Max(S) \in Nat
    BY <1>5
<1>7. QED
    BY <1>5, <1>6

LEMMA UidIsFree ==
    ASSUME TypeOK
    PROVE  /\ FreeUid \in Nat \ {0}
           /\ \A h \in Host, n \in Name : account[h][n] < FreeUid
<1> DEFINE S == UsedUids \cup {0}
<1>1. \A x \in S : x \in Nat /\ x <= MaxUid
    BY Bounds DEF UsedUids, TypeOK
<1>2. Max(S) \in S /\ \A x \in S : x <= Max(S)
    <2>1. S \subseteq Nat /\ S # {}
        BY <1>1
    <2> HIDE DEF S
    <2> QED
        BY <1>1, <2>1, Bounds, MaxOf
<1>3. \A h \in Host, n \in Name : account[h][n] \in S
    BY DEF UsedUids
<1>4. FreeUid = Max(S) + 1
    BY DEF FreeUid
<1> HIDE DEF S
<1>5. Max(S) \in Nat
    BY <1>1, <1>2
<1>6. QED
    <2>1. ASSUME NEW h \in Host, NEW n \in Name PROVE account[h][n] < FreeUid
        <3>1. account[h][n] \in S
            BY <1>3
        <3>2. QED
            BY <3>1, <1>1, <1>2, <1>4, <1>5
    <2>2. QED
        BY <2>1, <1>4, <1>5

-------------------------------------------------------------------------------
(* What the properties say follows.                                        *)

LEMMA FollowsFromInd == Ind => IInv /\ QuietIsWhole /\ RowIsOfTenant
<1> SUFFICES ASSUME Ind PROVE IInv /\ QuietIsWhole /\ RowIsOfTenant
    OBVIOUS
<1>1. NoForeignUid
    <2>1. SUFFICES ASSUME NEW m \in Name, NEW n \in Name, m # n, account["gpu"][m] # 0,
                          account["gpu"][m] = account["login"][n], m \notin crossed
                   PROVE  FALSE
        BY DEF NoForeignUid
    <2>2. account["login"][m] = account["login"][n]
        BY <2>1 DEF Ind, NameInv, UidFollows
    <2>3. QED
        BY <2>1, <2>2 DEF Ind, OneAccountPerUid, Host
<1>2. QuietIsWhole
    BY DEF Ind, NameInv, WholeOrGone, QuietIsWhole
<1>3. RowIsOfTenant
    BY DEF Ind, NameInv, RowFollows, RowIsOfTenant
<1>4. QED
    BY <1>1, <1>2, <1>3 DEF Ind, IInv

-------------------------------------------------------------------------------
(* What a step does to the panels.                                         *)

JobType == [step : AddSteps \cup DelSteps \cup {"idle"}, name : Name \cup {NoName},
            uid : 0..MaxUid, orphan : BOOLEAN, clean : BOOLEAN]

LEMMA IdleType == Idle \in JobType /\ Idle.step = "idle" /\ Idle.name = NoName
BY Bounds DEF Idle, JobType

LEMMA FieldType ==
    ASSUME NEW j \in JobType, NEW s \in AddSteps \cup DelSteps
    PROVE  /\ [j EXCEPT !.step = s] \in JobType
           /\ [j EXCEPT !.step = s, !.clean = FALSE] \in JobType
           /\ [j EXCEPT !.clean = FALSE] \in JobType
           /\ [j EXCEPT !.orphan = TRUE] \in JobType
           /\ \A u \in 0..MaxUid : [j EXCEPT !.uid = u, !.step = s] \in JobType
BY DEF JobType

(* The panel of a goes on to j, and no other panel does anything.          *)
Turns(a, j) ==
    /\ job' \in [Admin -> JobType] /\ job'[a] = j
    /\ \A b \in Admin : b # a => job'[b] = job[b]

LEMMA TurnsTo ==
    ASSUME TypeOK, NEW a \in Admin, NEW j \in JobType, job' = [job EXCEPT ![a] = j]
    PROVE  Turns(a, j)
BY DEF TypeOK, JobType, Turns

LEMMA EndsTurns ==
    ASSUME TypeOK, NEW a \in Admin, Ends(a)
    PROVE  Turns(a, Idle)
BY IdleType, TurnsTo DEF Ends

LEMMA ContinueTurns ==
    ASSUME TypeOK, NEW a \in Admin, NEW s \in AddSteps \cup DelSteps, Continue(a, s)
    PROVE  Turns(a, IF job[a].orphan THEN Idle ELSE [job[a] EXCEPT !.step = s])
<1>1. job[a] \in JobType
    BY DEF TypeOK, JobType
<1>2. CASE job[a].orphan
    BY <1>2, EndsTurns DEF Continue
<1>3. CASE ~job[a].orphan
    <2>1. job' = [job EXCEPT ![a] = [job[a] EXCEPT !.step = s]]
        BY <1>3 DEF Continue
    <2>2. QED
        BY <1>1, <1>3, <2>1, FieldType, TurnsTo
<1>4. QED
    BY <1>2, <1>3

LEMMA BeginTurns ==
    ASSUME TypeOK, NEW a \in Admin, NEW n \in Name, NEW s \in AddSteps \cup DelSteps,
           Begin(a, n, s)
    PROVE  /\ job' \in [Admin -> JobType]
           /\ job'[a] \in JobType /\ job'[a].step = s /\ job'[a].name = n /\ ~job'[a].orphan
           /\ job'[a].clean <=> Busy(n) = {}
           /\ \A b \in Busy(n) : job'[b] = [job[b] EXCEPT !.clean = FALSE]
           /\ \A b \in Admin : b # a /\ b \notin Busy(n) => job'[b] = job[b]
           /\ requests' \in 0..MaxRequests /\ requests' = requests + 1
<1> DEFINE j == [step |-> s, name |-> n, uid |-> 0, orphan |-> FALSE, clean |-> Busy(n) = {}]
<1>1. j \in JobType
    <2>1. (Busy(n) = {}) \in BOOLEAN
        OBVIOUS
    <2>2. 0 \in 0..MaxUid
        BY Bounds
    <2>3. QED
        BY <2>1, <2>2 DEF JobType
<1>2. \A b \in Admin : job[b] \in JobType
    BY DEF TypeOK, JobType
<1>3. \A b \in Admin : [job[b] EXCEPT !.clean = FALSE] \in JobType
    BY <1>2, FieldType
<1>4. a \notin Busy(n) /\ Busy(n) \subseteq Admin
    BY IdleType DEF Busy, Begin
<1>5. job' = [b \in Admin |->
              IF b = a THEN j
              ELSE IF b \in Busy(n) THEN [job[b] EXCEPT !.clean = FALSE] ELSE job[b]]
    BY DEF Begin
<1>6. job'[a] = j
    BY <1>5
<1>7. /\ j.step = s /\ j.name = n /\ ~j.orphan
      /\ j.clean <=> Busy(n) = {}
    OBVIOUS
<1> HIDE DEF j
<1>8. requests' \in 0..MaxRequests /\ requests' = requests + 1
    BY Bounds DEF Begin, TypeOK
<1>9. job' \in [Admin -> JobType]
    BY <1>1, <1>2, <1>3, <1>5
<1>10. \A b \in Busy(n) : job'[b] = [job[b] EXCEPT !.clean = FALSE]
    BY <1>4, <1>5
<1>11. \A b \in Admin : b # a /\ b \notin Busy(n) => job'[b] = job[b]
    BY <1>5
<1>12. QED
    BY <1>1, <1>6, <1>7, <1>8, <1>9, <1>10, <1>11

-------------------------------------------------------------------------------
(* Type correctness.                                                       *)

LEMMA InitInd == Init => Ind
<1> SUFFICES ASSUME Init PROVE Ind
    OBVIOUS
<1> USE Bounds
<1>1. TypeOK
    <2>1. job \in [Admin -> JobType]
        BY IdleType DEF Init
    <2>2. account \in [Host -> [Name -> 0..MaxUid]]
        BY DEF Init
    <2>3. home \in [Host -> [Name -> 0..Provisioner]]
        BY DEF Init, Provisioner
    <2>4. row \in [Name -> [tenant : Tenant \cup {0}, active : BOOLEAN]]
        BY DEF Init
    <2>5. QED
        BY <2>1, <2>2, <2>3, <2>4 DEF Init, TypeOK, JobType
<1>2. \A a \in Admin, n \in Name : a \notin Busy(n)
    BY IdleType DEF Init, Busy
<1>3. OneAccountPerUid /\ TenantsThereWere /\ DataIsKept
    BY DEF Init, OneAccountPerUid, TenantsThereWere, DataIsKept, Host
<1>4. ScriptsHaveUids
    BY IdleType DEF Init, ScriptsHaveUids, AddSteps
<1>5. Tenancy
    <2>1. \A n \in Name : tenants[n] <= requests /\ account["login"][n] = 0
        BY DEF Init, Host
    <2>2. \A n \in Name : \A a \in Busy(n) : FALSE
        BY <1>2 DEF Busy
    <2>3. QED
        BY <2>1, <2>2 DEF Tenancy
<1>6. ASSUME NEW n \in Name PROVE NameInv(n)
    <2>1. Alone(n) /\ \A a \in Busy(n) : Script(a, n)
        BY <1>2 DEF Alone, Busy
    <2>2. UidFollows(n) /\ RowFollows(n) /\ WholeOrGone(n)
        BY DEF Init, UidFollows, RowFollows, WholeOrGone, Gone, Host
    <2>3. QED
        BY <2>1, <2>2 DEF NameInv
<1>7. QED
    BY <1>1, <1>3, <1>4, <1>5, <1>6 DEF Ind

LEMMA Works ==
    ASSUME Ind, NEW a \in Admin, job[a].step # "idle"
    PROVE  /\ job[a] \in JobType /\ job[a].name \in Name /\ a \in Busy(job[a].name)
           /\ job[a].step \in AddSteps => tenants[job[a].name] \in Tenant
<1>1. job[a] \in JobType /\ job[a].name \in Name
    BY DEF Ind, TypeOK, JobType, ScriptsHaveUids
<1>2. a \in Busy(job[a].name)
    BY DEF Busy
<1>3. job[a].step \in AddSteps => tenants[job[a].name] \in Tenant
    BY <1>1, <1>2 DEF Ind, TypeOK, Tenancy
<1>4. QED
    BY <1>1, <1>2, <1>3

LEMMA FaultType == ASSUME TypeOK, Fault PROVE faults' \in 0..MaxFaults
BY Bounds DEF TypeOK, Fault

LEMMA FreeUidType == ASSUME TypeOK, FreeUid <= MaxUid PROVE FreeUid \in 1..MaxUid
BY UidIsFree, Bounds

LEMMA AddType ==
    ASSUME Ind, NEW a \in Admin,
           NEW h \in Host, NEW from \in AddSteps, NEW to \in AddSteps, AddOn(a, h, from, to)
    PROVE  TypeOK'
<1> DEFINE n == job[a].name
<1>0. TypeOK /\ a \in Admin /\ job[a].step # "idle"
    BY DEF Ind, AddOn, At, AddSteps
<1>1. n \in Name /\ job[a].uid \in 0..MaxUid
    BY <1>0, Works DEF JobType
<1>2. account' \in [Host -> [Name -> 0..MaxUid]]
    BY <1>0, <1>1 DEF AddOn, TypeOK
<1>3. home' \in [Host -> [Name -> 0..Provisioner]]
    <2>1. job[a].uid \in 0..Provisioner
        BY <1>1, Bounds DEF Provisioner
    <2>2. QED
        BY <1>0, <1>1, <2>1 DEF AddOn, TypeOK
<1>4. /\ job' \in [Admin -> JobType] /\ faults' \in 0..MaxFaults
      /\ troubled' \subseteq Name /\ crossed' \subseteq Name
    <2>1. crossed' \subseteq Name
        BY <1>0, <1>1 DEF AddOn, TypeOK
    <2>2. CASE Continue(a, to) /\ UNCHANGED <<faults, troubled>>
        BY <1>0, <2>1, <2>2, ContinueTurns DEF Turns, TypeOK
    <2>3. CASE Fault /\ Fails(a)
        BY <1>0, <1>1, <2>1, <2>3, EndsTurns, FaultType DEF Fails, Turns, TypeOK
    <2>4. CASE Fails(a) /\ UNCHANGED faults
        BY <1>0, <1>1, <2>1, <2>4, EndsTurns DEF Fails, Turns, TypeOK
    <2>5. QED
        BY <2>2, <2>3, <2>4 DEF AddOn
<1>5. QED
    BY <1>0, <1>2, <1>3, <1>4 DEF AddOn, TypeOK, JobType, dataVars

LEMMA AdduserType ==
    ASSUME Ind, NEW a \in Admin, Adduser(a) \/ CreateRow(a)
    PROVE  TypeOK'
<1> DEFINE n == job[a].name
<1>0. TypeOK
    BY DEF Ind
<1>1. CASE PickUid(a)
    <2>1. job[a] \in JobType
        BY <1>1, Works DEF PickUid, At
    <2>2. [job[a] EXCEPT !.uid = FreeUid, !.step = "login"] \in JobType
        <3>1. FreeUid \in 0..MaxUid
            BY <1>0, <1>1, FreeUidType, Bounds DEF PickUid
        <3>2. "login" \in AddSteps \cup DelSteps
            BY DEF AddSteps
        <3> QED
            BY <2>1, <3>1, <3>2, FieldType
    <2>3. job' \in [Admin -> JobType]
        BY <1>0, <1>1, <2>2, IdleType DEF PickUid, TypeOK, JobType
    <2>4. QED
        BY <1>0, <1>1, <2>3 DEF PickUid, TypeOK, JobType, hostVars, dataVars
<1>2. CASE AddOn(a, "login", "login", "gpu") \/ AddOn(a, "gpu", "gpu", "assoc")
    BY <1>2, AddType DEF Host, AddSteps
<1>3. CASE AddAssociation(a)
    <2>1. n \in Name /\ job[a] \in JobType
        BY <1>3, Works DEF AddAssociation, At
    <2>2. assoc' \subseteq Name
        BY <1>0, <1>3, <2>1 DEF AddAssociation, TypeOK
    <2>3. job' \in [Admin -> JobType] /\ faults' \in 0..MaxFaults
        <3>1. CASE Continue(a, "area") /\ UNCHANGED faults
            BY <1>0, <3>1, ContinueTurns DEF Turns, TypeOK, AddSteps
        <3>2. CASE /\ Fault
                   /\ job' = [job EXCEPT ![a] = IF job[a].orphan THEN Idle
                                        ELSE [job[a] EXCEPT !.step = "area", !.clean = FALSE]]
            <4>1. [job[a] EXCEPT !.step = "area", !.clean = FALSE] \in JobType
                BY <2>1, FieldType DEF AddSteps
            <4>2. job' \in [Admin -> JobType]
                BY <1>0, <3>2, <4>1, IdleType DEF TypeOK, JobType
            <4>3. QED
                BY <1>0, <3>2, <4>2, FaultType
        <3>3. QED
            BY <1>3, <3>1, <3>2 DEF AddAssociation
    <2>4. QED
        BY <1>0, <1>3, <2>2, <2>3 DEF AddAssociation, TypeOK, JobType, hostVars, dataVars
<1>4. CASE MakeArea(a)
    <2>1. n \in Name /\ tenants[n] \in Tenant
        BY <1>4, Works DEF MakeArea, At, AddSteps
    <2>2. job' \in [Admin -> JobType]
        BY <1>0, <1>4, ContinueTurns DEF MakeArea, Turns, AddSteps
    <2>3. area' \in [Name -> SUBSET Tenant] /\ stored' \in [Name -> SUBSET Tenant]
        BY <1>0, <1>4, <2>1 DEF MakeArea, TypeOK
    <2>4. QED
        BY <1>0, <1>4, <2>2, <2>3 DEF MakeArea, TypeOK, JobType, hostVars
<1>5. CASE LinkHome(a)
    <2>1. n \in Name /\ job[a].uid \in 0..MaxUid
        BY <1>5, Works DEF LinkHome, At, JobType
    <2>2. /\ job' \in [Admin -> JobType] /\ faults' \in 0..MaxFaults
          /\ troubled' \subseteq Name
        <3>1. CASE Continue(a, "verify") /\ UNCHANGED <<faults, troubled>>
            BY <1>0, <3>1, ContinueTurns DEF Turns, TypeOK, AddSteps
        <3>2. CASE Fault /\ Fails(a)
            BY <1>0, <2>1, <3>2, EndsTurns, FaultType DEF Fails, Turns, TypeOK
        <3>3. QED
            BY <1>5, <3>1, <3>2 DEF LinkHome
    <2>3. home' \in [Host -> [Name -> 0..Provisioner]]
        <3>1. job[a].uid \in 0..Provisioner /\ Provisioner \in 0..Provisioner
            BY <2>1, Bounds DEF Provisioner
        <3>2. QED
            BY <1>0, <1>5, <2>1, <3>1 DEF LinkHome, TypeOK, Host
    <2>4. QED
        BY <1>0, <1>5, <2>2, <2>3 DEF LinkHome, TypeOK, JobType, dataVars
<1>6. CASE Verify(a)
    <2>1. n \in Name
        BY <1>6, Works DEF Verify, At
    <2>2. job' \in [Admin -> JobType] /\ troubled' \subseteq Name
        <3>1. CASE Continue(a, "row") /\ UNCHANGED troubled
            BY <1>0, <3>1, ContinueTurns DEF Turns, TypeOK, AddSteps
        <3>2. CASE Fails(a)
            BY <1>0, <2>1, <3>2, EndsTurns DEF Fails, Turns, TypeOK
        <3>3. QED
            BY <1>6, <3>1, <3>2 DEF Verify
    <2>3. QED
        BY <1>0, <1>6, <2>2 DEF Verify, TypeOK, JobType, hostVars, dataVars
<1>7. CASE CreateRow(a)
    <2>1. n \in Name /\ tenants[n] \in Tenant
        BY <1>7, Works DEF CreateRow, At, AddSteps
    <2>2. job' \in [Admin -> JobType] /\ troubled' \subseteq Name
        BY <1>0, <1>7, <2>1, EndsTurns DEF CreateRow, Succeeds, Turns, TypeOK
    <2>3. /\ row' \in [Name -> [tenant : Tenant \cup {0}, active : BOOLEAN]]
          /\ warned' \subseteq Name
        <3>1. row' = row \/ row' = [row EXCEPT ![n] = [tenant |-> tenants[n], active |-> TRUE]]
            BY <1>7 DEF CreateRow, UsersCreate
        <3>2. warned' = warned \/ warned' = warned \cup {n} \/ warned' = warned \ {n}
            BY <1>7 DEF CreateRow, UsersCreate
        <3>3. [tenant |-> tenants[n], active |-> TRUE]
                    \in [tenant : Tenant \cup {0}, active : BOOLEAN]
            BY <2>1
        <3>4. warned' \subseteq Name
            BY <1>0, <2>1, <3>2 DEF TypeOK
        <3>5. row' \in [Name -> [tenant : Tenant \cup {0}, active : BOOLEAN]]
            <4> DEFINE R == [tenant : Tenant \cup {0}, active : BOOLEAN]
                       r == [tenant |-> tenants[n], active |-> TRUE]
            <4>1. r \in R /\ row \in [Name -> R] /\ (row' = row \/ row' = [row EXCEPT ![n] = r])
                BY <1>0, <3>1, <3>3 DEF TypeOK
            <4> HIDE DEF R, r
            <4>2. row' \in [Name -> R]
                BY <2>1, <4>1
            <4>3. QED
                BY <4>2 DEF R
        <3>6. QED
            BY <3>4, <3>5
    <2>4. faults' \in 0..MaxFaults
        BY <1>0, <1>7, FaultType DEF CreateRow, TypeOK
    <2>5. QED
        BY <1>0, <1>7, <2>2, <2>3, <2>4 DEF CreateRow, TypeOK, JobType, hostVars, dataVars
<1>8. QED
    BY <1>1, <1>2, <1>3, <1>4, <1>5, <1>6, <1>7 DEF Adduser

LEMMA DeluserType ==
    ASSUME Ind, NEW a \in Admin, Deluser(a) \/ OffboardRow(a)
    PROVE  TypeOK'
<1> DEFINE n == job[a].name
<1>0. TypeOK
    BY DEF Ind
<1>1. CASE DropJobs(a)
    <2>1. n \in Name /\ job[a] \in JobType
        BY <1>1, Works DEF DropJobs, At
    <2>2. assoc' \subseteq Name
        BY <1>0, <1>1 DEF DropJobs, TypeOK
    <2>3. job' \in [Admin -> JobType] /\ faults' \in 0..MaxFaults
        <3>1. CASE Continue(a, "data") /\ UNCHANGED faults
            BY <1>0, <3>1, ContinueTurns DEF Turns, TypeOK, DelSteps
        <3>2. CASE /\ Fault
                   /\ job' = [job EXCEPT ![a] = IF job[a].orphan THEN Idle
                                        ELSE [job[a] EXCEPT !.step = "data", !.clean = FALSE]]
            <4>1. [job[a] EXCEPT !.step = "data", !.clean = FALSE] \in JobType
                BY <2>1, FieldType DEF DelSteps
            <4>2. job' \in [Admin -> JobType]
                BY <1>0, <3>2, <4>1, IdleType DEF TypeOK, JobType
            <4>3. QED
                BY <1>0, <3>2, <4>2, FaultType
        <3>3. QED
            BY <1>1, <3>1, <3>2 DEF DropJobs
    <2>4. QED
        BY <1>0, <1>1, <2>2, <2>3 DEF DropJobs, TypeOK, JobType, hostVars, dataVars
<1>2. CASE Archive(a)
    <2>1. n \in Name
        BY <1>2, Works DEF Archive, At
    <2>2. job' \in [Admin -> JobType]
        BY <1>0, <1>2, ContinueTurns DEF Archive, Turns, DelSteps
    <2>3. /\ area' \in [Name -> SUBSET Tenant] /\ archive' \in [Name -> SUBSET Tenant]
          /\ dropped' \in [Name -> SUBSET Tenant] /\ retried' \subseteq Name
        BY <1>0, <1>2, <2>1 DEF Archive, TypeOK
    <2>4. QED
        BY <1>0, <1>2, <2>2, <2>3 DEF Archive, TypeOK, JobType, hostVars
<1>3. ASSUME NEW h \in Host, NEW from \in DelSteps, NEW to \in DelSteps, RemoveFrom(a, h, from, to)
      PROVE  TypeOK'
    <2>1. n \in Name
        BY <1>3, Works DEF RemoveFrom, At, DelSteps
    <2>2. job' \in [Admin -> JobType]
        BY <1>0, <1>3, ContinueTurns DEF RemoveFrom, Turns
    <2>3. account' \in [Host -> [Name -> 0..MaxUid]]
        BY <1>0, <1>3, <2>1, Bounds DEF RemoveFrom, TypeOK
    <2>4. home' \in [Host -> [Name -> 0..Provisioner]]
        BY <1>0, <1>3, <2>1, Bounds DEF RemoveFrom, TypeOK, Provisioner
    <2>5. QED
        BY <1>0, <1>3, <2>2, <2>3, <2>4 DEF RemoveFrom, TypeOK, JobType, dataVars
<1>4. CASE RemoveFrom(a, "gpu", "delgpu", "dellogin") \/ RemoveFrom(a, "login", "dellogin", "delrow")
    BY <1>3, <1>4 DEF Host, DelSteps
<1>5. CASE OffboardRow(a)
    <2>1. n \in Name
        BY <1>5, Works DEF OffboardRow, At
    <2>2. job' \in [Admin -> JobType] /\ troubled' \subseteq Name
        BY <1>0, <1>5, <2>1, EndsTurns DEF OffboardRow, Succeeds, Turns, TypeOK
    <2>3. row' \in [Name -> [tenant : Tenant \cup {0}, active : BOOLEAN]]
        <3> DEFINE R == [tenant : Tenant \cup {0}, active : BOOLEAN]
        <3>1. row \in [Name -> R]
            BY <1>0 DEF TypeOK
        <3>2. [row[n] EXCEPT !.active = FALSE] \in R
            BY <2>1, <3>1
        <3>3. row' = row \/ row' = [row EXCEPT ![n] = [row[n] EXCEPT !.active = FALSE]]
            BY <1>5 DEF OffboardRow
        <3> HIDE DEF R
        <3>4. row' \in [Name -> R]
            BY <2>1, <3>1, <3>2, <3>3
        <3>5. QED
            BY <3>4 DEF R
    <2>4. warned' \subseteq Name
        BY <1>0, <1>5, <2>1 DEF OffboardRow, TypeOK
    <2>5. faults' \in 0..MaxFaults
        BY <1>0, <1>5, FaultType DEF OffboardRow, TypeOK
    <2>6. QED
        BY <1>0, <1>5, <2>2, <2>3, <2>4, <2>5 DEF OffboardRow, TypeOK, JobType, hostVars, dataVars
<1>6. QED
    BY <1>1, <1>2, <1>4, <1>5 DEF Deluser

LEMMA FailureType ==
    ASSUME Ind, NEW a \in Admin, TimeOut(a) \/ CommandFails(a)
    PROVE  TypeOK'
<1>0. TypeOK
    BY DEF Ind
<1>1. job[a].step # "idle" /\ faults' \in 0..MaxFaults
    BY <1>0, FaultType DEF TimeOut, CommandFails, At
<1>2. job[a] \in JobType /\ job[a].name \in Name
    BY <1>1, Works
<1>3. warned' \subseteq Name
    BY <1>0, <1>2 DEF TimeOut, CommandFails, Warns, TypeOK
<1>4. job' \in [Admin -> JobType] /\ troubled' \subseteq Name
    <2>1. CASE TimeOut(a)
        <3>1. [job[a] EXCEPT !.orphan = TRUE] \in JobType
            BY <1>2, FieldType DEF AddSteps
        <3>2. QED
            BY <1>0, <1>2, <2>1, <3>1, TurnsTo DEF TimeOut, Turns, TypeOK
    <2>2. CASE CommandFails(a)
        BY <1>0, <1>2, <2>2, EndsTurns DEF CommandFails, Fails, Turns, TypeOK
    <2>3. QED
        BY <2>1, <2>2
<1>5. QED
    BY <1>0, <1>1, <1>3, <1>4 DEF TimeOut, CommandFails, TypeOK, JobType, hostVars, dataVars

LEMMA BeginType ==
    ASSUME Ind, NEW a \in Admin, NEW n \in Name, Provision(a, n) \/ Offboard(a, n)
    PROVE  TypeOK'
<1>0. TypeOK
    BY DEF Ind
<1>1. job' \in [Admin -> JobType] /\ requests' \in 0..MaxRequests /\ requests' = requests + 1
    BY <1>0, BeginTurns DEF Provision, Offboard, AddSteps, DelSteps
<1>2. crossed' \subseteq Name
    BY <1>0 DEF Provision, Offboard, Begin, TypeOK
<1>3. CASE Provision(a, n)
    <2>1. tenants' \in [Name -> Tenant \cup {0}]
        <3>1. tenants[n] \in Tenant \cup {0} /\ tenants[n] <= requests
            BY <1>0 DEF Ind, TypeOK, Tenancy
        <3>2. tenants[n] + 1 \in Tenant
            BY <1>0, <1>1, <3>1, Bounds DEF Tenant, TypeOK
        <3>3. QED
            BY <1>0, <1>3, <3>2 DEF Provision, TypeOK
    <2>2. area' \in [Name -> SUBSET Tenant] /\ dropped' \in [Name -> SUBSET Tenant]
        BY <1>0, <1>3 DEF Provision, TypeOK
    <2>3. QED
        BY <1>0, <1>1, <1>2, <1>3, <2>1, <2>2 DEF Provision, TypeOK, JobType, hostVars
<1>4. CASE Offboard(a, n)
    BY <1>0, <1>1, <1>2, <1>4 DEF Offboard, TypeOK, JobType, hostVars, dataVars
<1>5. QED
    BY <1>3, <1>4

LEMMA NextType == ASSUME Ind, [Next]_vars PROVE TypeOK'
<1>1. CASE Next
    <2>1. PICK a \in Admin :
            \/ \E n \in Name : Provision(a, n) \/ Offboard(a, n)
            \/ Adduser(a) \/ CreateRow(a)
            \/ Deluser(a) \/ OffboardRow(a)
            \/ TimeOut(a) \/ CommandFails(a)
        BY <1>1 DEF Next
    <2>2. QED
        BY <2>1, BeginType, AdduserType, DeluserType, FailureType
<1>2. CASE UNCHANGED vars
    BY <1>2 DEF Ind, TypeOK, vars, hostVars, dataVars
<1>3. QED
    BY <1>1, <1>2

-------------------------------------------------------------------------------
(* How a panel moves on.                                                   *)

Working(a) ==
    Adduser(a) \/ CreateRow(a) \/ Deluser(a) \/ OffboardRow(a) \/ TimeOut(a) \/ CommandFails(a)

(* The script ends, or goes on with its name and what it is for.           *)
Moves(a) ==
    /\ job[a].step # "idle"
    /\ \A b \in Admin : b # a => job'[b] = job[b]
    /\ \/ job'[a] = Idle
       \/ /\ job'[a].step # "idle" /\ job'[a].name = job[a].name
          /\ job'[a].clean => job[a].clean
          /\ job'[a].step \in AddSteps <=> job[a].step \in AddSteps
          /\ job'[a].step \in AddSteps \ {"pick"} => job'[a].uid # 0

LEMMA MovesOn ==
    ASSUME Ind, NEW a \in Admin, NEW s \in AddSteps \cup DelSteps, Continue(a, s),
           job[a].step # "idle", job[a].step # "pick", s # "pick",
           s \in AddSteps <=> job[a].step \in AddSteps
    PROVE  Moves(a)
<1>0. TypeOK /\ ScriptsHaveUids
    BY DEF Ind
<1>1. Turns(a, IF job[a].orphan THEN Idle ELSE [job[a] EXCEPT !.step = s])
    BY <1>0, ContinueTurns
<1>2. job[a] \in JobType /\ s # "idle"
    BY Works DEF AddSteps, DelSteps
<1>3. CASE job[a].orphan
    BY <1>1, <1>3 DEF Turns, Moves
<1>4. CASE ~job[a].orphan
    <2>1. job'[a] = [job[a] EXCEPT !.step = s]
        BY <1>1, <1>4 DEF Turns
    <2>2. /\ job'[a].step = s /\ job'[a].name = job[a].name /\ job'[a].uid = job[a].uid
          /\ job'[a].clean = job[a].clean
        BY <1>2, <2>1 DEF JobType
    <2>3. job[a].step \in AddSteps \ {"pick"} => job[a].uid # 0
        BY <1>0 DEF ScriptsHaveUids
    <2>4. QED
        BY <1>1, <1>2, <2>2, <2>3 DEF Turns, Moves
<1>5. QED
    BY <1>3, <1>4

LEMMA MovesToIdle ==
    ASSUME Ind, NEW a \in Admin, Ends(a), job[a].step # "idle"
    PROVE  Moves(a)
BY EndsTurns DEF Ind, Turns, Moves

(* sacctmgr failed.                                                        *)
LEMMA MovesSoiled ==
    ASSUME Ind, NEW a \in Admin, NEW s \in AddSteps \cup DelSteps,
           job' = [job EXCEPT ![a] = IF job[a].orphan THEN Idle
                                     ELSE [job[a] EXCEPT !.step = s, !.clean = FALSE]],
           job[a].step # "idle", job[a].step # "pick", s # "pick",
           s \in AddSteps <=> job[a].step \in AddSteps
    PROVE  Moves(a) /\ (job'[a] = Idle \/ (job'[a].step = s /\ ~job'[a].clean))
           /\ (job[a].orphan => job'[a] = Idle) /\ (~job[a].orphan => ~job'[a].orphan)
<1>0. TypeOK /\ ScriptsHaveUids
    BY DEF Ind
<1>1. job[a] \in JobType /\ s # "idle"
    BY Works DEF AddSteps, DelSteps
<1>2. job'[a] = IF job[a].orphan THEN Idle ELSE [job[a] EXCEPT !.step = s, !.clean = FALSE]
    BY <1>0 DEF TypeOK
<1>3. \A b \in Admin : b # a => job'[b] = job[b]
    BY <1>0 DEF TypeOK
<1>4. CASE job[a].orphan
    <2>1. job'[a] = Idle
        BY <1>2, <1>4
    <2>2. Moves(a)
        BY <1>3, <2>1 DEF Moves
    <2>3. QED
        BY <1>4, <2>1, <2>2, Zenon
<1>5. CASE ~job[a].orphan
    <2>1. job'[a] = [job[a] EXCEPT !.step = s, !.clean = FALSE]
        BY <1>2, <1>5
    <2>2. /\ job'[a].step = s /\ job'[a].name = job[a].name /\ job'[a].uid = job[a].uid
          /\ ~job'[a].clean /\ ~job'[a].orphan
        BY <1>1, <1>5, <2>1 DEF JobType
    <2>3. job[a].step \in AddSteps \ {"pick"} => job[a].uid # 0
        BY <1>0 DEF ScriptsHaveUids
    <2>4. QED
        BY <1>1, <1>3, <1>5, <2>2, <2>3 DEF Moves
<1>6. QED
    BY <1>4, <1>5

LEMMA AllMove == ASSUME Ind, NEW a \in Admin, Working(a) PROVE Moves(a)
<1>0. TypeOK
    BY DEF Ind
<1>1. CASE PickUid(a)
    <2>1. job[a] \in JobType /\ FreeUid # 0
        BY <1>0, <1>1, Works, UidIsFree DEF PickUid, At
    <2>2. \A b \in Admin : b # a => job'[b] = job[b]
        BY <1>0, <1>1 DEF PickUid, TypeOK
    <2>3. job'[a] = Idle \/ job'[a] = [job[a] EXCEPT !.uid = FreeUid, !.step = "login"]
        BY <1>0, <1>1 DEF PickUid, TypeOK
    <2>4. CASE job'[a] = [job[a] EXCEPT !.uid = FreeUid, !.step = "login"]
        <3>1. /\ job'[a].step = "login" /\ job'[a].name = job[a].name
              /\ job'[a].uid = FreeUid /\ job'[a].clean = job[a].clean
            BY <2>1, <2>4 DEF JobType
        <3>2. QED
            BY <1>1, <2>1, <2>2, <3>1 DEF PickUid, At, Moves, AddSteps
    <2>5. QED
        BY <1>1, <2>2, <2>3, <2>4 DEF PickUid, At, Moves
<1>2. ASSUME NEW h \in Host, NEW from \in AddSteps \ {"pick"}, NEW to \in AddSteps \ {"pick"},
             AddOn(a, h, from, to)
      PROVE  Moves(a)
    <2>1. job[a].step = from /\ (Continue(a, to) \/ Ends(a)) /\ from # "idle"
        BY <1>2 DEF AddOn, At, Fails, AddSteps
    <2>2. QED
        BY <1>2, <2>1, MovesOn, MovesToIdle
<1>3. CASE AddAssociation(a)
    BY <1>3, MovesOn, MovesSoiled DEF AddAssociation, At, AddSteps
<1>4. CASE MakeArea(a)
    BY <1>4, MovesOn DEF MakeArea, At, AddSteps
<1>5. CASE LinkHome(a)
    BY <1>5, MovesOn, MovesToIdle DEF LinkHome, At, AddSteps, Fails
<1>6. CASE Verify(a)
    BY <1>6, MovesOn, MovesToIdle DEF Verify, At, AddSteps, Fails
<1>7. CASE CreateRow(a)
    BY <1>7, MovesToIdle DEF CreateRow, At, Succeeds
<1>8. CASE DropJobs(a)
    BY <1>8, MovesOn, MovesSoiled DEF DropJobs, At, AddSteps, DelSteps
<1>9. CASE Archive(a)
    BY <1>9, MovesOn DEF Archive, At, AddSteps, DelSteps
<1>10. ASSUME NEW h \in Host, NEW from \in DelSteps, NEW to \in DelSteps,
              RemoveFrom(a, h, from, to)
       PROVE  Moves(a)
    BY <1>10, MovesOn DEF RemoveFrom, At, AddSteps, DelSteps
<1>11. CASE OffboardRow(a)
    BY <1>11, MovesToIdle DEF OffboardRow, At, Succeeds
<1>12. CASE TimeOut(a)
    <2>1. job[a] \in JobType /\ job[a].step # "idle"
        BY <1>12, Works DEF TimeOut, At
    <2>2. job'[a] = [job[a] EXCEPT !.orphan = TRUE] /\ \A b \in Admin : b # a => job'[b] = job[b]
        BY <1>0, <1>12 DEF TimeOut, TypeOK
    <2>3. /\ job'[a].step = job[a].step /\ job'[a].name = job[a].name
          /\ job'[a].uid = job[a].uid /\ job'[a].clean = job[a].clean
        BY <2>1, <2>2 DEF JobType
    <2>4. job[a].step \in AddSteps \ {"pick"} => job[a].uid # 0
        BY DEF Ind, ScriptsHaveUids
    <2>5. QED
        BY <2>1, <2>2, <2>3, <2>4 DEF Moves
<1>13. CASE CommandFails(a)
    BY <1>13, MovesToIdle DEF CommandFails, At, Fails
<1>14. QED
    BY <1>1, <1>2, <1>3, <1>4, <1>5, <1>6, <1>7, <1>8, <1>9, <1>10, <1>11, <1>12, <1>13
       DEF Working, Adduser, Deluser, Host, AddSteps, DelSteps

Beginning(a, n) == Provision(a, n) \/ Offboard(a, n)

(* What BeginTurns says, for both beginnings.                              *)
LEMMA Begins ==
    ASSUME Ind, NEW a \in Admin, NEW n \in Name, Beginning(a, n)
    PROVE  /\ job[a] = Idle /\ a \notin Busy(n)
           /\ job'[a].step \in {"pick", "jobs"} /\ job'[a].name = n /\ ~job'[a].orphan
           /\ job'[a].step = "pick" <=> Provision(a, n)
           /\ job'[a].clean => Busy(n) = {}
           /\ \A b \in Busy(n) : /\ ~job'[b].clean
                                /\ job'[b].step = job[b].step /\ job'[b].name = job[b].name
                                /\ job'[b].uid = job[b].uid /\ (job'[b].orphan <=> job[b].orphan)
           /\ \A b \in Admin : b # a /\ b \notin Busy(n) => job'[b] = job[b]
           /\ crossed' = IF Busy(n) = {} THEN crossed ELSE crossed \cup {n}
           /\ requests' = requests + 1
<1>0. TypeOK
    BY DEF Ind
<1>1. PICK st \in {"pick", "jobs"} : Begin(a, n, st) /\ (st = "pick" <=> Provision(a, n))
    <2>1. CASE Provision(a, n)
        BY <2>1 DEF Provision
    <2>2. CASE Offboard(a, n) /\ ~Provision(a, n)
        BY <2>2 DEF Offboard
    <2>3. QED
        BY <2>1, <2>2 DEF Beginning
<1>2. st \in AddSteps \cup DelSteps
    BY DEF AddSteps, DelSteps
<1>3. job[a] = Idle /\ crossed' = IF Busy(n) = {} THEN crossed ELSE crossed \cup {n}
    BY <1>1 DEF Begin
<1>4. a \notin Busy(n)
    BY <1>3, IdleType DEF Busy
<1>5. ASSUME NEW b \in Busy(n)
      PROVE  /\ ~job'[b].clean
             /\ job'[b].step = job[b].step /\ job'[b].name = job[b].name
             /\ job'[b].uid = job[b].uid /\ (job'[b].orphan <=> job[b].orphan)
    <2>1. job[b] \in JobType
        BY <1>0 DEF Busy, TypeOK, JobType
    <2>2. job'[b] = [job[b] EXCEPT !.clean = FALSE]
        BY <1>0, <1>1, <1>2, BeginTurns
    <2>3. QED
        BY <2>1, <2>2 DEF JobType
<1>6. /\ job'[a].step = st /\ job'[a].name = n /\ ~job'[a].orphan
      /\ job'[a].clean => Busy(n) = {}
      /\ \A b \in Admin : b # a /\ b \notin Busy(n) => job'[b] = job[b]
      /\ requests' = requests + 1
    BY <1>0, <1>1, <1>2, BeginTurns
<1>7. QED
    BY <1>1, <1>3, <1>4, <1>5, <1>6

-------------------------------------------------------------------------------
(* UIDs, tenants and data.                                                 *)

LEMMA NextScripts == ASSUME Ind, [Next]_vars PROVE ScriptsHaveUids'
<1>0. TypeOK /\ TypeOK' /\ ScriptsHaveUids
    BY NextType DEF Ind
<1>1. ASSUME NEW a \in Admin, NEW n \in Name, Beginning(a, n) PROVE ScriptsHaveUids'
    <2>1. SUFFICES ASSUME NEW b \in Admin
                   PROVE  /\ job'[b].step = "idle" <=> job'[b] = Idle
                          /\ job'[b].step # "idle" => job'[b].name \in Name
                          /\ job'[b].step \in AddSteps \ {"pick"} => job'[b].uid # 0
                          /\ job'[b].step \in {"area", "link", "verify", "row"}
                                => tenants'[job'[b].name] # 0
        BY DEF ScriptsHaveUids, Idle
    <2>2. \A m \in Name : tenants[m] # 0 => tenants'[m] # 0
        BY <1>0, <1>1 DEF Beginning, Provision, Offboard, TypeOK, Tenant
    <2>3. CASE b = a
        BY <1>1, <2>3, Begins, IdleType DEF AddSteps
    <2>4. CASE b \in Busy(n)
        BY <1>0, <1>1, <2>2, <2>4, Begins, IdleType DEF ScriptsHaveUids, Busy
    <2>5. CASE b # a /\ b \notin Busy(n)
        <3>1. job'[b] = job[b]
            BY <1>1, <2>5, Begins
        <3>2. QED
            BY <1>0, <2>2, <3>1 DEF ScriptsHaveUids
    <2>6. QED
        BY <2>3, <2>4, <2>5
<1>2. ASSUME NEW a \in Admin, Working(a) PROVE ScriptsHaveUids'
    <2>1. Moves(a)
        BY <1>2, AllMove
    <2>2. tenants' = tenants
        BY <1>2 DEF Working, Adduser, Deluser, PickUid, AddOn, AddAssociation, MakeArea, LinkHome,
                    Verify, CreateRow, DropJobs, Archive, RemoveFrom, OffboardRow, TimeOut,
                    CommandFails
    <2>3. SUFFICES ASSUME NEW b \in Admin
                   PROVE  /\ job'[b].step = "idle" <=> job'[b] = Idle
                          /\ job'[b].step # "idle" => job'[b].name \in Name
                          /\ job'[b].step \in AddSteps \ {"pick"} => job'[b].uid # 0
                          /\ job'[b].step \in {"area", "link", "verify", "row"}
                                => tenants'[job'[b].name] # 0
        BY DEF ScriptsHaveUids, Idle
    <2>4. CASE b = a /\ job'[a] # Idle
        <3>1. /\ job'[a].step # "idle" /\ job'[a].name = job[a].name /\ job[a].name \in Name
              /\ job'[a].step \in AddSteps <=> job[a].step \in AddSteps
              /\ job'[a].step \in AddSteps \ {"pick"} => job'[a].uid # 0
            BY <2>1, <2>4, Works DEF Moves
        <3>2. job[a].step \in AddSteps => tenants[job[a].name] # 0
            BY <2>1, Works DEF Moves, Tenant
        <3>3. QED
            BY <2>2, <2>4, <3>1, <3>2, IdleType DEF AddSteps
    <2>5. CASE b = a /\ job'[a] = Idle
        BY <2>5, IdleType DEF AddSteps
    <2>6. CASE b # a
        BY <1>0, <2>1, <2>2, <2>6 DEF Moves, ScriptsHaveUids
    <2>7. QED
        BY <2>4, <2>5, <2>6
<1>3. CASE UNCHANGED vars
    BY <1>0, <1>3 DEF vars, ScriptsHaveUids
<1>4. QED
    BY <1>1, <1>2, <1>3 DEF Next, Working, Beginning

LEMMA NextUids == ASSUME Ind, [Next]_vars PROVE OneAccountPerUid'
<1>0. TypeOK /\ OneAccountPerUid
    BY DEF Ind
<1>1. ASSUME NEW a \in Admin, NEW h \in Host, NEW from \in AddSteps, NEW to \in AddSteps,
             AddOn(a, h, from, to)
      PROVE  OneAccountPerUid'
    <2> DEFINE n == job[a].name
    <2>1. n \in Name
        BY <1>1, Works DEF AddOn, At, AddSteps
    <2>2. CASE account' = account
        BY <1>0, <2>2 DEF OneAccountPerUid
    <2>3. CASE Makes(h, n, job[a].uid) /\ account' = [account EXCEPT ![h][n] = job[a].uid]
        BY <1>0, <2>1, <2>3 DEF OneAccountPerUid, TypeOK, Makes
    <2>4. QED
        BY <1>1, <2>2, <2>3 DEF AddOn
<1>2. ASSUME NEW a \in Admin, NEW h \in Host, NEW from \in DelSteps, NEW to \in DelSteps,
             RemoveFrom(a, h, from, to)
      PROVE  OneAccountPerUid'
    <2>1. job[a].name \in Name
        BY <1>2, Works DEF RemoveFrom, At, DelSteps
    <2>2. QED
        BY <1>0, <1>2, <2>1 DEF OneAccountPerUid, TypeOK, RemoveFrom
<1>3. CASE account' = account
    BY <1>0, <1>3 DEF OneAccountPerUid
<1>4. QED
    BY <1>1, <1>2, <1>3
       DEF Next, vars, hostVars, Provision, Offboard, Adduser, Deluser, PickUid, AddAssociation,
           MakeArea, LinkHome, Verify, CreateRow, DropJobs, Archive, OffboardRow, TimeOut,
           CommandFails, Host, AddSteps, DelSteps

LEMMA NextTenancy == ASSUME Ind, [Next]_vars PROVE Tenancy'
<1>0. TypeOK /\ TypeOK' /\ Tenancy
    BY NextType DEF Ind
<1>1. ASSUME NEW a \in Admin, NEW n \in Name, Beginning(a, n) PROVE Tenancy'
    <2>1. account' = account
        BY <1>1 DEF Beginning, Provision, Offboard, hostVars
    <2>2. requests' = requests + 1
        BY <1>1, Begins
    <2>3. \A m \in Name : /\ tenants[m] <= tenants'[m] /\ tenants'[m] <= tenants[m] + 1
                         /\ tenants[m] \in Nat /\ tenants'[m] \in Nat
        BY <1>0, <1>1 DEF Beginning, Provision, Offboard, TypeOK, Tenant
    <2>4. Provision(a, n) => tenants'[n] # 0
        BY <1>0, <2>1 DEF Provision, Tenancy, TypeOK, Tenant
    <2>5. ASSUME NEW m \in Name
          PROVE  tenants'[m] <= requests' /\ (account'["login"][m] # 0 => tenants'[m] # 0)
        <3>1. tenants[m] <= requests /\ (account["login"][m] # 0 => tenants[m] # 0)
            BY <1>0 DEF Tenancy
        <3>2. requests \in Nat
            BY <1>0 DEF TypeOK
        <3>3. QED
            BY <2>1, <2>2, <2>3, <3>1, <3>2
    <2>6. ASSUME NEW m \in Name, NEW b \in Admin, job'[b].step # "idle", job'[b].name = m,
                 job'[b].step \in AddSteps
          PROVE  tenants'[m] # 0
        <3>1. CASE b = a
            BY <1>1, <2>4, <2>6, <3>1, Begins DEF AddSteps
        <3>2. CASE b # a
            <4>1. job'[b].step = job[b].step /\ job'[b].name = job[b].name
                BY <1>1, <3>2, Begins
            <4>2. tenants[m] # 0
                BY <1>0, <2>6, <4>1 DEF Tenancy, Busy
            <4>3. QED
                BY <2>3, <4>2
        <3>3. QED
            BY <3>1, <3>2
    <2>7. QED
        BY <2>5, <2>6 DEF Tenancy, Busy
<1>2. ASSUME NEW a \in Admin, Working(a) PROVE Tenancy'
    <2>1. Moves(a)
        BY <1>2, AllMove
    <2>2. tenants' = tenants /\ requests' = requests
        BY <1>2 DEF Working, Adduser, Deluser, PickUid, AddOn, AddAssociation, MakeArea, LinkHome,
                    Verify, CreateRow, DropJobs, Archive, RemoveFrom, OffboardRow, TimeOut,
                    CommandFails
    <2>3. \A m \in Name : account'["login"][m] # 0 =>
                account["login"][m] # 0 \/ (m = job[a].name /\ job[a].step \in AddSteps)
        <3>1. job[a].name \in Name
            BY <2>1, Works DEF Moves
        <3>2. ASSUME NEW h \in Host, NEW from \in AddSteps, NEW to \in AddSteps,
                     AddOn(a, h, from, to), NEW m \in Name, account'["login"][m] # 0
              PROVE  account["login"][m] # 0 \/ (m = job[a].name /\ job[a].step \in AddSteps)
            BY <1>0, <3>1, <3>2 DEF AddOn, At, TypeOK, Host
        <3>3. ASSUME NEW h \in Host, NEW from \in DelSteps, NEW to \in DelSteps,
                     RemoveFrom(a, h, from, to), NEW m \in Name, account'["login"][m] # 0
              PROVE  account["login"][m] # 0
            BY <1>0, <3>1, <3>3 DEF RemoveFrom, TypeOK, Host
        <3>4. QED
            BY <1>2, <3>2, <3>3
               DEF Working, Adduser, Deluser, PickUid, AddAssociation, MakeArea, LinkHome,
                   Verify, CreateRow, DropJobs, Archive, OffboardRow, TimeOut, CommandFails,
                   hostVars, Host, AddSteps, DelSteps
    <2>4. ASSUME NEW m \in Name
          PROVE  tenants'[m] <= requests' /\ (account'["login"][m] # 0 => tenants'[m] # 0)
        <3>1. job[a].step \in AddSteps => tenants[job[a].name] # 0
            BY <2>1, Works DEF Moves, Tenant
        <3>2. QED
            BY <1>0, <2>2, <2>3, <3>1 DEF Tenancy
    <2>5. ASSUME NEW m \in Name, NEW b \in Admin, job'[b].step # "idle", job'[b].name = m,
                 job'[b].step \in AddSteps
          PROVE  tenants'[m] # 0
        <3>1. job[b].step # "idle" /\ job[b].name = m /\ job[b].step \in AddSteps
            BY <2>1, <2>5, IdleType DEF Moves
        <3>2. QED
            BY <1>0, <2>2, <3>1 DEF Tenancy, Busy
    <2>6. QED
        BY <2>4, <2>5 DEF Tenancy, Busy
<1>3. CASE UNCHANGED vars
    BY <1>0, <1>3 DEF vars, hostVars, Tenancy, Busy
<1>4. QED
    BY <1>1, <1>2, <1>3 DEF Next, Working, Beginning

LEMMA NextData == ASSUME Ind, [Next]_vars PROVE DataIsKept'
<1>0. TypeOK /\ DataIsKept
    BY DEF Ind
<1>1. ASSUME NEW a \in Admin, NEW n \in Name, Provision(a, n) PROVE DataIsKept'
    <2>1. PICK kept \in {area[n], {}} :
            /\ area' = [area EXCEPT ![n] = kept]
            /\ dropped' = [dropped EXCEPT ![n] = dropped[n] \cup (area[n] \ kept)]
        BY <1>1 DEF Provision
    <2>2. archive' = archive /\ stored' = stored /\ retried' = retried
        BY <1>1 DEF Provision
    <2>3. ASSUME NEW m \in Name PROVE area[m] \cup dropped[m] \subseteq area'[m] \cup dropped'[m]
        BY <1>0, <2>1 DEF TypeOK
    <2>4. QED
        BY <1>0, <2>2, <2>3 DEF DataIsKept
<1>2. ASSUME NEW a \in Admin, MakeArea(a) PROVE DataIsKept'
    <2>1. job[a].name \in Name
        BY <1>2, Works DEF MakeArea, At
    <2>2. QED
        BY <1>0, <1>2, <2>1 DEF MakeArea, TypeOK, DataIsKept
<1>3. ASSUME NEW a \in Admin, Archive(a) PROVE DataIsKept'
    <2> DEFINE n == job[a].name
    <2>1. n \in Name
        BY <1>3, Works DEF Archive, At
    <2>2. area' = [area EXCEPT ![n] = {}] /\ stored' = stored
        BY <1>3 DEF Archive
    <2>3. \A m \in Name : m # n =>
            /\ area'[m] = area[m] /\ archive'[m] = archive[m] /\ dropped'[m] = dropped[m]
            /\ m \notin retried' => m \notin retried
        BY <1>0, <1>3, <2>1 DEF Archive, TypeOK
    <2>4. n \notin retried' => stored[n] \subseteq area'[n] \cup archive'[n] \cup dropped'[n]
        BY <1>0, <1>3, <2>1 DEF Archive, TypeOK, DataIsKept
    <2>5. ASSUME NEW m \in Name, m \notin retried'
          PROVE  stored'[m] \subseteq area'[m] \cup archive'[m] \cup dropped'[m]
        BY <1>0, <2>2, <2>3, <2>4, <2>5 DEF DataIsKept
    <2>6. QED
        BY <2>5 DEF DataIsKept
<1>4. CASE UNCHANGED dataVars
    BY <1>0, <1>4 DEF dataVars, DataIsKept
<1>5. QED
    BY <1>1, <1>2, <1>3, <1>4
       DEF Next, vars, Offboard, Adduser, Deluser, PickUid, AddOn, AddAssociation,
           LinkHome, Verify, CreateRow, DropJobs, RemoveFrom, OffboardRow, TimeOut, CommandFails

LEMMA NextTenants == ASSUME Ind, [Next]_vars PROVE TenantsThereWere'
<1>0. TypeOK /\ TypeOK' /\ TenantsThereWere
    BY NextType DEF Ind
<1>1. ASSUME NEW n \in Name PROVE tenants[n] <= tenants'[n] /\ tenants[n] \in Nat /\ tenants'[n] \in Nat
    <2>1. tenants' = tenants \/ \E a \in Admin, m \in Name : Provision(a, m)
        BY DEF Next, vars, Offboard, Adduser, Deluser, PickUid, AddOn, AddAssociation,
               MakeArea, LinkHome, Verify, CreateRow, DropJobs, Archive, RemoveFrom, OffboardRow,
               TimeOut, CommandFails
    <2>2. tenants[n] \in Nat /\ tenants'[n] \in Nat
        BY <1>0, Bounds DEF TypeOK, Tenant
    <2>3. ASSUME NEW a \in Admin, NEW m \in Name, Provision(a, m)
          PROVE  tenants'[n] = tenants[n] \/ tenants'[n] = tenants[n] + 1
        BY <1>0, <2>3 DEF Provision, TypeOK
    <2>4. QED
        BY <2>1, <2>2, <2>3
<1>2. ASSUME NEW n \in Name
      PROVE  /\ area'[n] \cup archive'[n] \subseteq stored'[n]
             /\ \A t \in stored'[n] : t <= tenants'[n]
    <2>0. /\ area[n] \cup archive[n] \subseteq stored[n] /\ stored[n] \subseteq Tenant
          /\ \A t \in stored[n] : t <= tenants[n]
        BY <1>0 DEF TenantsThereWere, TypeOK
    <2>1. ASSUME NEW a \in Admin, NEW m \in Name, Provision(a, m)
          PROVE  area'[n] \subseteq area[n] /\ archive' = archive /\ stored' = stored
        BY <1>0, <2>1 DEF Provision, TypeOK
    <2>2. ASSUME NEW a \in Admin, MakeArea(a)
          PROVE  /\ (area'[n] = area[n] /\ stored'[n] = stored[n])
                    \/ (area'[n] = area[n] \cup {tenants[n]} /\ stored'[n] = stored[n] \cup {tenants[n]})
                 /\ archive' = archive /\ tenants' = tenants
        BY <1>0, <2>2 DEF MakeArea, TypeOK
    <2>3. ASSUME NEW a \in Admin, Archive(a)
          PROVE  area'[n] \subseteq area[n] /\ archive'[n] \subseteq area[n] \cup archive[n] /\ stored' = stored
        <3>1. job[a].name \in Name
            BY <2>3, Works DEF Archive, At
        <3>2. area'[n] \subseteq area[n] /\ stored' = stored
            BY <1>0, <2>3, <3>1 DEF Archive, TypeOK
        <3>3. archive' = archive \/ archive' = [archive EXCEPT ![job[a].name] = area[job[a].name]]
            BY <2>3 DEF Archive
        <3>4. archive'[n] \subseteq area[n] \cup archive[n]
            <4>1. archive \in [Name -> SUBSET Tenant]
                BY <1>0 DEF TypeOK
            <4>2. archive'[n] = archive[n] \/ archive'[n] = area[n]
                BY <3>1, <3>3, <4>1
            <4>3. QED
                BY <4>2
        <3>5. QED
            BY <3>2, <3>4
    <2>4. \/ UNCHANGED dataVars
          \/ \E a \in Admin : MakeArea(a) \/ Archive(a) \/ \E m \in Name : Provision(a, m)
        BY DEF Next, vars, Offboard, Adduser, Deluser, PickUid, AddOn, AddAssociation,
               LinkHome, Verify, CreateRow, DropJobs, RemoveFrom, OffboardRow, TimeOut, CommandFails
    <2>5. CASE UNCHANGED dataVars
        BY <1>1, <2>0, <2>5 DEF dataVars, Tenant
    <2>6. CASE \E a \in Admin : MakeArea(a)
        BY <1>1, <2>0, <2>2, <2>6 DEF Tenant
    <2>7. CASE \E a \in Admin : Archive(a) \/ \E m \in Name : Provision(a, m)
        BY <1>1, <2>0, <2>1, <2>3, <2>7 DEF Tenant
    <2>8. QED
        BY <2>4, <2>5, <2>6, <2>7
<1>3. ASSUME NEW n \in Name
      PROVE  row'[n].tenant <= tenants'[n] /\ (row'[n].active => row'[n].tenant # 0)
    <2>0. /\ row[n].tenant <= tenants[n] /\ (row[n].active => row[n].tenant # 0)
          /\ row[n].tenant \in Nat
        BY <1>0 DEF TenantsThereWere, TypeOK, Tenant
    <2>1. CASE row' = row
        BY <1>1, <2>0, <2>1
    <2>2. ASSUME NEW a \in Admin, CreateRow(a), row' # row
          PROVE  row'[n] = row[n] \/ (row'[n].tenant = tenants[n] /\ tenants[n] # 0)
        <3>1. job[a].name \in Name /\ tenants[job[a].name] \in Tenant
            BY <2>2, Works DEF CreateRow, At, AddSteps
        <3>2. row' = [row EXCEPT ![job[a].name] = [tenant |-> tenants[job[a].name], active |-> TRUE]]
            BY <2>2 DEF CreateRow, UsersCreate
        <3>3. QED
            BY <1>0, <3>1, <3>2 DEF TypeOK, Tenant
    <2>3. ASSUME NEW a \in Admin, OffboardRow(a)
          PROVE  row'[n] = row[n] \/ (row'[n].tenant = row[n].tenant /\ ~row'[n].active)
        <3>1. row' = row \/ row' = [row EXCEPT ![job[a].name] = [row[job[a].name] EXCEPT !.active = FALSE]]
            BY <2>3 DEF OffboardRow
        <3>2. row \in [Name -> [tenant : Tenant \cup {0}, active : BOOLEAN]]
            BY <1>0 DEF TypeOK
        <3>3. QED
            BY <3>1, <3>2
    <2>4. row' = row \/ \E a \in Admin : CreateRow(a) \/ OffboardRow(a)
        BY DEF Next, vars, Provision, Offboard, Adduser, Deluser, PickUid, AddOn, AddAssociation,
               MakeArea, LinkHome, Verify, DropJobs, Archive, RemoveFrom, TimeOut, CommandFails
    <2>5. QED
        BY <1>1, <2>0, <2>1, <2>2, <2>3, <2>4
<1>4. QED
    BY <1>2, <1>3 DEF TenantsThereWere

-------------------------------------------------------------------------------
(* What is done about one name leaves the others alone.                    *)

Untouched(m) ==
    /\ \A h \in Host : account'[h][m] = account[h][m] /\ home'[h][m] = home[h][m]
    /\ m \in assoc' <=> m \in assoc
    /\ row'[m] = row[m] /\ tenants'[m] = tenants[m]
    /\ m \in crossed' <=> m \in crossed
    /\ m \in troubled' <=> m \in troubled
    /\ m \in warned' <=> m \in warned

LEMMA UntouchedHolds ==
    ASSUME NEW m \in Name, Untouched(m), NameInv(m), Busy(m)' = Busy(m),
           \A b \in Busy(m) : job'[b] = job[b]
    PROVE  NameInv(m)'
<1>1. Alone(m)'
    BY DEF NameInv, Alone, Untouched
<1>2. ASSUME NEW b \in Busy(m)' PROVE Script(b, m)'
    <2>1. job'[b] = job[b] /\ Script(b, m)
        BY <1>2 DEF NameInv
    <2>2. Achieved(b, m)'
        BY <2>1 DEF Script, Achieved, Untouched, Host
    <2>3. CleanSoFar(b, m)'
        BY <2>1 DEF Script, CleanSoFar, Untouched, Host, Agrees
    <2>4. QED
        BY <2>1, <2>2, <2>3 DEF Script, Untouched
<1>3. UidFollows(m)'
    BY DEF NameInv, UidFollows, Untouched, Host
<1>4. RowFollows(m)'
    BY DEF NameInv, RowFollows, Untouched, Host
<1>5. WholeOrGone(m)'
    BY DEF NameInv, WholeOrGone, Whole, Gone, Agrees, Untouched, Host
<1>6. QED
    BY <1>1, <1>2, <1>3, <1>4, <1>5 DEF NameInv

LEMMA HostFrame ==
    ASSUME Ind, NEW a \in Admin, NEW m \in Name, job[a].step # "idle", m # job[a].name,
           \/ UNCHANGED hostVars
           \/ \E h \in Host : \E from \in AddSteps, to \in AddSteps : AddOn(a, h, from, to)
           \/ \E h \in Host : \E from \in DelSteps, to \in DelSteps : RemoveFrom(a, h, from, to)
           \/ LinkHome(a)
    PROVE  \A h \in Host : account'[h][m] = account[h][m] /\ home'[h][m] = home[h][m]
<1>0. TypeOK /\ job[a].name \in Name
    BY Works DEF Ind
<1>1. CASE UNCHANGED hostVars
    BY <1>1 DEF hostVars
<1>2. ASSUME NEW h \in Host, NEW from \in AddSteps, NEW to \in AddSteps, AddOn(a, h, from, to)
      PROVE  \A g \in Host : account'[g][m] = account[g][m] /\ home'[g][m] = home[g][m]
    BY <1>0, <1>2 DEF AddOn, TypeOK
<1>3. ASSUME NEW h \in Host, NEW from \in DelSteps, NEW to \in DelSteps, RemoveFrom(a, h, from, to)
      PROVE  \A g \in Host : account'[g][m] = account[g][m] /\ home'[g][m] = home[g][m]
    BY <1>0, <1>3 DEF RemoveFrom, TypeOK
<1>4. CASE LinkHome(a)
    BY <1>0, <1>4 DEF LinkHome, TypeOK, Host
<1>5. QED
    BY <1>1, <1>2, <1>3, <1>4

LEMMA WorkingFrame ==
    ASSUME Ind, NEW a \in Admin, Working(a), NEW m \in Name, m # job[a].name
    PROVE  Untouched(m)
<1>0. TypeOK /\ Moves(a) /\ job[a].step # "idle" /\ job[a].name \in Name
    BY AllMove, Works DEF Ind, Moves
<1>1. \A h \in Host : account'[h][m] = account[h][m] /\ home'[h][m] = home[h][m]
    <2>1. \/ UNCHANGED hostVars
          \/ \E h \in Host : \E from \in AddSteps, to \in AddSteps : AddOn(a, h, from, to)
          \/ \E h \in Host : \E from \in DelSteps, to \in DelSteps : RemoveFrom(a, h, from, to)
          \/ LinkHome(a)
        <3>1. "login" \in Host /\ "gpu" \in Host /\ "login" \in AddSteps /\ "gpu" \in AddSteps
              /\ "assoc" \in AddSteps /\ "delgpu" \in DelSteps /\ "dellogin" \in DelSteps
              /\ "delrow" \in DelSteps
            BY DEF Host, AddSteps, DelSteps
        <3>2. QED
            BY <3>1 DEF Working, Adduser, Deluser, PickUid, AddAssociation, MakeArea,
                   Verify, CreateRow, DropJobs, Archive, OffboardRow, TimeOut, CommandFails
    <2>2. QED
        BY <1>0, <2>1, HostFrame
<1>2. (m \in assoc' <=> m \in assoc) /\ tenants'[m] = tenants[m]
    BY <1>0 DEF Working, Adduser, Deluser, PickUid, AddOn, AddAssociation, MakeArea, LinkHome,
                Verify, CreateRow, DropJobs, Archive, RemoveFrom, OffboardRow, TimeOut,
                CommandFails
<1>3. row'[m] = row[m]
    <2>1. CASE CreateRow(a)
        BY <1>0, <2>1 DEF CreateRow, UsersCreate, TypeOK
    <2>2. CASE OffboardRow(a)
        BY <1>0, <2>2 DEF OffboardRow, TypeOK
    <2>3. CASE row' = row
        BY <2>3
    <2>4. QED
        BY <2>1, <2>2, <2>3
           DEF Working, Adduser, Deluser, PickUid, AddOn, AddAssociation, MakeArea, LinkHome,
               Verify, DropJobs, Archive, RemoveFrom, TimeOut, CommandFails
<1>4. m \in crossed' <=> m \in crossed
    BY <1>0 DEF Working, Adduser, Deluser, PickUid, AddOn, AddAssociation, MakeArea, LinkHome,
                Verify, CreateRow, DropJobs, Archive, RemoveFrom, OffboardRow, TimeOut,
                CommandFails
<1>5. m \in troubled' <=> m \in troubled
    BY <1>0 DEF Working, Adduser, Deluser, PickUid, AddOn, AddAssociation, MakeArea, LinkHome,
                Verify, CreateRow, DropJobs, Archive, RemoveFrom, OffboardRow, TimeOut,
                CommandFails, Fails, Succeeds
<1>6. m \in warned' <=> m \in warned
    BY <1>0 DEF Working, Adduser, Deluser, PickUid, AddOn, AddAssociation, MakeArea, LinkHome,
                Verify, CreateRow, DropJobs, Archive, RemoveFrom, OffboardRow, TimeOut,
                CommandFails, UsersCreate, Warns
<1>7. QED
    BY <1>1, <1>2, <1>3, <1>4, <1>5, <1>6 DEF Untouched

LEMMA WorkingOthers ==
    ASSUME Ind, NEW a \in Admin, Working(a), NEW m \in Name, m # job[a].name
    PROVE  NameInv(m)'
<1>1. Moves(a) /\ Untouched(m) /\ NameInv(m)
    BY AllMove, WorkingFrame DEF Ind
<1>2. a \notin Busy(m) /\ a \notin Busy(m)'
    BY <1>1, IdleType DEF Moves, Busy
<1>3. Busy(m)' = Busy(m) /\ \A b \in Busy(m) : job'[b] = job[b]
    BY <1>1, <1>2 DEF Moves, Busy
<1>4. QED
    BY <1>1, <1>3, UntouchedHolds

LEMMA BeginningOthers ==
    ASSUME Ind, NEW a \in Admin, NEW n \in Name, Beginning(a, n), NEW m \in Name, m # n
    PROVE  NameInv(m)'
<1>0. TypeOK /\ NameInv(m)
    BY DEF Ind
<1>1. Untouched(m)
    <2>1. /\ UNCHANGED <<account, home, assoc, row, troubled, warned>>
          /\ tenants' = tenants \/ tenants' = [tenants EXCEPT ![n] = tenants[n] + 1]
          /\ crossed' = crossed \/ crossed' = crossed \cup {n}
        BY DEF Beginning, Provision, Offboard, Begin, hostVars
    <2>2. QED
        BY <1>0, <2>1 DEF Untouched, TypeOK
<1>2. a \notin Busy(m) /\ a \notin Busy(m)'
    <2>1. job[a] = Idle /\ job'[a].name = n
        BY Begins
    <2>2. QED
        BY <2>1, IdleType DEF Busy
<1>3. ASSUME NEW b \in Admin PROVE b \in Busy(m)' <=> b \in Busy(m)
    BY <1>2, Begins DEF Busy
<1>4. ASSUME NEW b \in Busy(m) PROVE job'[b] = job[b]
    <2>1. b \in Admin /\ b # a /\ b \notin Busy(n)
        BY <1>2 DEF Busy
    <2>2. QED
        BY <2>1, Begins
<1>5. Busy(m)' = Busy(m)
    BY <1>3 DEF Busy
<1>6. QED
    BY <1>0, <1>1, <1>4, <1>5, UntouchedHolds

-------------------------------------------------------------------------------
(* What is done about a name.                                              *)

LEMMA BeginningOwn ==
    ASSUME Ind, NEW a \in Admin, NEW n \in Name, Beginning(a, n)
    PROVE  NameInv(n)'
<1>0. TypeOK /\ NameInv(n)
    BY DEF Ind
<1>1. \A b \in Admin : b \in Busy(n)' <=> b \in Busy(n) \cup {a}
    <2>1. job'[a].step # "idle" /\ job'[a].name = n
        BY Begins
    <2>2. QED
        BY <2>1, Begins DEF Busy
<1>2. UNCHANGED <<account, home, assoc, row, troubled, warned>>
    BY DEF Beginning, Provision, Offboard, hostVars
<1>3. Alone(n)'
    <2>1. SUFFICES ASSUME NEW x \in Busy(n)', NEW y \in Busy(n)', x # y
                   PROVE  n \in crossed' /\ ~job'[x].clean
        BY DEF Alone
    <2>2. x \in Admin /\ y \in Admin
        BY DEF Busy
    <2>3. Busy(n) # {}
        BY <1>1, <2>1, <2>2
    <2>4. CASE x = a
        BY <2>3, <2>4, Begins
    <2>5. CASE x \in Busy(n)
        BY <2>3, <2>5, Begins
    <2>6. QED
        BY <1>1, <2>2, <2>4, <2>5
<1>4. ASSUME NEW b \in Busy(n)' PROVE Script(b, n)'
    <2>1. b \in Admin
        BY DEF Busy
    <2>2. CASE b = a
        <3>1. job'[b].step \in {"pick", "jobs"} /\ ~job'[b].orphan
            BY <2>2, Begins
        <3>2. QED
            BY <3>1 DEF Script, Achieved, CleanSoFar
    <2>3. CASE b \in Busy(n)
        <3>1. ~job'[b].clean /\ (job'[b].orphan <=> job[b].orphan) /\ n \in crossed'
            BY <2>3, Begins
        <3>2. job[b].orphan => n \in troubled
            BY <1>0, <2>3 DEF NameInv, Script
        <3>3. QED
            BY <1>2, <3>1, <3>2 DEF Script, Achieved, CleanSoFar
    <2>4. QED
        BY <1>1, <2>1, <2>2, <2>3
<1>5. crossed \subseteq crossed' /\ (n \notin crossed' => Busy(n) = {})
    BY Begins
<1>6. UidFollows(n)'
    BY <1>0, <1>2, <1>5 DEF NameInv, UidFollows
<1>7. RowFollows(n)'
    <2>1. SUFFICES ASSUME row[n].active, n \notin warned, n \notin crossed'
                   PROVE  row[n].tenant = tenants'[n] /\ account["login"][n] # 0
        BY <1>2 DEF RowFollows
    <2>2. row[n].tenant = tenants[n] /\ account["login"][n] # 0
        BY <1>0, <1>5, <2>1 DEF NameInv, RowFollows
    <2>3. tenants' = tenants
        BY <2>2 DEF Beginning, Provision, Offboard
    <2>4. QED
        BY <2>2, <2>3
<1>8. WholeOrGone(n)'
    BY <1>1 DEF WholeOrGone
<1>9. QED
    BY <1>3, <1>4, <1>6, <1>7, <1>8 DEF NameInv

(* The history of crossings and troubles.                                  *)
LEMMA Histories ==
    ASSUME Ind, NEW a \in Admin, Working(a), NEW n \in Name, n = job[a].name
    PROVE  /\ n \in crossed => n \in crossed'
           /\ n \in troubled /\ ~job[a].clean => n \in troubled'
<1>1. n \in crossed => n \in crossed'
    BY DEF Working, Adduser, Deluser, PickUid, AddOn, AddAssociation, MakeArea, LinkHome,
           Verify, CreateRow, DropJobs, Archive, RemoveFrom, OffboardRow, TimeOut, CommandFails
<1>2. n \in troubled /\ ~job[a].clean => n \in troubled'
    BY DEF Working, Adduser, Deluser, PickUid, AddOn, AddAssociation, MakeArea, LinkHome,
           Verify, CreateRow, DropJobs, Archive, RemoveFrom, OffboardRow, TimeOut, CommandFails,
           Fails, Succeeds
<1>3. QED
    BY <1>1, <1>2

(* Panels that work on the same name go on having crossed.                 *)
LEMMA WorkingBeside ==
    ASSUME Ind, NEW a \in Admin, Working(a), NEW n \in Name, n = job[a].name
    PROVE  Alone(n)' /\ \A b \in Busy(n)' : b # a => Script(b, n)'
<1>0. NameInv(n) /\ Moves(a) /\ a \in Busy(n)
    BY AllMove, Works DEF Ind, Moves
<1>1. ASSUME NEW b \in Busy(n)', b # a
      PROVE  b \in Busy(n) /\ job'[b] = job[b] /\ n \in crossed' /\ ~job[b].clean /\ ~job[a].clean
    <2>1. b \in Busy(n) /\ job'[b] = job[b]
        BY <1>0, <1>1 DEF Moves, Busy
    <2>2. n \in crossed /\ ~job[b].clean /\ ~job[a].clean
        BY <1>0, <1>1, <2>1 DEF NameInv, Alone
    <2>3. QED
        BY <2>1, <2>2, Histories
<1>2. Alone(n)'
    <2>1. SUFFICES ASSUME NEW x \in Busy(n)', NEW y \in Busy(n)', x # y
                   PROVE  n \in crossed' /\ ~job'[x].clean
        BY DEF Alone
    <2>2. CASE x # a
        BY <1>1, <2>2
    <2>3. CASE x = a
        <3>1. y # a /\ job'[a].step # "idle"
            BY <2>1, <2>3 DEF Busy
        <3>2. n \in crossed' /\ ~job[a].clean
            BY <1>1, <3>1
        <3>3. job'[a].clean => job[a].clean
            BY <1>0, <3>1, IdleType DEF Moves
        <3>4. QED
            BY <2>3, <3>2, <3>3
    <2>4. QED
        BY <2>2, <2>3
<1>3. ASSUME NEW b \in Busy(n)', b # a PROVE Script(b, n)'
    <2>1. b \in Busy(n) /\ job'[b] = job[b] /\ n \in crossed' /\ ~job[b].clean /\ ~job[a].clean
        BY <1>1, <1>3
    <2>2. job[b].orphan => n \in troubled'
        BY <1>0, <2>1, Histories DEF NameInv, Script
    <2>3. QED
        BY <2>1, <2>2 DEF Script, Achieved, CleanSoFar
<1>4. QED
    BY <1>2, <1>3

(* What is left to show of the one that works.                             *)
Own(a, n) ==
    /\ a \in Busy(n) => Script(a, n)
    /\ UidFollows(n) /\ RowFollows(n) /\ WholeOrGone(n)

LEMMA ContinueOwn ==
    ASSUME Ind, NEW a \in Admin, NEW s \in AddSteps \cup DelSteps, Continue(a, s),
           job[a].step # "idle"
    PROVE  \/ job[a].orphan /\ job'[a] = Idle
           \/ /\ ~job[a].orphan /\ ~job'[a].orphan
              /\ job'[a].step = s /\ job'[a].name = job[a].name /\ job'[a].uid = job[a].uid
              /\ job'[a].clean <=> job[a].clean
<1>1. Turns(a, IF job[a].orphan THEN Idle ELSE [job[a] EXCEPT !.step = s]) /\ job[a] \in JobType
    BY ContinueTurns, Works DEF Ind
<1>2. CASE job[a].orphan
    BY <1>1, <1>2 DEF Turns
<1>3. CASE ~job[a].orphan
    <2>1. job'[a] = [job[a] EXCEPT !.step = s]
        BY <1>1, <1>3 DEF Turns
    <2>2. QED
        BY <1>1, <1>3, <2>1 DEF JobType
<1>4. QED
    BY <1>2, <1>3

LEMMA RowKept ==
    ASSUME Ind, NEW a \in Admin, Working(a), NEW n \in Name, n = job[a].name,
           job[a].step # "delrow" \/ n \in warned',
           account'["login"][n] = 0 => account["login"][n] = 0,
           row'[n] = row[n], n \in warned => n \in warned'
    PROVE  RowFollows(n)'
<1>0. RowFollows(n) /\ Moves(a)
    BY AllMove DEF Ind, NameInv
<1>1. SUFFICES ASSUME row'[n].active, n \notin warned', n \notin crossed'
               PROVE  /\ row'[n].tenant = tenants'[n]
                      /\ account'["login"][n] # 0 \/ \E b \in Busy(n)' : job'[b].step = "delrow"
    BY DEF RowFollows
<1>2. row[n].active /\ n \notin warned /\ n \notin crossed
    BY <1>1, Histories
<1>3. tenants' = tenants
    BY DEF Working, Adduser, Deluser, PickUid, AddOn, AddAssociation, MakeArea, LinkHome,
           Verify, CreateRow, DropJobs, Archive, RemoveFrom, OffboardRow, TimeOut, CommandFails
<1>4. row'[n].tenant = tenants'[n]
    BY <1>0, <1>2, <1>3 DEF RowFollows
<1>5. ASSUME NEW b \in Busy(n), job[b].step = "delrow"
      PROVE  b \in Busy(n)' /\ job'[b].step = "delrow"
    <2>1. b # a
        BY <1>1, <1>5
    <2>2. QED
        BY <1>0, <1>5, <2>1 DEF Moves, Busy
<1>6. QED
    BY <1>0, <1>2, <1>4, <1>5 DEF RowFollows

LEMMA UidKept ==
    ASSUME Ind, NEW a \in Admin, Working(a), NEW n \in Name, n = job[a].name,
           account' = account
    PROVE  UidFollows(n)'
<1>1. UidFollows(n)
    BY DEF Ind, NameInv
<1>2. n \notin crossed' => n \notin crossed
    BY Histories
<1>3. QED
    BY <1>1, <1>2 DEF UidFollows

LEMMA QuietKept ==
    ASSUME NEW a \in Admin, NEW n \in Name, a \in Busy(n)' \/ n \in troubled'
    PROVE  WholeOrGone(n)'
BY DEF WholeOrGone

LEMMA AddOwn ==
    ASSUME Ind, NEW a \in Admin, NEW n \in Name, n = job[a].name,
           AddOn(a, "login", "login", "gpu") \/ AddOn(a, "gpu", "gpu", "assoc")
    PROVE  Own(a, n)'
<1> USE DEF Host
<1>0. /\ TypeOK /\ Working(a) /\ job[a].step \in {"login", "gpu"} /\ a \in Busy(n)
      /\ Script(a, n) /\ UidFollows(n) /\ job[a].uid # 0 /\ job[a].uid \in Nat
    <2>1. Working(a) /\ job[a].step \in {"login", "gpu"}
        BY DEF Working, Adduser, AddOn, At
    <2>2. a \in Busy(n)
        BY <2>1, Works
    <2>3. job[a].uid # 0 /\ job[a].uid \in Nat
        BY <2>1, Bounds DEF Ind, ScriptsHaveUids, AddSteps, TypeOK
    <2>4. QED
        BY <2>1, <2>2, <2>3 DEF Ind, NameInv
<1>1. n \in crossed => n \in crossed'
    BY <1>0, Histories
<1>2. row' = row /\ warned' = warned
    BY DEF AddOn
<1>3. /\ \A h \in Host : account[h][n] # 0 => account'[h][n] = account[h][n]
      /\ \A h \in Host : account'[h][n] # account[h][n] => account'[h][n] = job[a].uid
    BY <1>0 DEF AddOn, TypeOK, Makes
<1>4. RowFollows(n)'
    <2>1. account'["login"][n] = 0 => account["login"][n] = 0
        BY <1>3
    <2>2. QED
        BY <1>0, <1>2, <2>1, RowKept
<1>5. \/ \E s \in {"gpu", "assoc"} :
            /\ Continue(a, s) /\ troubled' = troubled
            /\ s = "gpu" => Settled("login", n)
      \/ Fails(a)
    BY DEF AddOn
<1>6. \/ job'[a] = Idle /\ n \in troubled'
      \/ /\ job'[a].step \in {"gpu", "assoc"} /\ job'[a].name = n /\ job'[a].uid = job[a].uid
         /\ ~job'[a].orphan
         /\ job'[a].step = "gpu" => account'["login"][n] # 0
    <2>1. ASSUME NEW s \in {"gpu", "assoc"}, Continue(a, s), troubled' = troubled,
                 s = "gpu" => Settled("login", n)
          PROVE  \/ job'[a] = Idle /\ n \in troubled'
                 \/ /\ job'[a].step \in {"gpu", "assoc"} /\ job'[a].name = n /\ job'[a].uid = job[a].uid
                    /\ ~job'[a].orphan
                    /\ job'[a].step = "gpu" => account'["login"][n] # 0
        <3>1. s \in AddSteps \cup DelSteps /\ job[a].step # "idle"
            BY <1>0 DEF AddSteps
        <3>2. job[a].orphan => n \in troubled
            BY <1>0 DEF Script
        <3>3. QED
            BY <2>1, <3>1, <3>2, ContinueOwn DEF Settled
    <2>2. CASE Fails(a)
        BY <1>0, <2>2, EndsTurns DEF Fails, Turns
    <2>3. QED
        BY <1>5, <2>1, <2>2
<1>7. WholeOrGone(n)'
    <2>1. a \in Busy(n)' \/ n \in troubled'
        BY <1>6 DEF Busy
    <2>2. QED
        BY <2>1, QuietKept
<1>8. n \notin crossed' => account'["login"][n] \in {account["login"][n], job[a].uid}
    BY <1>3
<1>9. CASE AddOn(a, "login", "login", "gpu")
    <2>1. n \notin crossed' => account["login"][n] = 0
        BY <1>9 DEF AddOn
    <2>2. account'["gpu"][n] = account["gpu"][n]
        BY <1>0, <1>9 DEF AddOn, TypeOK
    <2>3. UidFollows(n)'
        BY <1>0, <1>1, <2>1, <2>2 DEF UidFollows
    <2>4. a \in Busy(n)' => Script(a, n)'
        <3>1. SUFFICES ASSUME a \in Busy(n)' PROVE Script(a, n)'
            OBVIOUS
        <3>2. job'[a].step \in {"gpu", "assoc"} /\ job'[a].uid = job[a].uid /\ ~job'[a].orphan
            BY <1>6, <3>1, IdleType DEF Busy
        <3>3. Continue(a, "gpu") \/ Fails(a)
            BY <1>9 DEF AddOn
        <3>4. job'[a].step = "gpu"
            <4>1. job'[a] # Idle
                BY <3>2, IdleType
            <4>2. ~Fails(a)
                BY <1>0, <4>1, EndsTurns DEF Fails, Turns
            <4>3. QED
                BY <1>0, <3>3, <4>1, <4>2, ContinueOwn DEF AddSteps
        <3>5. n \notin crossed' => account'["login"][n] = job'[a].uid
            BY <1>3, <1>6, <2>1, <3>2, <3>4, IdleType
        <3>6. QED
            BY <3>2, <3>4, <3>5 DEF Script, Achieved, CleanSoFar, DelSteps
    <2>5. QED
        BY <1>4, <1>7, <2>3, <2>4 DEF Own
<1>10. CASE AddOn(a, "gpu", "gpu", "assoc")
    <2>1. account'["login"][n] = account["login"][n]
        BY <1>0, <1>10 DEF AddOn, TypeOK
    <2>2. n \notin crossed' => account["login"][n] = job[a].uid
        BY <1>0, <1>1, <1>10 DEF Script, Achieved, AddOn, At
    <2>3. UidFollows(n)'
        BY <1>0, <1>1, <1>3, <2>1, <2>2 DEF UidFollows
    <2>4. a \in Busy(n)' => Script(a, n)'
        <3>1. SUFFICES ASSUME a \in Busy(n)' PROVE Script(a, n)'
            OBVIOUS
        <3>2. job'[a].step \in {"gpu", "assoc"} /\ job'[a].uid = job[a].uid /\ ~job'[a].orphan
            BY <1>6, <3>1, IdleType DEF Busy
        <3>3. QED
            BY <2>1, <2>2, <3>2 DEF Script, Achieved, CleanSoFar, DelSteps
    <2>5. QED
        BY <1>4, <1>7, <2>3, <2>4 DEF Own
<1>11. QED
    BY <1>9, <1>10

(* A script that goes on, or ends with n in trouble.                       *)
LEMMA Quiet ==
    ASSUME Ind, NEW a \in Admin, Working(a), NEW n \in Name, n = job[a].name,
           job'[a] = Idle => n \in troubled'
    PROVE  WholeOrGone(n)'
<1>1. Moves(a)
    BY AllMove
<1>2. a \in Busy(n)' \/ n \in troubled'
    BY <1>1 DEF Moves, Busy
<1>3. QED
    BY <1>2, QuietKept

LEMMA AddOwnRest ==
    ASSUME Ind, NEW a \in Admin, NEW n \in Name, n = job[a].name,
           PickUid(a) \/ AddAssociation(a) \/ MakeArea(a) \/ LinkHome(a) \/ Verify(a)
    PROVE  Own(a, n)'
<1>0. /\ TypeOK /\ Working(a) /\ job[a].step \in {"pick", "assoc", "area", "link", "verify"}
      /\ a \in Busy(n) /\ Script(a, n)
    <2>1. Working(a) /\ job[a].step \in {"pick", "assoc", "area", "link", "verify"}
        BY DEF Working, Adduser, PickUid, AddAssociation, MakeArea, LinkHome, Verify, At
    <2>2. a \in Busy(n)
        BY <2>1, Works
    <2>3. QED
        BY <2>1, <2>2 DEF Ind, NameInv
<1>1. account' = account /\ row' = row /\ warned' = warned /\ crossed' = crossed
    BY DEF PickUid, AddAssociation, MakeArea, LinkHome, Verify, hostVars
<1>2. UidFollows(n)' /\ RowFollows(n)'
    BY <1>0, <1>1, UidKept, RowKept
<1>3. job[a].orphan => n \in troubled
    BY <1>0 DEF Script
<1>4. CASE PickUid(a)
    <2>1. job[a] \in JobType /\ troubled' = troubled
        BY <1>0, <1>4, Works DEF PickUid
    <2>2. \/ job'[a] = Idle /\ job[a].orphan
          \/ ~job[a].orphan /\ job'[a] = [job[a] EXCEPT !.uid = FreeUid, !.step = "login"]
        BY <1>0, <1>4 DEF PickUid, TypeOK
    <2>3. job'[a] # Idle => job'[a].step = "login" /\ ~job'[a].orphan
        BY <2>1, <2>2 DEF JobType
    <2>4. a \in Busy(n)' => Script(a, n)'
        <3>1. a \in Busy(n)' => job'[a] # Idle
            BY IdleType DEF Busy
        <3>2. QED
            BY <2>3, <3>1 DEF Script, Achieved, CleanSoFar, DelSteps
    <2>5. job'[a] = Idle => n \in troubled'
        <3>1. job[a].orphan \/ job'[a].step = "login"
            BY <2>1, <2>2 DEF JobType
        <3>2. QED
            BY <1>3, <2>1, <3>1, IdleType
    <2>6. QED
        BY <1>0, <1>2, <2>4, <2>5, Quiet DEF Own
<1>5. CASE AddAssociation(a)
    <2>1. troubled' = troubled /\ job[a].step = "assoc"
        BY <1>5 DEF AddAssociation, At
    <2>2. \/ job'[a] = Idle /\ job[a].orphan
          \/ /\ ~job'[a].orphan /\ job'[a].step = "area" /\ job'[a].uid = job[a].uid
             /\ job'[a].clean => n \in assoc'
        <3>1. CASE Continue(a, "area") /\ assoc' = assoc \cup {n}
            BY <2>1, <3>1, ContinueOwn DEF AddSteps
        <3>2. CASE job' = [job EXCEPT ![a] = IF job[a].orphan THEN Idle
                                        ELSE [job[a] EXCEPT !.step = "area", !.clean = FALSE]]
            <4>1. /\ job[a] \in JobType
                  /\ job'[a] = IF job[a].orphan THEN Idle
                               ELSE [job[a] EXCEPT !.step = "area", !.clean = FALSE]
                BY <1>0, <3>2, Works DEF TypeOK
            <4>2. CASE job[a].orphan
                BY <4>1, <4>2
            <4>3. CASE ~job[a].orphan
                <5>1. job'[a] = [job[a] EXCEPT !.step = "area", !.clean = FALSE]
                    BY <4>1, <4>3
                <5>2. QED
                    BY <4>1, <4>3, <5>1 DEF JobType
            <4>4. QED
                BY <4>2, <4>3
        <3>3. QED
            BY <1>5, <3>1, <3>2 DEF AddAssociation
    <2>3. a \in Busy(n)' => Script(a, n)'
        <3>1. SUFFICES ASSUME a \in Busy(n)' PROVE Script(a, n)'
            OBVIOUS
        <3>2. /\ ~job'[a].orphan /\ job'[a].step = "area" /\ job'[a].uid = job[a].uid
              /\ job'[a].clean => n \in assoc'
            BY <2>2, <3>1, IdleType DEF Busy
        <3>3. n \notin crossed => account["login"][n] = job[a].uid
            BY <1>0, <2>1 DEF Script, Achieved
        <3>4. QED
            BY <1>1, <3>2, <3>3 DEF Script, Achieved, CleanSoFar, DelSteps
    <2>4. job'[a] = Idle => n \in troubled'
        BY <1>3, <2>1, <2>2, IdleType
    <2>5. QED
        BY <1>0, <1>2, <2>3, <2>4, Quiet DEF Own
<1>6. CASE MakeArea(a) \/ LinkHome(a) \/ Verify(a)
    <2>1. assoc' = assoc /\ job[a].step \in {"area", "link", "verify"} /\ job[a].step # "idle"
        BY <1>6 DEF MakeArea, LinkHome, Verify, At
    <2>2. \/ \E s \in {"link", "verify", "row"} :
                /\ Continue(a, s) /\ troubled' = troubled
                /\ s = "row" => Agrees(n) /\ UNCHANGED hostVars
          \/ Fails(a)
        BY <1>6 DEF MakeArea, LinkHome, Verify
    <2>3. ASSUME NEW s \in {"link", "verify", "row"}, Continue(a, s), troubled' = troubled,
                 s = "row" => Agrees(n) /\ UNCHANGED hostVars
          PROVE  Own(a, n)'
        <3>1. \/ job[a].orphan /\ job'[a] = Idle
              \/ /\ ~job[a].orphan /\ ~job'[a].orphan
                 /\ job'[a].step = s /\ job'[a].uid = job[a].uid
                 /\ job'[a].clean <=> job[a].clean
            BY <2>1, <2>3, ContinueOwn DEF AddSteps
        <3>2. a \in Busy(n)' => Script(a, n)'
            <4>1. SUFFICES ASSUME a \in Busy(n)' PROVE Script(a, n)'
                OBVIOUS
            <4>2. /\ ~job'[a].orphan /\ job'[a].step = s /\ job'[a].uid = job[a].uid
                  /\ job'[a].clean <=> job[a].clean
                BY <3>1, <4>1, IdleType DEF Busy
            <4>3. n \notin crossed => account["login"][n] = job[a].uid
                BY <1>0, <2>1 DEF Script, Achieved
            <4>4. job[a].clean => n \in assoc
                BY <1>0, <2>1 DEF Script, CleanSoFar
            <4>5. s = "row" => Agrees(n)'
                BY <2>3 DEF Agrees, hostVars
            <4>6. Achieved(a, n)'
                BY <1>1, <4>2, <4>3 DEF Achieved
            <4>7. CleanSoFar(a, n)'
                BY <2>1, <4>2, <4>4, <4>5 DEF CleanSoFar
            <4>8. QED
                BY <4>2, <4>6, <4>7 DEF Script
        <3>3. job'[a] = Idle => n \in troubled'
            BY <1>3, <2>3, <3>1, IdleType DEF AddSteps
        <3>4. QED
            BY <1>0, <1>2, <3>2, <3>3, Quiet DEF Own
    <2>4. CASE Fails(a)
        <3>1. job'[a] = Idle /\ n \in troubled'
            BY <1>0, <2>4, EndsTurns DEF Fails, Turns
        <3>2. a \notin Busy(n)'
            BY <3>1, IdleType DEF Busy
        <3>3. QED
            BY <1>0, <1>2, <3>1, <3>2, Quiet DEF Own
    <2>5. QED
        BY <2>2, <2>3, <2>4
<1>7. QED
    BY <1>4, <1>5, <1>6

LEMMA CreateRowOwn ==
    ASSUME Ind, NEW a \in Admin, NEW n \in Name, n = job[a].name, CreateRow(a)
    PROVE  Own(a, n)'
<1>0. /\ TypeOK /\ Working(a) /\ job[a].step = "row" /\ a \in Busy(n) /\ Script(a, n)
      /\ job[a].uid # 0 /\ NameInv(n)
    <2>1. Working(a) /\ job[a].step = "row"
        BY DEF Working, CreateRow, At
    <2>2. a \in Busy(n)
        BY <2>1, Works
    <2>3. QED
        BY <2>1, <2>2 DEF Ind, NameInv, ScriptsHaveUids, AddSteps
<1>1. UNCHANGED <<account, home, assoc, tenants, crossed>>
    BY DEF CreateRow, hostVars
<1>2. job'[a] = Idle /\ (job[a].clean \/ n \in troubled')
    BY <1>0, EndsTurns DEF CreateRow, Succeeds, Turns
<1>3. a \notin Busy(n)'
    BY <1>2, IdleType DEF Busy
<1>4. UidFollows(n)'
    BY <1>0, <1>1, UidKept
<1>5. WholeOrGone(n)'
    <2>1. CASE job[a].clean
        <3>1. n \in assoc /\ Agrees(n)
            BY <1>0, <2>1 DEF Script, CleanSoFar
        <3>2. QED
            BY <1>1, <3>1 DEF WholeOrGone, Whole, Agrees
    <2>2. CASE n \in troubled'
        BY <2>2 DEF WholeOrGone
    <2>3. QED
        BY <1>2, <2>1, <2>2
<1>6. RowFollows(n)'
    <2>1. CASE row' = row /\ (n \in warned => n \in warned')
        BY <1>0, <1>1, <2>1, RowKept
    <2>2. CASE n \in warned'
        BY <2>2 DEF RowFollows
    <2>3. CASE row' = [row EXCEPT ![n] = [tenant |-> tenants[n], active |-> TRUE]]
        <3>1. row'[n].tenant = tenants[n]
            BY <1>0, <2>3 DEF TypeOK
        <3>2. n \notin crossed => account["login"][n] # 0
            BY <1>0 DEF Script, Achieved
        <3>3. QED
            BY <1>1, <3>1, <3>2 DEF RowFollows
    <2>4. QED
        BY <2>1, <2>2, <2>3 DEF CreateRow, UsersCreate
<1>7. QED
    BY <1>3, <1>4, <1>5, <1>6 DEF Own

LEMMA DelOwn ==
    ASSUME Ind, NEW a \in Admin, NEW n \in Name, n = job[a].name,
           DropJobs(a) \/ Archive(a)
    PROVE  Own(a, n)'
<1>0. /\ TypeOK /\ Working(a) /\ job[a].step \in {"jobs", "data"}
      /\ a \in Busy(n) /\ Script(a, n)
    <2>1. Working(a) /\ job[a].step \in {"jobs", "data"}
        BY DEF Working, Deluser, DropJobs, Archive, At
    <2>2. a \in Busy(n)
        BY <2>1, Works
    <2>3. QED
        BY <2>1, <2>2 DEF Ind, NameInv
<1>1. /\ account' = account /\ row' = row /\ warned' = warned /\ crossed' = crossed
      /\ troubled' = troubled
    BY DEF DropJobs, Archive, hostVars
<1>2. UidFollows(n)' /\ RowFollows(n)'
    BY <1>0, <1>1, UidKept, RowKept
<1>3. job[a].orphan => n \in troubled
    BY <1>0 DEF Script
<1>4. \/ job'[a] = Idle /\ job[a].orphan
      \/ /\ ~job'[a].orphan /\ job'[a].step \in {"data", "delgpu"}
         /\ job'[a].clean => n \notin assoc'
    <2>1. CASE Continue(a, "data") /\ assoc' = assoc \ {n}
        BY <1>0, <2>1, ContinueOwn DEF DelSteps
    <2>2. CASE job' = [job EXCEPT ![a] = IF job[a].orphan THEN Idle
                                    ELSE [job[a] EXCEPT !.step = "data", !.clean = FALSE]]
        <3>1. /\ job[a] \in JobType
              /\ job'[a] = IF job[a].orphan THEN Idle
                           ELSE [job[a] EXCEPT !.step = "data", !.clean = FALSE]
            BY <1>0, <2>2, Works DEF TypeOK
        <3>2. CASE job[a].orphan
            BY <3>1, <3>2
        <3>3. CASE ~job[a].orphan
            <4>1. job'[a] = [job[a] EXCEPT !.step = "data", !.clean = FALSE]
                BY <3>1, <3>3
            <4>2. QED
                BY <3>1, <3>3, <4>1 DEF JobType
        <3>4. QED
            BY <3>2, <3>3
    <2>3. CASE Archive(a)
        <3>1. Continue(a, "delgpu") /\ assoc' = assoc /\ job[a].step = "data"
            BY <2>3 DEF Archive, At
        <3>2. job[a].clean => n \notin assoc
            BY <1>0, <3>1 DEF Script, CleanSoFar
        <3>3. QED
            BY <3>1, <3>2, ContinueOwn DEF DelSteps
    <2>4. QED
        BY <2>1, <2>2, <2>3 DEF DropJobs
<1>5. a \in Busy(n)' => Script(a, n)'
    <2>1. SUFFICES ASSUME a \in Busy(n)' PROVE Script(a, n)'
        OBVIOUS
    <2>2. /\ ~job'[a].orphan /\ job'[a].step \in {"data", "delgpu"}
          /\ job'[a].clean => n \notin assoc'
        BY <1>4, <2>1, IdleType DEF Busy
    <2>3. QED
        BY <2>2 DEF Script, Achieved, CleanSoFar
<1>6. job'[a] = Idle => n \in troubled'
    BY <1>1, <1>3, <1>4, IdleType
<1>7. QED
    BY <1>0, <1>2, <1>5, <1>6, Quiet DEF Own

LEMMA RemoveOwn ==
    ASSUME Ind, NEW a \in Admin, NEW n \in Name, n = job[a].name,
           RemoveFrom(a, "gpu", "delgpu", "dellogin") \/ RemoveFrom(a, "login", "dellogin", "delrow")
    PROVE  Own(a, n)'
<1> USE DEF Host
<1>0. /\ TypeOK /\ Working(a) /\ job[a].step \in {"delgpu", "dellogin"}
      /\ a \in Busy(n) /\ Script(a, n) /\ NameInv(n)
    <2>1. Working(a) /\ job[a].step \in {"delgpu", "dellogin"}
        BY DEF Working, Deluser, RemoveFrom, At
    <2>2. a \in Busy(n)
        BY <2>1, Works
    <2>3. QED
        BY <2>1, <2>2 DEF Ind, NameInv
<1>1. /\ row' = row /\ warned' = warned /\ crossed' = crossed /\ tenants' = tenants
      /\ troubled' = troubled /\ assoc' = assoc
    BY DEF RemoveFrom
<1>2. job[a].orphan => n \in troubled /\ (n \notin crossed => n \in warned)
    BY <1>0 DEF Script, Achieved, DelSteps
<1>3. job[a].clean => n \notin assoc
    BY <1>0 DEF Script, CleanSoFar
<1>4. ASSUME NEW st \in {"dellogin", "delrow"}, Continue(a, st)
      PROVE  \/ job'[a] = Idle /\ job[a].orphan
             \/ /\ ~job'[a].orphan /\ job'[a].step = st /\ job'[a].name = n
                /\ job'[a].clean => job[a].clean
    BY <1>0, <1>4, ContinueOwn DEF DelSteps
<1>5. WholeOrGone(n)'
    <2>1. job'[a] = Idle => n \in troubled'
        BY <1>1, <1>2, <1>4, IdleType DEF RemoveFrom
    <2>2. QED
        BY <1>0, <2>1, Quiet
<1>6. CASE RemoveFrom(a, "gpu", "delgpu", "dellogin")
    <2>1. account'["gpu"][n] = 0 /\ account'["login"][n] = account["login"][n]
        BY <1>0, <1>6 DEF RemoveFrom, TypeOK
    <2>2. UidFollows(n)'
        BY <2>1 DEF UidFollows
    <2>3. RowFollows(n)'
        BY <1>0, <1>1, <2>1, RowKept
    <2>4. a \in Busy(n)' => Script(a, n)'
        <3>1. SUFFICES ASSUME a \in Busy(n)' PROVE Script(a, n)'
            OBVIOUS
        <3>2. ~job'[a].orphan /\ job'[a].step = "dellogin" /\ (job'[a].clean => job[a].clean)
            BY <1>4, <1>6, <3>1, IdleType DEF Busy, RemoveFrom
        <3>3. QED
            BY <1>1, <1>3, <2>1, <3>2 DEF Script, Achieved, CleanSoFar
    <2>5. QED
        BY <1>5, <2>2, <2>3, <2>4 DEF Own
<1>7. CASE RemoveFrom(a, "login", "dellogin", "delrow")
    <2>1. account'["login"][n] = 0 /\ account'["gpu"][n] = account["gpu"][n]
        BY <1>0, <1>7 DEF RemoveFrom, TypeOK
    <2>2. job[a].step = "dellogin"
        BY <1>7 DEF RemoveFrom, At
    <2>3. /\ n \notin crossed => account["gpu"][n] = 0
          /\ job[a].clean => account["gpu"][n] = 0
        BY <1>0, <2>2 DEF Script, Achieved, CleanSoFar
    <2>4. UidFollows(n)'
        BY <1>1, <2>1, <2>3 DEF UidFollows
    <2>5. RowFollows(n)'
        <3>1. SUFFICES ASSUME row[n].active, n \notin warned, n \notin crossed
                       PROVE  /\ row[n].tenant = tenants[n]
                              /\ \E b \in Busy(n)' : job'[b].step = "delrow"
            BY <1>1 DEF RowFollows
        <3>2. row[n].tenant = tenants[n]
            BY <1>0, <3>1 DEF NameInv, RowFollows
        <3>3. job'[a].step = "delrow" /\ job'[a].name = n
            BY <1>2, <1>4, <1>7, <3>1 DEF RemoveFrom
        <3>4. QED
            BY <3>2, <3>3 DEF Busy
    <2>6. a \in Busy(n)' => Script(a, n)'
        <3>1. SUFFICES ASSUME a \in Busy(n)' PROVE Script(a, n)'
            OBVIOUS
        <3>2. ~job'[a].orphan /\ job'[a].step = "delrow" /\ (job'[a].clean => job[a].clean)
            BY <1>4, <1>7, <3>1, IdleType DEF Busy, RemoveFrom
        <3>3. QED
            BY <1>1, <1>3, <2>1, <2>3, <3>2 DEF Script, Achieved, CleanSoFar
    <2>7. QED
        BY <1>5, <2>4, <2>5, <2>6 DEF Own
<1>8. QED
    BY <1>6, <1>7

LEMMA OffboardRowOwn ==
    ASSUME Ind, NEW a \in Admin, NEW n \in Name, n = job[a].name, OffboardRow(a)
    PROVE  Own(a, n)'
<1>0. /\ TypeOK /\ Working(a) /\ job[a].step = "delrow" /\ a \in Busy(n) /\ Script(a, n)
    <2>1. Working(a) /\ job[a].step = "delrow"
        BY DEF Working, OffboardRow, At
    <2>2. a \in Busy(n)
        BY <2>1, Works
    <2>3. QED
        BY <2>1, <2>2 DEF Ind, NameInv
<1>1. UNCHANGED <<account, home, assoc, tenants, crossed>>
    BY DEF OffboardRow, hostVars
<1>2. job'[a] = Idle /\ (job[a].clean \/ n \in troubled')
    BY <1>0, EndsTurns DEF OffboardRow, Succeeds, Turns
<1>3. a \notin Busy(n)'
    BY <1>2, IdleType DEF Busy
<1>4. UidFollows(n)'
    BY <1>0, <1>1, UidKept
<1>5. WholeOrGone(n)'
    <2>1. CASE job[a].clean
        <3>1. n \notin assoc /\ account["gpu"][n] = 0 /\ account["login"][n] = 0
            BY <1>0, <2>1 DEF Script, CleanSoFar
        <3>2. QED
            BY <1>1, <3>1 DEF WholeOrGone, Gone, Host
    <2>2. CASE n \in troubled'
        BY <2>2 DEF WholeOrGone
    <2>3. QED
        BY <1>2, <2>1, <2>2
<1>6. RowFollows(n)'
    <2>1. ~row'[n].active \/ n \in warned'
        BY <1>0 DEF OffboardRow, TypeOK
    <2>2. QED
        BY <2>1 DEF RowFollows
<1>7. QED
    BY <1>3, <1>4, <1>5, <1>6 DEF Own

LEMMA FailureOwn ==
    ASSUME Ind, NEW a \in Admin, NEW n \in Name, n = job[a].name,
           TimeOut(a) \/ CommandFails(a)
    PROVE  Own(a, n)'
<1>0. /\ TypeOK /\ Working(a) /\ job[a].step # "idle" /\ job[a] \in JobType
      /\ a \in Busy(n) /\ Script(a, n)
    <2>1. Working(a) /\ job[a].step # "idle"
        BY DEF Working, TimeOut, CommandFails, At
    <2>2. a \in Busy(n) /\ job[a] \in JobType
        BY <2>1, Works
    <2>3. QED
        BY <2>1, <2>2 DEF Ind, NameInv
<1>1. UNCHANGED <<account, home, assoc, tenants, crossed, row>> /\ n \in troubled'
    BY DEF TimeOut, CommandFails, Fails, hostVars
<1>2. (n \in warned => n \in warned') /\ (job[a].step \in DelSteps => n \in warned')
    BY DEF TimeOut, CommandFails, Warns
<1>3. UidFollows(n)' /\ WholeOrGone(n)' /\ RowFollows(n)'
    <2>1. job[a].step # "delrow" \/ n \in warned'
        BY <1>2 DEF DelSteps
    <2>2. QED
        BY <1>0, <1>1, <1>2, <2>1, UidKept, QuietKept, RowKept
<1>4. a \in Busy(n)' => Script(a, n)'
    <2>1. CASE TimeOut(a)
        <3>1. job'[a] = [job[a] EXCEPT !.orphan = TRUE]
            BY <1>0, <2>1 DEF TimeOut, TypeOK
        <3>2. /\ job'[a].step = job[a].step /\ job'[a].uid = job[a].uid
              /\ job'[a].clean <=> job[a].clean
            BY <1>0, <3>1 DEF JobType
        <3>3. Achieved(a, n)'
            BY <1>0, <1>1, <1>2, <3>2 DEF Script, Achieved
        <3>4. CleanSoFar(a, n)'
            BY <1>0, <1>1, <3>2 DEF Script, CleanSoFar, Agrees
        <3>5. QED
            BY <1>1, <3>3, <3>4 DEF Script
    <2>2. CASE CommandFails(a)
        <3>1. job'[a] = Idle
            BY <1>0, <2>2, EndsTurns DEF CommandFails, Fails, Turns
        <3>2. QED
            BY <3>1, IdleType DEF Busy
    <2>3. QED
        BY <2>1, <2>2
<1>5. QED
    BY <1>3, <1>4 DEF Own

-------------------------------------------------------------------------------
(* The theorems.                                                           *)

LEMMA NextNames == ASSUME Ind, [Next]_vars, NEW m \in Name PROVE NameInv(m)'
<1>1. ASSUME NEW a \in Admin, NEW n \in Name, Beginning(a, n) PROVE NameInv(m)'
    BY <1>1, BeginningOwn, BeginningOthers
<1>2. ASSUME NEW a \in Admin, Working(a) PROVE NameInv(m)'
    <2>1. job[a].name \in Name
        BY <1>2, AllMove, Works DEF Moves
    <2>2. CASE m # job[a].name
        BY <1>2, <2>2, WorkingOthers
    <2>3. CASE m = job[a].name
        <3>1. Own(a, m)'
            BY <1>2, <2>3, AddOwn, AddOwnRest, CreateRowOwn, DelOwn, RemoveOwn, OffboardRowOwn,
               FailureOwn DEF Working, Adduser, Deluser
        <3>2. Alone(m)' /\ \A b \in Busy(m)' : b # a => Script(b, m)'
            BY <1>2, <2>3, WorkingBeside
        <3>3. QED
            BY <3>1, <3>2 DEF Own, NameInv
    <2>4. QED
        BY <2>2, <2>3
<1>3. CASE UNCHANGED vars
    <2>1. Untouched(m) /\ Busy(m)' = Busy(m) /\ job' = job
        BY <1>3 DEF vars, hostVars, Untouched, Busy
    <2>2. QED
        BY <2>1, UntouchedHolds DEF Ind
<1>4. QED
    BY <1>1, <1>2, <1>3 DEF Next, Working, Beginning

LEMMA NextInd == Ind /\ [Next]_vars => Ind'
<1> SUFFICES ASSUME Ind, [Next]_vars PROVE Ind'
    OBVIOUS
<1>1. TypeOK' /\ OneAccountPerUid' /\ ScriptsHaveUids' /\ TenantsThereWere' /\ DataIsKept' /\ Tenancy'
    BY NextType, NextUids, NextScripts, NextTenants, NextData, NextTenancy
<1>2. \A m \in Name : NameInv(m)'
    BY NextNames
<1>3. QED
    BY <1>1, <1>2 DEF Ind

LEMMA Always == Spec => []Ind
<1>1. Init => Ind
    BY InitInd
<1>2. Ind /\ [Next]_vars => Ind'
    BY NextInd
<1>3. QED
    BY <1>1, <1>2, PTL DEF Spec

(* Types hold, no UID is another name's on the other host, and the data of *)
(* every tenant is kept, whatever fails and however many panels there are. *)
THEOREM AccountsInv == Spec => []IInv
<1>1. Ind => IInv
    BY FollowsFromInd
<1>2. QED
    BY <1>1, Always, PTL

(* Accounts nobody works on and that had no trouble are whole on both      *)
(* hosts or gone from both, for any number of panels and names.            *)
THEOREM Quiets == Spec => []QuietIsWhole
<1>1. Ind => QuietIsWhole
    BY FollowsFromInd
<1>2. QED
    BY <1>1, Always, PTL

(* The active row is about the tenant who has the account, unless an admin *)
(* was warned, however often the name changes hands.                       *)
THEOREM Rows == Spec => []RowIsOfTenant
<1>1. Ind => RowIsOfTenant
    BY FollowsFromInd
<1>2. QED
    BY <1>1, Always, PTL
===============================================================================
