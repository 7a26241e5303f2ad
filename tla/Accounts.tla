-------------------------------- MODULE Accounts --------------------------------
(***************************************************************************)
(* Making and removing accounts.  The panel (admin.py) runs                *)
(* slurm-deck-adduser or slurm-deck-deluser as root, for at most 120 s,    *)
(* and the daemon keeps a row of users.db for the person.  Each script     *)
(* works its way through the login node, the GPU host (over ssh), SLURM    *)
(* and the shared data, with set -e and no lock.  Several admins use the   *)
(* panel at once.                                                          *)
(*                                                                         *)
(* A name is used again after it was offboarded: its n-th tenant is the    *)
(* n-th person who was to get it.  UIDs are 1..MaxUid, 0 stands for none,  *)
(* and Provisioner for the account that runs the commands on the GPU host. *)
(***************************************************************************)
EXTENDS Naturals, FiniteSets, FiniteSetsExt

CONSTANTS
    Admin,          \* the panels in use
    Name,           \* user names
    MaxUid,         \* bound on the UIDs given
    NoName,         \* what an idle panel works on
    MaxRequests,    \* bound on the operations the admins begin
    MaxFaults       \* bound on failing commands and timeouts

ASSUME AccountsAssumption ==
    /\ MaxUid \in Nat \ {0}
    /\ NoName \notin Name
    /\ MaxRequests \in Nat
    /\ MaxFaults \in Nat

VARIABLES
    account,    \* the UID of each name on each host
    home,       \* the owner of its home directory there
    assoc,      \* names with a SLURM association
    area,       \* tenants whose files are in /shared/users/<name>
    archive,    \* tenants whose files are in <name>.offboarded
    row,        \* the tenant the row in users.db is about, and its status
    job,        \* what each panel runs
    requests,   \* operations begun so far
    tenants,    \* how many tenants the name has had
    faults,     \* failures so far
    crossed,    \* history: names that adduser met on the login node, or that
                \* two panels worked on at once
    troubled,   \* history: the last operation failed, or not everything in it
    warned,     \* history: an admin was warned about the row of the name, or
                \* told that its offboarding failed
    stored,     \* history: tenants who have had files
    dropped,    \* history: tenants whose files an admin chose to delete, or
                \* whose archive that of a later tenant replaced
    retried     \* history: names offboarded when their data was archived already

hostVars == <<account, home>>
dataVars == <<area, archive, stored, dropped, retried>>
vars == <<hostVars, assoc, dataVars, row, job, requests, tenants, faults, crossed, troubled, warned>>

-------------------------------------------------------------------------------
Host == {"login", "gpu"}
Provisioner == MaxUid + 1
AddSteps == {"pick", "login", "gpu", "assoc", "area", "link", "verify", "row"}
DelSteps == {"jobs", "data", "delgpu", "dellogin", "delrow"}
Tenant == 1..MaxRequests
Idle == [step |-> "idle", name |-> NoName, uid |-> 0,
         orphan |-> FALSE, clean |-> TRUE]

TypeOK ==
    /\ account \in [Host -> [Name -> 0..MaxUid]]
    /\ home \in [Host -> [Name -> 0..Provisioner]]
    /\ assoc \subseteq Name
    /\ area \in [Name -> SUBSET Tenant]
    /\ archive \in [Name -> SUBSET Tenant]
    /\ row \in [Name -> [tenant : Tenant \cup {0}, active : BOOLEAN]]
    /\ job \in [Admin -> [step : AddSteps \cup DelSteps \cup {"idle"}, name : Name \cup {NoName},
                          uid : 0..MaxUid, orphan : BOOLEAN, clean : BOOLEAN]]
    /\ tenants \in [Name -> Tenant \cup {0}]
    /\ requests \in 0..MaxRequests
    /\ faults \in 0..MaxFaults
    /\ crossed \subseteq Name /\ troubled \subseteq Name /\ warned \subseteq Name
    /\ stored \in [Name -> SUBSET Tenant]
    /\ dropped \in [Name -> SUBSET Tenant]
    /\ retried \subseteq Name

(* Nobody has an account; on the GPU host the home of an earlier user may  *)
(* still be there.                                                         *)
Init ==
    /\ account = [h \in Host |-> [n \in Name |-> 0]]
    /\ \E stale \in SUBSET Name :
          home = [h \in Host |-> [n \in Name |-> IF h = "gpu" /\ n \in stale THEN 1 ELSE 0]]
    /\ assoc = {}
    /\ area = [n \in Name |-> {}] /\ archive = area /\ stored = area /\ dropped = area
    /\ row = [n \in Name |-> [tenant |-> 0, active |-> FALSE]]
    /\ job = [a \in Admin |-> Idle]
    /\ tenants = [n \in Name |-> 0]
    /\ requests = 0
    /\ faults = 0
    /\ crossed = {} /\ troubled = {} /\ warned = {} /\ retried = {}

-------------------------------------------------------------------------------
(* Steps of the scripts.  A script whose panel gave up is an orphan: it    *)
(* ends when it next prints, which it does after every step.               *)

Busy(n) == {a \in Admin : job[a].step # "idle" /\ job[a].name = n}
At(a, step) == job[a].step = step

Ends(a) == job' = [job EXCEPT ![a] = Idle]
Continue(a, step) ==
    IF job[a].orphan
        THEN Ends(a)
        ELSE job' = [job EXCEPT ![a].step = step]
Fails(a) == Ends(a) /\ troubled' = troubled \cup {job[a].name}
Fault == faults < MaxFaults /\ faults' = faults + 1
Succeeds(a) ==
    /\ Ends(a)
    /\ troubled' = IF job[a].clean THEN troubled \ {job[a].name}
                                   ELSE troubled \cup {job[a].name}

(* Another panel that works on the same name is not noticed.               *)
Begin(a, n, step) ==
    /\ job[a] = Idle
    /\ requests < MaxRequests /\ requests' = requests + 1
    /\ crossed' = IF Busy(n) = {} THEN crossed ELSE crossed \cup {n}
    /\ job' = [b \in Admin |->
          IF b = a THEN [step |-> step, name |-> n, uid |-> 0, orphan |-> FALSE,
                         clean |-> Busy(n) = {}]
          ELSE IF b \in Busy(n) THEN [job[b] EXCEPT !.clean = FALSE] ELSE job[b]]

Warns(a) == warned' = IF job[a].step \in DelSteps THEN warned \cup {job[a].name} ELSE warned

(* The panel's 120 s are over, or its session is gone.                     *)
TimeOut(a) ==
    /\ ~At(a, "idle") /\ ~At(a, "row") /\ ~job[a].orphan
    /\ Fault
    /\ job' = [job EXCEPT ![a].orphan = TRUE]
    /\ troubled' = troubled \cup {job[a].name}
    /\ Warns(a)
    /\ UNCHANGED <<requests, hostVars, assoc, dataVars, row, tenants, crossed>>

(* A command that is not masked fails: ssh, or sudo on the GPU host.       *)
CommandFails(a) ==
    /\ \E s \in {"pick", "gpu", "area", "data", "delgpu", "dellogin"} : At(a, s)
    /\ Fault
    /\ Fails(a)
    /\ Warns(a)
    /\ UNCHANGED <<requests, hostVars, assoc, dataVars, row, tenants, crossed>>

-------------------------------------------------------------------------------
(* _provision_menu and slurm-deck-adduser.                                 *)

(* The admin keeps or wipes a workspace that is there.                     *)
Provision(a, n) ==
    /\ Begin(a, n, "pick")
    /\ tenants' = IF account["login"][n] = 0 THEN [tenants EXCEPT ![n] = @ + 1] ELSE tenants
    /\ \E kept \in {area[n], {}} :
          /\ area' = [area EXCEPT ![n] = kept]
          /\ dropped' = [dropped EXCEPT ![n] = @ \cup (area[n] \ kept)]
    /\ UNCHANGED <<hostVars, assoc, archive, stored, retried, row, faults, troubled, warned>>

UsedUids == UNION {{account[h][n] : n \in Name} : h \in Host}
FreeUid == Max(UsedUids \cup {0}) + 1

PickUid(a) ==
    /\ At(a, "pick")
    /\ FreeUid <= MaxUid
    /\ job' = [job EXCEPT ![a] = IF @.orphan THEN Idle
                                 ELSE [@ EXCEPT !.uid = FreeUid, !.step = "login"]]
    /\ UNCHANGED <<requests, hostVars, assoc, dataVars, row, tenants, faults, crossed, troubled, warned>>

(* groupadd and useradd are masked, the chown of the home is not, and      *)
(* usermod needs the account; its ssh can fail on its own.                 *)
\* Mutant: useradd is run with -o, which takes a UID that is in use.
BadMakes(h, n, uid) == account[h][n] = 0
Makes(h, n, uid) == account[h][n] = 0 /\ \A m \in Name : account[h][m] # uid
\* Mutant: chown and usermod are masked as well.
BadSettled(h, n) == TRUE
Settled(h, n) == account'[h][n] # 0 /\ home'[h][n] # 0
AddOn(a, h, from, to) ==
    LET n == job[a].name
        uid == job[a].uid
        made == Makes(h, n, uid)
    IN
    /\ At(a, from)
    /\ account' = IF made THEN [account EXCEPT ![h][n] = uid] ELSE account
    /\ home' = IF made \/ home[h][n] # 0 THEN [home EXCEPT ![h][n] = uid] ELSE home
    /\ IF Settled(h, n)
          THEN \/ Continue(a, to) /\ UNCHANGED <<faults, troubled>>
               \/ h = "gpu" /\ Fault /\ Fails(a)
          ELSE Fails(a) /\ UNCHANGED faults
    /\ crossed' = IF h = "login" /\ account[h][n] # 0 THEN crossed \cup {n} ELSE crossed
    /\ UNCHANGED <<requests, assoc, dataVars, row, tenants, warned>>

(* sacctmgr is masked.                                                     *)
AddAssociation(a) ==
    /\ At(a, "assoc")
    /\ \/ Continue(a, "area") /\ assoc' = assoc \cup {job[a].name} /\ UNCHANGED faults
       \/ /\ Fault
          /\ job' = [job EXCEPT ![a] = IF @.orphan THEN Idle
                                       ELSE [@ EXCEPT !.step = "area", !.clean = FALSE]]
          /\ UNCHANGED assoc
    /\ UNCHANGED <<requests, hostVars, dataVars, row, tenants, crossed, troubled, warned>>

(* mkdir -p on the NFS server; the new tenant's files join what is there.  *)
MakeArea(a) ==
    /\ At(a, "area")
    /\ Continue(a, "link")
    /\ area' = [area EXCEPT ![job[a].name] = @ \cup {tenants[job[a].name]}]
    /\ stored' = [stored EXCEPT ![job[a].name] = @ \cup {tenants[job[a].name]}]
    /\ UNCHANGED <<requests, hostVars, assoc, archive, dropped, retried, row, tenants, faults, crossed, troubled,
                   warned>>

(* The home on the GPU host is the provisioning account's while ln runs.   *)
LinkHome(a) ==
    LET n == job[a].name IN
    /\ At(a, "link")
    /\ \/ /\ Continue(a, "verify")
          /\ home' = [home EXCEPT !["gpu"][n] = job[a].uid]
          /\ UNCHANGED <<faults, troubled>>
       \/ Fault /\ Fails(a) /\ home' = [home EXCEPT !["gpu"][n] = Provisioner]
    /\ UNCHANGED <<requests, account, assoc, dataVars, row, tenants, crossed, warned>>

Agrees(n) ==
    /\ account["login"][n] = account["gpu"][n] /\ account["login"][n] # 0
    /\ \A h \in Host : home[h][n] = account[h][n]
\* Mutant: the homes are not looked at.
BadVerify(a) ==
    LET n == job[a].name IN
    /\ At(a, "verify")
    /\ IF account["login"][n] = account["gpu"][n] THEN Continue(a, "row") /\ UNCHANGED troubled ELSE Fails(a)
    /\ UNCHANGED <<requests, hostVars, assoc, dataVars, row, tenants, faults, crossed, warned>>
Verify(a) ==
    /\ At(a, "verify")
    /\ IF Agrees(job[a].name) THEN Continue(a, "row") /\ UNCHANGED troubled ELSE Fails(a)
    /\ UNCHANGED <<requests, hostVars, assoc, dataVars, row, tenants, faults, crossed, warned>>

(* _h_users_create, whose refusal provision_user only prints.              *)
UsersCreate(n) ==
    IF row[n].active
        THEN warned' = warned \cup {n} /\ UNCHANGED row
        ELSE /\ row' = [row EXCEPT ![n] = [tenant |-> tenants[n], active |-> TRUE]]
             /\ warned' = warned \ {n}

(* provision_user, after the script: no row is asked for without an email. *)
CreateRow(a) ==
    LET n == job[a].name IN
    /\ At(a, "row")
    /\ \/ UsersCreate(n) /\ UNCHANGED faults
       \/ UNCHANGED <<row, faults, warned>>
       \/ Fault /\ warned' = warned \cup {n} /\ UNCHANGED row
    /\ Succeeds(a)
    /\ UNCHANGED <<requests, hostVars, assoc, dataVars, tenants, crossed>>

-------------------------------------------------------------------------------
(* slurm-deck-deluser and offboard_user.                                   *)

Offboard(a, n) ==
    /\ Begin(a, n, "jobs")
    /\ UNCHANGED <<hostVars, assoc, dataVars, row, tenants, faults, troubled, warned>>

(* sacctmgr and scancel are masked.                                        *)
DropJobs(a) ==
    /\ At(a, "jobs")
    /\ \/ Continue(a, "data") /\ assoc' = assoc \ {job[a].name} /\ UNCHANGED faults
       \/ /\ Fault
          /\ job' = [job EXCEPT ![a] = IF @.orphan THEN Idle
                                       ELSE [@ EXCEPT !.step = "data", !.clean = FALSE]]
          /\ UNCHANGED assoc
    /\ UNCHANGED <<requests, hostVars, dataVars, row, tenants, crossed, troubled, warned>>

(* An older archive is removed before the mv, whose failure is masked: a   *)
(* second offboarding removes the archive that the first one made.         *)
Archive(a) ==
    LET n == job[a].name IN
    /\ At(a, "data")
    /\ Continue(a, "delgpu")
    /\ \/ /\ archive' = [archive EXCEPT ![n] = area[n]]
          /\ dropped' = IF area[n] = {} THEN dropped ELSE [dropped EXCEPT ![n] = @ \cup archive[n]]
          /\ retried' = IF area[n] = {} /\ archive[n] # {} THEN retried \cup {n} ELSE retried
       \/ /\ dropped' = [dropped EXCEPT ![n] = @ \cup area[n]]      \* --purge-data
          /\ UNCHANGED <<archive, retried>>
    /\ area' = [area EXCEPT ![n] = {}]
    /\ UNCHANGED <<stored, requests, hostVars, assoc, row, tenants, faults, crossed, troubled, warned>>

(* userdel -r; an account that is still busy is the failure of the command.*)
RemoveFrom(a, h, from, to) ==
    LET n == job[a].name IN
    /\ At(a, from)
    /\ Continue(a, to)
    /\ account' = [account EXCEPT ![h][n] = 0]
    /\ home' = IF account[h][n] = 0 THEN home ELSE [home EXCEPT ![h][n] = 0]
    /\ UNCHANGED <<requests, assoc, dataVars, row, tenants, faults, crossed, troubled, warned>>

\* Mutant: a failure is masked like those of the other commands.
BadOffboardRow(a) ==
    LET n == job[a].name IN
    /\ At(a, "delrow")
    /\ \/ row' = [row EXCEPT ![n].active = FALSE] /\ UNCHANGED faults
       \/ Fault /\ UNCHANGED row
    /\ Succeeds(a)
    /\ UNCHANGED <<requests, hostVars, assoc, dataVars, tenants, crossed, warned>>
(* users.offboard, from the script and again from offboard_user: a failure *)
(* is a line in the script's output.                                       *)
OffboardRow(a) ==
    LET n == job[a].name IN
    /\ At(a, "delrow")
    /\ \/ /\ row' = [row EXCEPT ![n].active = FALSE]
          /\ UNCHANGED <<faults, warned>>
       \/ Fault /\ warned' = warned \cup {n} /\ UNCHANGED row
    /\ Succeeds(a)
    /\ UNCHANGED <<requests, hostVars, assoc, dataVars, tenants, crossed>>

-------------------------------------------------------------------------------
Adduser(a) ==
    \/ PickUid(a)
    \/ AddOn(a, "login", "login", "gpu")
    \/ AddOn(a, "gpu", "gpu", "assoc")
    \/ AddAssociation(a) \/ MakeArea(a) \/ LinkHome(a) \/ Verify(a)

Deluser(a) ==
    \/ DropJobs(a) \/ Archive(a)
    \/ RemoveFrom(a, "gpu", "delgpu", "dellogin")
    \/ RemoveFrom(a, "login", "dellogin", "delrow")

Next == \E a \in Admin :
    \/ \E n \in Name : Provision(a, n) \/ Offboard(a, n)
    \/ Adduser(a) \/ CreateRow(a)
    \/ Deluser(a) \/ OffboardRow(a)
    \/ TimeOut(a) \/ CommandFails(a)

Spec == Init /\ [][Next]_vars

-------------------------------------------------------------------------------
Gone(n) == n \notin assoc /\ \A h \in Host : account[h][n] = 0
Whole(n) == n \in assoc /\ Agrees(n)

(* Files on the NFS share belong to UIDs.  A name's account on the GPU     *)
(* host never has the UID that another name has on the login node, unless  *)
(* adduser was run again for it, which asks for a second UID, or two       *)
(* panels worked on the name at once.                                      *)
NoForeignUid ==
    \A m, n \in Name :
        /\ m # n /\ account["gpu"][m] # 0
        /\ account["gpu"][m] = account["login"][n]
        => m \in crossed

(* The data of a tenant is kept when the account is removed                *)
(* (slurm-deck-deluser, lines 6 and 7): who has had files has them in the  *)
(* area or in the archive, unless an admin asked for their deletion, the   *)
(* archive of a later tenant took the place, or the name was offboarded    *)
(* once more after its data had been archived, as lines 72 and 88 ask.     *)
DataIsKept == \A n \in Name \ retried : stored[n] \subseteq area[n] \cup archive[n] \cup dropped[n]

(* An account has its UID to itself on its host.                           *)
OneAccountPerUid == \A h \in Host : \A m, n \in Name :
    account[h][m] = account[h][n] /\ m # n => account[h][m] = 0

(* A script past its first step has chosen a UID, for a tenant there is.   *)
ScriptsHaveUids == \A a \in Admin :
    /\ job[a].step = "idle" <=> job[a] = Idle
    /\ job[a].step # "idle" => job[a].name \in Name
    /\ job[a].step \in AddSteps \ {"pick"} => job[a].uid # 0
    /\ job[a].step \in {"area", "link", "verify", "row"} => tenants[job[a].name] # 0

(* Rows and data are of tenants there have been.                           *)
TenantsThereWere == \A n \in Name :
    /\ row[n].tenant <= tenants[n] /\ (row[n].active => row[n].tenant # 0)
    /\ area[n] \cup archive[n] \subseteq stored[n]
    /\ \A t \in stored[n] : t <= tenants[n]

(* The types, what the scripts and the rows rest on, and the two above.    *)
IInv ==
    /\ TypeOK /\ OneAccountPerUid /\ ScriptsHaveUids /\ TenantsThereWere
    /\ NoForeignUid /\ DataIsKept

(* A name nobody is working on, and whose last operation had no trouble,   *)
(* either has matching accounts on both hosts that own their homes and an  *)
(* association, or has none of them (set -e and the last step of adduser,  *)
(* the checks of deluser, whatever else runs on other names).              *)
QuietIsWhole == \A n \in Name : Busy(n) = {} /\ n \notin troubled => Whole(n) \/ Gone(n)

(* The active row of a name that has an account is about the tenant who    *)
(* has it, and not about an earlier one whose row stayed active, unless an *)
(* admin saw a warning about it.  (Login mail goes to the address in it.)  *)
RowIsOfTenant == \A n \in Name :
    Busy(n) = {} /\ n \notin troubled /\ Whole(n) /\ row[n].active
        => row[n].tenant = tenants[n] \/ n \in warned \cup crossed
===============================================================================
