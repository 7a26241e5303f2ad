---------------------------------- MODULE Jobs ----------------------------------
(***************************************************************************)
(* Looking at jobs and acting on them while SLURM goes on: the live        *)
(* dashboard (dashboard.py), the manage-job menu (monitor.py) and an       *)
(* admin who drains the node (admin.py).  Every one of them reads a list   *)
(* with squeue and sacct, and acts on it later with a command that can     *)
(* fail, or time out after SLURM has done what it asks.                    *)
(***************************************************************************)
EXTENDS Naturals, Sequences, FiniteSets, SequencesExt

CONSTANTS
    Job,            \* job numbers: SLURM counts up
    Viewer,         \* dashboards
    Manager,        \* manage-job menus
    Admin,          \* the dashboards and menus of admins
    OwnerOf,        \* whose job it is
    UserOf,         \* whose dashboard or menu it is
    NoJob,
    NoKey,
    History,        \* _COMPLETED_HISTORY, the finished jobs a dashboard asks for
    MaxFaults,      \* bound on failing commands
    MaxRefreshes    \* bound on the refreshes of all dashboards

ASSUME JobsAssumption ==
    /\ Admin \subseteq Viewer \cup Manager
    /\ Viewer \cap Manager = {}
    /\ Job \subseteq Nat /\ IsFiniteSet(Job) /\ History \in Nat
    /\ NoJob \notin Job /\ NoKey \notin Job \cup {NoJob}
    /\ MaxFaults \in Nat
    /\ MaxRefreshes \in Nat

VARIABLES
    queue,      \* SLURM's state of each job
    drained,    \* the node takes no new jobs
    at,         \* where each dashboard or menu is
    live,       \* what squeue told a dashboard that is refreshing
    list,       \* the jobs it has, the live ones first, as it last read them
    selected,   \* the index of the selection
    frame,      \* the job that the last frame highlights: it is stored for the
                \* display's own thread
    shown,      \* the job that the screen highlights
    typed,      \* a key that is not handled yet or is at work: the job that the
                \* screen highlighted when it was typed
    target,     \* the job a dashboard or menu is acting on
    drain,      \* where drain_node is, and the jobs it still has to cancel
    faults,     \* failures so far
    refreshes,  \* refreshes so far
    since,      \* history: jobs there when a dashboard began to refresh
    blind,      \* history: dashboards one of whose two commands failed
    behind,     \* history: dashboards whose key was typed, or would be, before
                \* a frame of the present list was on the screen
    cancelled,  \* history: jobs SLURM cancelled
    logged,     \* history: jobs with a job_cancel or admin_job_cancel event
    unlogged,   \* history: jobs whose cancellation was answered with a failure,
                \* or by a session that died before it logged
    spared      \* history: jobs that started after drain_node listed the node,
                \* or that it could not list or cancel

slurmVars == <<queue, drained, cancelled>>
listVars == <<live, list, selected, refreshes, since, blind>>
keyVars == <<frame, shown, typed, behind>>
viewVars == <<listVars, keyVars>>
drainVars == <<drain, spared>>
vars == <<slurmVars, at, viewVars, target, drainVars, faults, logged, unlogged>>

-------------------------------------------------------------------------------
States == {"new", "pending", "held", "running", "over"}
Alive == {"pending", "held", "running"}
Entry == [job : Job, state : States]
ViewStages == {"refresh", "history", "draw", "key", "confirm", "extend", "log", "off"}
ManageStages == {"choose", "act", "off"}
DrainStages == {"idle", "cancel", "record", "update"}

Listed(s) == {s[i].job : i \in DOMAIN s}
Selection(v) == list[v][selected[v] + 1]

TypeOK ==
    /\ queue \in [Job -> States]
    /\ drained \in BOOLEAN
    /\ at \in [Viewer \cup Manager -> ViewStages \cup ManageStages]
    /\ \A v \in Viewer : at[v] \in ViewStages
    /\ \A m \in Manager : at[m] \in ManageStages
    /\ live \in [Viewer -> Seq(Entry)] /\ list \in [Viewer -> Seq(Entry)]
    /\ selected \in [Viewer -> Nat]
    /\ frame \in [Viewer -> Job \cup {NoJob}] /\ shown \in [Viewer -> Job \cup {NoJob}]
    /\ typed \in [Viewer -> Job \cup {NoJob, NoKey}]
    /\ target \in [Viewer \cup Manager -> Job \cup {NoJob}]
    /\ drain \in [stage : DrainStages, todo : SUBSET Job, now : Job \cup {NoJob}]
    /\ faults \in 0..MaxFaults /\ refreshes \in 0..MaxRefreshes
    /\ since \in [Viewer -> SUBSET Job]
    /\ blind \subseteq Viewer /\ behind \subseteq Viewer
    /\ cancelled \cup logged \cup unlogged \cup spared \subseteq Job

Init ==
    /\ queue = [j \in Job |-> "new"]
    /\ drained = FALSE
    /\ at = [s \in Viewer \cup Manager |-> IF s \in Viewer THEN "refresh" ELSE "choose"]
    /\ live = [v \in Viewer |-> <<>>] /\ list = live
    /\ selected = [v \in Viewer |-> 0]
    /\ frame = [v \in Viewer |-> NoJob] /\ shown = frame
    /\ typed = [v \in Viewer |-> NoKey] /\ behind = Viewer
    /\ target = [s \in Viewer \cup Manager |-> NoJob]
    /\ drain = [stage |-> "idle", todo |-> {}, now |-> NoJob]
    /\ faults = 0 /\ refreshes = 0
    /\ since = [v \in Viewer |-> {}]
    /\ blind = {} /\ cancelled = {} /\ logged = {} /\ unlogged = {} /\ spared = {}

Goes(s, from, to) == at[s] = from /\ at' = [at EXCEPT ![s] = to]
Fault == faults < MaxFaults /\ faults' = faults + 1
Becomes(j, state) == queue' = [queue EXCEPT ![j] = state]

-------------------------------------------------------------------------------
(* SLURM.                                                                  *)

Submit(j) == queue[j] = "new" /\ Becomes(j, "pending") /\ UNCHANGED spared
StartJob(j) ==
    /\ queue[j] = "pending" /\ ~drained
    /\ Becomes(j, "running")
    /\ spared' = spared \cup {j}
EndJob(j) == queue[j] = "running" /\ Becomes(j, "over") /\ UNCHANGED spared
Slurm ==
    /\ \E j \in Job : Submit(j) \/ StartJob(j) \/ EndJob(j)
    /\ UNCHANGED <<drained, cancelled, at, viewVars, target, drain, faults, logged, unlogged>>

(* A command about j that SLURM carries out, if it still can.              *)
Cancelled(j) ==
    /\ queue[j] \in Alive
    /\ Becomes(j, "over")
    /\ cancelled' = cancelled \cup {j}

-------------------------------------------------------------------------------
(* The dashboard reads squeue and then sacct (_merged_jobs); a command     *)
(* that fails reads as an empty list.                                      *)

EntryOf(j) == [job |-> j, state |-> queue[j]]
Entries(js) == SetToSeq({EntryOf(j) : j \in js})
Over == {j \in Job : queue[j] = "over"}
NewerOver(j) == {k \in Over : k > j}

ReadQueue(v) ==
    /\ Goes(v, "refresh", "history")
    /\ refreshes < MaxRefreshes /\ refreshes' = refreshes + 1
    /\ since' = [since EXCEPT ![v] = {j \in Job : queue[j] # "new"}]
    /\ \/ /\ live' = [live EXCEPT ![v] = Entries({j \in Job : queue[j] \in Alive})]
          /\ blind' = blind \ {v}
          /\ UNCHANGED faults
       \/ /\ Fault
          /\ live' = [live EXCEPT ![v] = <<>>]
          /\ blind' = blind \cup {v}
    /\ UNCHANGED <<slurmVars, list, selected, keyVars, target, drainVars, logged, unlogged>>

(* filtered_history keeps the newest that are over, before the jobs that   *)
(* squeue still knew are taken out.                                        *)
Newest == {j \in Over : Cardinality(NewerOver(j)) < History}
\* Mutant: a job that squeue still knew is listed with the finished ones too.
BadFinished(v) == Newest
Finished(v) == Newest \ Listed(live[v])

(* The selection is an index, which is only kept within the new list.      *)
ReadHistory(v) ==
    /\ Goes(v, "history", "draw")
    /\ \/ /\ list' = [list EXCEPT ![v] = live[v] \o Entries(Finished(v))]
          /\ UNCHANGED <<faults, blind>>
       \/ /\ Fault /\ blind' = blind \cup {v}
          /\ list' = [list EXCEPT ![v] = live[v]]
    /\ selected' = [selected EXCEPT ![v] =
          IF list'[v] # <<>> /\ @ >= Len(list'[v]) THEN Len(list'[v]) - 1 ELSE @]
    /\ behind' = behind \cup {v}
    /\ UNCHANGED <<slurmVars, live, refreshes, since, frame, shown, typed, target, drainVars,
                   logged, unlogged>>

HasSelection(v) == selected[v] < Len(list[v])
Highlighted(v) == IF HasSelection(v) THEN Selection(v).job ELSE NoJob

(* Live.update stores the frame; the thread of the display paints it four  *)
(* times a second, which may be after the next key is taken.               *)
Draw(v) ==
    /\ Goes(v, "draw", "key")
    /\ frame' = [frame EXCEPT ![v] = Highlighted(v)]
    /\ UNCHANGED <<slurmVars, listVars, shown, typed, behind, target, drainVars, faults,
                   logged, unlogged>>

Live == {"refresh", "history", "draw", "key"}
Paint(v) ==
    /\ at[v] \in Live
    /\ shown' = [shown EXCEPT ![v] = frame[v]]
    /\ behind' = IF at[v] = "draw" \/ typed[v] # NoKey THEN behind ELSE behind \ {v}
    /\ UNCHANGED <<slurmVars, at, listVars, frame, typed, target, drainVars, faults,
                   logged, unlogged>>

(* A key is typed at any time, also while the data is refreshed; the       *)
(* terminal keeps it until it is read.                                     *)
Type(v) ==
    /\ at[v] \in Live /\ typed[v] = NoKey
    /\ typed' = [typed EXCEPT ![v] = shown[v]]
    /\ UNCHANGED <<slurmVars, at, listVars, frame, shown, behind, target, drainVars, faults,
                   logged, unlogged>>

(* The loop ends with a refresh if the last one is two seconds old.        *)
Back(v) == \E next \in {"draw", "refresh"} : at' = [at EXCEPT ![v] = next]
KeyDone(v) == typed' = [typed EXCEPT ![v] = NoKey]

\* Mutant: the data is refreshed while the key is waited for.
BadPress(v) ==
    /\ at[v] = "key" /\ typed[v] # NoKey
    /\ \E i \in DOMAIN list[v] :
          /\ at' = [at EXCEPT ![v] = "confirm"]
          /\ target' = [target EXCEPT ![v] = list[v][i].job]
    /\ UNCHANGED <<slurmVars, viewVars, drainVars, faults, logged, unlogged>>
(* Cancel and extend take jobs[selected_idx]; extending asks nothing.      *)
Press(v) ==
    /\ at[v] = "key" /\ typed[v] # NoKey /\ HasSelection(v)
    /\ LET sel == Selection(v)
           own == OwnerOf[sel.job] = UserOf[v]
       IN  \E stage \in {"confirm", "extend"} :
              /\ stage = "confirm" => own \/ v \in Admin
              /\ stage = "extend" => own /\ sel.state = "running"
              /\ at' = [at EXCEPT ![v] = stage]
              /\ target' = [target EXCEPT ![v] = sel.job]
    /\ UNCHANGED <<slurmVars, viewVars, drainVars, faults, logged, unlogged>>

(* live.stop and live.start around what a key does: the screen comes back  *)
(* empty, and the key is done.                                             *)
Restarts(v) ==
    /\ KeyDone(v)
    /\ shown' = [shown EXCEPT ![v] = NoJob]
    /\ behind' = behind \cup {v}
    /\ UNCHANGED frame

(* No key in time, or one that scrolls, or that is refused or shows the    *)
(* Connect card, which can take the screen.                                *)
Pass(v) ==
    /\ at[v] = "key" /\ Back(v)
    /\ \/ UNCHANGED keyVars
       \/ KeyDone(v) /\ UNCHANGED <<frame, shown, behind>>
       \/ typed[v] # NoKey /\ Restarts(v)
    /\ UNCHANGED <<slurmVars, listVars, target, drainVars, faults, logged, unlogged>>

SelectNext(v) ==
    /\ Goes(v, "key", "refresh") /\ list[v] # <<>>
    /\ typed[v] # NoKey /\ KeyDone(v)
    /\ selected' = [selected EXCEPT ![v] = (@ + 1) % Len(list[v])]
    /\ UNCHANGED <<slurmVars, live, list, refreshes, since, blind, frame, shown, behind, target,
                   drainVars, faults, logged, unlogged>>

(* What scancel comes to: done, refused because the job is over, or a      *)
(* failure before or after SLURM did it.                                   *)
Scancel(j, answer) ==
    \/ Cancelled(j) /\ answer = "ok" /\ UNCHANGED <<faults, unlogged>>
    \/ queue[j] \notin Alive /\ answer = "failed" /\ UNCHANGED <<queue, cancelled, faults, unlogged>>
    \/ Fault /\ answer = "failed" /\ UNCHANGED <<queue, cancelled, unlogged>>
    \/ Fault /\ answer = "failed" /\ Cancelled(j) /\ unlogged' = unlogged \cup {j}

Confirm(v) ==
    /\ at[v] = "confirm"
    /\ \/ Back(v) /\ Restarts(v) /\ UNCHANGED <<queue, cancelled, faults, unlogged>>
       \/ Scancel(target[v], "ok") /\ at' = [at EXCEPT ![v] = "log"] /\ UNCHANGED keyVars
       \/ Scancel(target[v], "failed") /\ Back(v) /\ Restarts(v)
    /\ UNCHANGED <<drained, listVars, target, drainVars, logged>>

Log(v) ==
    /\ at[v] = "log" /\ Back(v) /\ Restarts(v)
    /\ logged' = logged \cup {target[v]}
    /\ UNCHANGED <<slurmVars, listVars, target, drainVars, faults, unlogged>>

(* scontrol update TimeLimit=+02:00:00; the queue is as it was.            *)
Extend(v) ==
    /\ Goes(v, "extend", "refresh") /\ Restarts(v)
    /\ UNCHANGED <<slurmVars, listVars, target, drainVars, faults, logged, unlogged>>

(* q, or the connection is lost.                                           *)
Leave(s) ==
    /\ at[s] # "off"
    /\ at' = [at EXCEPT ![s] = "off"]
    /\ unlogged' = IF at[s] = "log" THEN unlogged \cup {target[s]} ELSE unlogged
    /\ UNCHANGED <<slurmVars, viewVars, target, drainVars, faults, logged>>

-------------------------------------------------------------------------------
(* manage_job, which logs before it acts and then returns.                 *)

Choose(m) ==
    /\ Goes(m, "choose", "act")
    /\ \E j \in Job :
          /\ queue[j] \in Alive
          /\ OwnerOf[j] = UserOf[m] \/ m \in Admin
          /\ target' = [target EXCEPT ![m] = j]
    /\ UNCHANGED <<slurmVars, viewVars, drainVars, faults, logged, unlogged>>

\* Mutant: the event is logged when the command has succeeded.
BadManageCancel(m) ==
    /\ Goes(m, "act", "off")
    /\ \/ Cancelled(target[m]) /\ logged' = logged \cup {target[m]} /\ UNCHANGED faults
       \/ Fault /\ Cancelled(target[m]) /\ UNCHANGED logged
    /\ UNCHANGED <<drained, viewVars, target, drainVars, unlogged>>
ManageCancel(m) ==
    /\ Goes(m, "act", "off")
    /\ logged' = logged \cup {target[m]}
    /\ \/ Cancelled(target[m])
       \/ UNCHANGED <<queue, cancelled>>
    /\ UNCHANGED <<drained, viewVars, target, drainVars, faults, unlogged>>

ManageState(m) ==
    /\ Goes(m, "act", "off")
    /\ LET j == target[m] IN
          \/ queue[j] = "pending" /\ Becomes(j, "held")
          \/ queue[j] = "held" /\ Becomes(j, "pending")
          \/ queue[j] = "running" /\ Becomes(j, "pending")
          \/ UNCHANGED queue
    /\ UNCHANGED <<drained, cancelled, viewVars, target, drainVars, faults, logged, unlogged>>

-------------------------------------------------------------------------------
(* drain_node, with or without cancel_running, and resume_node: what an    *)
(* admin does.                                                             *)

Running == {j \in Job : queue[j] = "running"}

StartDrain ==
    /\ Admin # {} /\ drain.stage = "idle" /\ ~drained
    /\ \/ /\ drain' = [drain EXCEPT !.stage = "cancel", !.todo = Running]
          /\ spared' = {} /\ UNCHANGED faults
       \/ /\ drain' = [drain EXCEPT !.stage = "update"]
          /\ spared' = Running
          /\ UNCHANGED faults \/ Fault
    /\ UNCHANGED <<slurmVars, at, viewVars, target, logged, unlogged>>

\* Mutant: the loop ends with the first job that scancel refuses.
BadDrainCancel(j) ==
    /\ drain.stage = "cancel" /\ j \in drain.todo
    /\ \/ /\ Scancel(j, "ok")
          /\ drain' = [stage |-> "record", todo |-> drain.todo \ {j}, now |-> j]
          /\ UNCHANGED spared
       \/ /\ Scancel(j, "failed")
          /\ drain' = [drain EXCEPT !.todo = {}]
          /\ spared' = spared \cup {j}
    /\ UNCHANGED <<drained, at, viewVars, target, logged>>
DrainCancel(j) ==
    /\ drain.stage = "cancel" /\ j \in drain.todo
    /\ \/ /\ Scancel(j, "ok")
          /\ drain' = [stage |-> "record", todo |-> drain.todo \ {j}, now |-> j]
          /\ UNCHANGED spared
       \/ /\ Scancel(j, "failed")
          /\ drain' = [drain EXCEPT !.todo = @ \ {j}]
          /\ spared' = spared \cup {j}
    /\ UNCHANGED <<drained, at, viewVars, target, logged>>

DrainRecord ==
    /\ drain.stage = "record"
    /\ logged' = logged \cup {drain.now}
    /\ drain' = [drain EXCEPT !.stage = "cancel", !.now = NoJob]
    /\ UNCHANGED <<slurmVars, at, viewVars, target, spared, faults, unlogged>>

UpdateNode ==
    /\ drain.stage = "update" \/ (drain.stage = "cancel" /\ drain.todo = {})
    /\ drain' = [drain EXCEPT !.stage = "idle"]
    /\ \/ drained' = TRUE /\ UNCHANGED faults
       \/ Fault /\ UNCHANGED drained
    /\ UNCHANGED <<queue, cancelled, at, viewVars, target, spared, logged, unlogged>>

Resume ==
    /\ drained /\ drain.stage = "idle"
    /\ drained' = FALSE
    /\ UNCHANGED <<queue, cancelled, at, viewVars, target, drainVars, faults, logged, unlogged>>

-------------------------------------------------------------------------------
Dashboard(v) ==
    \/ ReadQueue(v) \/ ReadHistory(v) \/ Draw(v) \/ Paint(v) \/ Type(v)
    \/ Press(v) \/ Pass(v) \/ SelectNext(v)
    \/ Confirm(v) \/ Log(v) \/ Extend(v)

Drain == StartDrain \/ (\E j \in Job : DrainCancel(j)) \/ DrainRecord \/ UpdateNode \/ Resume

Next ==
    \/ Slurm
    \/ \E v \in Viewer : Dashboard(v) \/ Leave(v)
    \/ \E m \in Manager : Choose(m) \/ ManageCancel(m) \/ ManageState(m) \/ Leave(m)
    \/ Drain

Spec == Init /\ [][Next]_vars

-------------------------------------------------------------------------------
(* A key acts on the job that the screen highlighted when it was typed     *)
(* (run_dashboard), whatever SLURM has done since, though the selection is *)
(* only an index.  It may act on another one if it was typed, or kept by   *)
(* the terminal, before a frame of the present list was painted.           *)
ActsOnShown == \A v \in Viewer \ behind :
    at[v] \in {"confirm", "extend", "log"} => target[v] = typed[v]

(* Until a key is handled the last frame is that of the list and the       *)
(* selection, and who is not behind sees it and has typed under it.        *)
FrameIsList == \A v \in Viewer :
    at[v] = "key" \/ (at[v] = "draw" /\ v \notin behind) => frame[v] = Highlighted(v)
ScreenIsFrame == \A v \in Viewer \ behind :
    shown[v] = frame[v] /\ typed[v] \in {frame[v], NoKey}

(* Nobody acts on a job that is not theirs, admins excepted.               *)
OnlyOwn ==
    /\ \A v \in Viewer : at[v] = "extend" => OwnerOf[target[v]] = UserOf[v]
    /\ \A s \in Viewer \cup Manager :
          at[s] \in {"confirm", "log", "act"} => s \in Admin \/ OwnerOf[target[s]] = UserOf[s]

(* What drain_node holds at each stage.                                    *)
DrainStage ==
    /\ drain.stage = "record" <=> drain.now # NoJob
    /\ drain.stage \in {"idle", "update"} => drain.todo = {}

(* The types, what a frame and a selection rest on, and who acts on what.  *)
IInv == TypeOK /\ FrameIsList /\ ScreenIsFrame /\ OnlyOwn /\ DrainStage /\ ActsOnShown

(* Between two refreshes a dashboard lists each job that was there when    *)
(* the last one began, of those of the last thirty days, and lists it      *)
(* once, also one that ends between squeue and sacct (_merged_jobs),       *)
(* unless one of the two failed; a job that was over is left out only for  *)
(* History newer ones that are.                                            *)
EachJobOnce == \A v \in Viewer : at[v] \notin {"refresh", "history", "off"} =>
    /\ v \in blind \/ \A j \in since[v] \ Listed(list[v]) :
          queue[j] = "over" /\ Cardinality(NewerOver(j)) >= History
    /\ Cardinality(Listed(list[v])) = Len(list[v])

(* A job that was cancelled here has its event, unless scancel was         *)
(* answered with a failure after SLURM had acted or the session died in    *)
(* between, or it is about to get it.                                      *)
CancelIsLogged == \A j \in cancelled :
    \/ j \in logged \cup unlogged
    \/ \E v \in Viewer : at[v] = "log" /\ target[v] = j
    \/ drain.now = j

(* A job that runs on a node drained with cancel_running started after     *)
(* the node was listed, or could not be cancelled: the node is drained     *)
(* after the jobs are (drain_node).                                        *)
DrainLeavesOnlyLate == drained => Running \subseteq spared
===============================================================================
