-------------------------------- MODULE Notebook --------------------------------
(***************************************************************************)
(* A JupyterLab job after its submission.  The job's script (jobs.py)      *)
(* looks for a free port, starts a watcher that touches .sd-ready once the *)
(* port accepts connections, prints the connection info and binds.  The    *)
(* session that submitted it (connect.wait_ready) polls the marker, the    *)
(* queue, the clock and the keyboard, and then reads the job's output.     *)
(*                                                                         *)
(* All jobs run on one node, with each other and with other processes, and *)
(* the session reads the output over NFS, some time after it was written.  *)
(***************************************************************************)
EXTENDS Naturals, FiniteSets

CONSTANTS
    Job,            \* notebook jobs, each with its folder
    Watched,        \* those whose session is there to wait for them
    Port,           \* the 100 ports that are scanned
    Free,           \* nobody listens
    Other,          \* a process that is not a job's server
    NoPort,         \* no port chosen, nothing printed, no card
    MaxFailures,    \* bound on failures
    MaxUpsets       \* bound on requeues, suspensions and waits in CONFIGURING

ASSUME NotebookAssumption ==
    /\ Watched \subseteq Job
    /\ Free \notin Job \cup {Other}
    /\ Other \notin Job
    /\ NoPort \notin Port
    /\ MaxFailures \in Nat
    /\ MaxUpsets \in Nat

VARIABLES
    queue,      \* SLURM's state of each job
    at,         \* how far its script has got
    port,       \* its $SD_PORT
    listener,   \* who listens on each port of the node
    watching,   \* jobs whose watcher runs
    marker,     \* jobs whose folder has .sd-ready
    out,        \* the port in the connection info that the job has printed
    seen,       \* the same, as the session's host sees the file
    session,    \* where the session is in _post_submit_notebook
    shown,      \* the port on the card it showed
    failures,   \* squeue calls that failed
    upsets,     \* requeues, suspensions and waits so far
    requeued,   \* history: jobs that were requeued
    unlisted,   \* history: jobs that were for a time neither PENDING nor RUNNING
    raced       \* history: jobs whose port was taken before they bound it

scriptVars == <<at, port, listener, watching, raced>>
sessionVars == <<session, shown, failures>>
notebookVars == <<queue, scriptVars, marker, out, seen, sessionVars, upsets, requeued, unlisted>>

-------------------------------------------------------------------------------
(* "marker", "alive" and "deadline" are the loop of wait_ready.            *)
Waiting == {"marker", "alive", "deadline", "ready", "timeout"}
WaitOver == {"card", "latecard", "nocard", "gone", "left"}

NotebookTypeOK ==
    /\ queue \in [Job -> {"pending", "configuring", "running", "suspended", "completing", "over"}]
    /\ at \in [Job -> {"off", "setup", "scanned", "printed", "serving"}]
    /\ port \in [Job -> Port \cup {NoPort}]
    /\ \A j \in Job : port[j] \in Port <=> at[j] \in {"scanned", "printed", "serving"}
    /\ listener \in [Port -> Job \cup {Free, Other}]
    /\ watching \subseteq Job
    /\ marker \subseteq Job
    /\ out \in [Job -> Port \cup {NoPort}]
    /\ seen \in [Job -> Port \cup {NoPort}]
    /\ session \in [Job -> Waiting \cup WaitOver]
    /\ shown \in [Job -> Port \cup {NoPort}]
    /\ failures \in 0..MaxFailures
    /\ upsets \in 0..MaxUpsets
    /\ requeued \subseteq Job
    /\ unlisted \subseteq Job
    /\ raced \subseteq Job

(* The submission was accepted and the session begins to wait.             *)
NotebookInit ==
    /\ queue = [j \in Job |-> "pending"]
    /\ at = [j \in Job |-> "off"]
    /\ port = [j \in Job |-> NoPort]
    /\ listener \in [Port -> {Free, Other}]
    /\ watching = {}
    /\ marker = {}
    /\ out = [j \in Job |-> NoPort]
    /\ seen = [j \in Job |-> NoPort]
    /\ session = [j \in Job |-> IF j \in Watched THEN "marker" ELSE "left"]
    /\ shown = [j \in Job |-> NoPort]
    /\ failures = 0
    /\ upsets = 0
    /\ requeued = {}
    /\ unlisted = {}
    /\ raced = {}

-------------------------------------------------------------------------------
(* The job's script.                                                       *)

Reaches(j, from, to) == at[j] = from /\ at' = [at EXCEPT ![j] = to]
Awake(j) == queue[j] # "suspended"

(* Jobs that have found p free and not bound it yet.                       *)
Aiming(p) == {j \in Job : port[j] = p /\ at[j] \in {"scanned", "printed"}}

(* slurmd opens the output file, which truncates that of an earlier run.   *)
Start(j) ==
    /\ queue[j] \in {"pending", "configuring"}
    /\ queue' = [queue EXCEPT ![j] = "running"]
    /\ Reaches(j, "off", "setup")
    /\ out' = [out EXCEPT ![j] = NoPort]
    /\ UNCHANGED <<port, listener, watching, raced, marker, seen, sessionVars, upsets, requeued, unlisted>>

\* Mutant: the script goes on when no port is free.
BadScan(j) ==
    /\ Awake(j) /\ Reaches(j, "setup", "scanned")
    /\ \E p \in Port \cup {NoPort} :
          /\ p \in Port => listener[p] = Free
          /\ p = NoPort => \A q \in Port : listener[q] # Free
          /\ port' = [port EXCEPT ![j] = p]
    /\ watching' = watching \cup {j}
    /\ UNCHANGED <<queue, listener, raced, marker, out, seen, sessionVars, upsets, requeued, unlisted>>

(* _free_port_snippet and _ready_marker_snippet: a port that can be bound, *)
(* which is closed again, and the watcher.                                 *)
Scan(j) ==
    /\ Awake(j) /\ Reaches(j, "setup", "scanned")
    /\ \E p \in Port :
          /\ listener[p] = Free
          /\ port' = [port EXCEPT ![j] = p]
    /\ watching' = watching \cup {j}
    /\ UNCHANGED <<queue, listener, raced, marker, out, seen, sessionVars, upsets, requeued, unlisted>>

(* The tunnel line and the URL.                                            *)
PrintInfo(j) ==
    /\ Awake(j) /\ Reaches(j, "scanned", "printed")
    /\ out' = [out EXCEPT ![j] = port[j]]
    /\ UNCHANGED <<queue, port, listener, watching, raced, marker, seen, sessionVars,
                   upsets, requeued, unlisted>>

\* Mutant: without --port-retries=0 JupyterLab binds the next free port.
BadBind(j) ==
    /\ Awake(j) /\ Reaches(j, "printed", "serving")
    /\ \E p \in Port :
          /\ listener[p] = Free
          /\ listener[port[j]] = Free => p = port[j]
          /\ listener' = [listener EXCEPT ![p] = j]
          /\ raced' = raced \cup (Aiming(p) \ {j})
    /\ UNCHANGED <<queue, port, watching, marker, out, seen, sessionVars, upsets, requeued, unlisted>>

(* jupyter lab --port=$SD_PORT --port-retries=0.                           *)
Bind(j) ==
    /\ Awake(j) /\ Reaches(j, "printed", "serving")
    /\ listener[port[j]] = Free
    /\ listener' = [listener EXCEPT ![port[j]] = j]
    /\ raced' = raced \cup (Aiming(port[j]) \ {j})
    /\ UNCHANGED <<queue, port, watching, marker, out, seen, sessionVars, upsets, requeued, unlisted>>

\* Mutant: the marker is touched as soon as the script gets there.
BadWatch(j) ==
    /\ Awake(j) /\ j \in watching
    /\ marker' = marker \cup {j}
    /\ watching' = watching \ {j}
    /\ UNCHANGED <<queue, at, port, listener, raced, out, seen, sessionVars, upsets, requeued, unlisted>>

(* A connection to the port succeeds, whoever it is that listens.          *)
Watch(j) ==
    /\ Awake(j) /\ j \in watching
    /\ listener[port[j]] # Free
    /\ marker' = marker \cup {j}
    /\ watching' = watching \ {j}
    /\ UNCHANGED <<queue, at, port, listener, raced, out, seen, sessionVars, upsets, requeued, unlisted>>

(* 150 connections were refused.                                           *)
WatchExpires(j) ==
    /\ Awake(j) /\ j \in watching
    /\ watching' = watching \ {j}
    /\ UNCHANGED <<queue, at, port, listener, raced, marker, out, seen, sessionVars,
                   upsets, requeued, unlisted>>

(* SLURM kills what is left of the job; its port is free again.            *)
StopsAs(j, state) ==
    /\ queue' = [queue EXCEPT ![j] = state]
    /\ at' = [at EXCEPT ![j] = "off"]
    /\ port' = [port EXCEPT ![j] = NoPort]
    /\ listener' = [p \in Port |-> IF listener[p] = j THEN Free ELSE listener[p]]
    /\ watching' = watching \ {j}
    /\ UNCHANGED <<raced, marker, out, seen, sessionVars>>

(* Cancelled, at its time limit, or the script ends: the set-up failed, no *)
(* port is free, or the port is taken when JupyterLab binds it.            *)
JobEnds(j) ==
    /\ queue[j] \notin {"completing", "over"}
    /\ StopsAs(j, "over")
    /\ UNCHANGED <<upsets, requeued, unlisted>>

(* scontrol requeue, or the node fails: CG, and then PD.                   *)
Requeue(j) ==
    /\ queue[j] \in {"running", "suspended"}
    /\ upsets < MaxUpsets
    /\ upsets' = upsets + 1
    /\ requeued' = requeued \cup {j}
    /\ unlisted' = unlisted \cup {j}
    /\ StopsAs(j, "completing")

PendAgain(j) ==
    /\ queue[j] = "completing"
    /\ queue' = [queue EXCEPT ![j] = "pending"]
    /\ UNCHANGED <<scriptVars, marker, out, seen, sessionVars, upsets, requeued, unlisted>>

(* SLURM sets the node up for the job (CF), or an admin or another job     *)
(* suspends it (S), which leaves its processes and its port as they are.   *)
Suspend(j) ==
    /\ \E becomes \in {<<"pending", "configuring">>, <<"running", "suspended">>} :
          /\ queue[j] = becomes[1]
          /\ queue' = [queue EXCEPT ![j] = becomes[2]]
    /\ upsets < MaxUpsets
    /\ upsets' = upsets + 1
    /\ unlisted' = unlisted \cup {j}
    /\ UNCHANGED <<scriptVars, marker, out, seen, sessionVars, requeued>>

GoesOn(j) ==
    /\ queue[j] = "suspended"
    /\ queue' = [queue EXCEPT ![j] = "running"]
    /\ UNCHANGED <<scriptVars, marker, out, seen, sessionVars, upsets, requeued, unlisted>>

(* A process of another kind takes a port, or gives one back.              *)
OtherListens(p) ==
    /\ listener[p] = Free
    /\ listener' = [listener EXCEPT ![p] = Other]
    /\ raced' = raced \cup Aiming(p)
    /\ UNCHANGED <<queue, at, port, watching, marker, out, seen, sessionVars, upsets, requeued, unlisted>>

OtherCloses(p) ==
    /\ listener[p] = Other
    /\ listener' = [listener EXCEPT ![p] = Free]
    /\ UNCHANGED <<queue, at, port, watching, raced, marker, out, seen, sessionVars,
                   upsets, requeued, unlisted>>

(* NFS: the session's host gets to see what the file has, while it looks.  *)
Flush(j) ==
    /\ session[j] \in Waiting
    /\ seen[j] # out[j]
    /\ seen' = [seen EXCEPT ![j] = out[j]]
    /\ UNCHANGED <<queue, scriptVars, marker, out, sessionVars, upsets, requeued, unlisted>>

-------------------------------------------------------------------------------
(* The session: wait_ready, and what _post_submit_notebook makes of it.    *)

jobVars == <<queue, scriptVars, marker, out, seen, upsets, requeued, unlisted>>

Goes(j, from, to) == session[j] = from /\ session' = [session EXCEPT ![j] = to]

CheckMarker(j) ==
    /\ Goes(j, "marker", IF j \in marker THEN "ready" ELSE "alive")
    /\ UNCHANGED <<jobVars, shown, failures>>

\* Mutant: a job that waits in the queue is taken for gone.
BadAskQueue(j) ==
    /\ Goes(j, "alive", IF queue[j] = "running" THEN "deadline" ELSE "gone")
    /\ UNCHANGED <<jobVars, shown, failures>>

AskQueue(j) ==
    /\ Goes(j, "alive", IF queue[j] \in {"pending", "running"} THEN "deadline" ELSE "gone")
    /\ UNCHANGED <<jobVars, shown, failures>>

(* queue() has no entries: squeue failed, or took ten seconds.             *)
AskFails(j) ==
    /\ Goes(j, "alive", "gone")
    /\ failures < MaxFailures
    /\ failures' = failures + 1
    /\ UNCHANGED <<jobVars, shown>>

(* Two seconds go by.                                                      *)
NotYet(j) ==
    /\ Goes(j, "deadline", "marker")
    /\ UNCHANGED <<jobVars, shown, failures>>

\* Mutant: the deadline holds only for a job that has started.
BadDeadline(j) ==
    /\ queue[j] = "running"
    /\ Goes(j, "deadline", "timeout")
    /\ UNCHANGED <<jobVars, shown, failures>>

Deadline(j) ==
    /\ Goes(j, "deadline", "timeout")
    /\ UNCHANGED <<jobVars, shown, failures>>

(* A key, an interrupt, or the connection drops.                           *)
Leave(j) ==
    /\ session[j] \in Waiting
    /\ session' = [session EXCEPT ![j] = "left"]
    /\ UNCHANGED <<jobVars, shown, failures>>

(* The card, if the output has the two lines, with six looks at it.        *)
ReadCard(j) ==
    /\ Goes(j, "ready", IF seen[j] # NoPort THEN "card" ELSE "nocard")
    /\ shown' = [shown EXCEPT ![j] = seen[j]]
    /\ UNCHANGED <<jobVars, failures>>

(* After 90 s the card is shown too, if it is there.                       *)
ReadLateCard(j) ==
    /\ Goes(j, "timeout", IF seen[j] # NoPort THEN "latecard" ELSE "nocard")
    /\ shown' = [shown EXCEPT ![j] = seen[j]]
    /\ UNCHANGED <<jobVars, failures>>

-------------------------------------------------------------------------------
Script(j) ==
    \/ Scan(j)
    \/ PrintInfo(j)
    \/ Bind(j)
    \/ Watch(j)
    \/ WatchExpires(j)
    \/ Flush(j)

SlurmStep(j) ==
    \/ Start(j) \/ JobEnds(j) \/ Requeue(j) \/ PendAgain(j)
    \/ Suspend(j) \/ GoesOn(j)

Others(p) == OtherListens(p) \/ OtherCloses(p)

Loop(j) == CheckMarker(j) \/ AskQueue(j) \/ NotYet(j)

Show(j) == ReadCard(j) \/ ReadLateCard(j)

Breaks(j) == AskFails(j) \/ Leave(j)

NotebookNext ==
    \/ \E j \in Job : Script(j) \/ SlurmStep(j)
    \/ \E p \in Port : Others(p)
    \/ \E j \in Job : Loop(j) \/ Deadline(j) \/ Show(j) \/ Breaks(j)

NotebookSpec == NotebookInit /\ [][NotebookNext]_notebookVars

(* The session's own steps: squeue has a timeout, the wait for a key is    *)
(* two seconds.  The clock is read in each round and goes on: it is past   *)
(* the deadline in the end.                                                *)
Fairness ==
    \A j \in Job :
        /\ WF_notebookVars(Loop(j) \/ Show(j))
        /\ SF_notebookVars(Deadline(j))

NotebookFairSpec == NotebookSpec /\ Fairness

-------------------------------------------------------------------------------
(* Properties.                                                             *)

(* What is advertised is what is bound, the reason for --port-retries=0:   *)
(* a server listens on the port its job has printed, and a card that was   *)
(* shown for it names that port, also when the user has been shown it late *)
(* and whatever the other jobs bind, unless the job was requeued since.    *)
ServedIsAdvertised ==
    \A j \in Job, p \in Port :
        listener[p] = j =>
            /\ out[j] = p
            /\ shown[j] \in {p, NoPort} \/ j \in requeued

(* The card of a job that is reported as ready leads to that job's server, *)
(* unless the job is over, was requeued and has the marker of its earlier  *)
(* run, or lost the port it had found free to a process that listens       *)
(* there, which the watcher takes for JupyterLab.                          *)
CardIsServed ==
    [][\A j \in Job :
          session[j] = "ready" /\ session'[j] = "card" =>
              \/ listener[shown'[j]] = j
              \/ queue[j] \notin {"running", "suspended"}
              \/ j \in requeued \cup raced]_notebookVars

(* "The job ended before JupyterLab came up" is said of a job that ended,  *)
(* unless squeue failed or the job was in a state that _alive takes for    *)
(* its end: between two runs, configuring or suspended.                    *)
WronglyGone == {j \in Job : session[j] = "gone" /\ queue[j] # "over" /\ j \notin unlisted}
GoneIsOver == Cardinality(WronglyGone) <= failures

(* The wait returns, whatever becomes of the job and of the marker.        *)
WaitReturns == \A j \in Job : session[j] \in Waiting ~> session[j] \in WaitOver

(* What makes the properties inductive.                                    *)

(* A script runs in a running job; it serves the port it has printed.      *)
ScriptInv(j) ==
    /\ at[j] # "off" <=> queue[j] \in {"running", "suspended"}
    /\ at[j] \in {"printed", "serving"} => out[j] = port[j]
    /\ at[j] \in {"setup", "scanned"} => out[j] = NoPort
    /\ j \in watching => port[j] \in Port
    /\ \A p \in Port : listener[p] = j <=> at[j] = "serving" /\ port[j] = p
    /\ at[j] \in {"scanned", "printed"} /\ j \notin raced => listener[port[j]] = Free

(* A job that was not requeued has one run, with one output and one marker.*)
FirstRunInv(j) ==
    j \notin requeued =>
        /\ queue[j] # "completing"
        /\ queue[j] \in {"pending", "configuring"} => out[j] = NoPort /\ j \notin marker
        /\ seen[j] \in {NoPort, out[j]}
        /\ shown[j] \in {NoPort, out[j]}
        /\ j \in marker => at[j] = "serving" \/ queue[j] = "over" \/ j \in raced

SessionInv(j) == session[j] = "ready" => j \in marker

(* A job is listed as pending or running, or over, unless it was not once. *)
ListedInv(j) == j \in unlisted \/ queue[j] \in {"pending", "running", "over"}

NotebookIInv ==
    /\ NotebookTypeOK
    /\ \A j \in Job : ScriptInv(j) /\ FirstRunInv(j) /\ SessionInv(j) /\ ListedInv(j)
    /\ IsFiniteSet(WronglyGone)
    /\ GoneIsOver
===============================================================================
