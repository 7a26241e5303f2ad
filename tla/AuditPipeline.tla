----------------------------- MODULE AuditPipeline -----------------------------
(***************************************************************************)
(* The audit pipeline: gateway sessions call log() or log_or_block()       *)
(* (slurmdeck/auditclient.py), which send the event to the audit daemon    *)
(* over a Unix socket and fall back to one file per event in a spool       *)
(* directory.  The daemon (deploy/audit_daemon.py) is one thread: it takes *)
(* a connection, answers it, and every 30 s drains the spool.  It writes   *)
(* each event to SQLite first and to the JSONL file next.                  *)
(*                                                                         *)
(* A call is identified with the event it builds, so `stage' is the        *)
(* program counter of the caller, per event.  The steps of the daemon are  *)
(* the points at which a crash, a client timeout or a spool write can fall *)
(* between two effects: a commit, a JSONL append, an unlink, a reply.      *)
(***************************************************************************)
EXTENDS Integers, Sequences, FiniteSets

CONSTANTS
    Event,              \* the events built in a behaviour, one per call
    NoEvent,            \* the daemon is not working on any event
    JobSubmit,          \* the events whose action is "job_submit"
    Gated,              \* the events sent with log_or_block(); others use log()
    SessionOf,          \* the gateway process that makes the call
    UserOf,             \* the account that process runs as (SO_PEERCRED)
    JobRateLimit,       \* JOB_RATE_LIMIT, job_submit events per window; 0 = off
    Window,             \* length of the rate-limit window, in clock ticks
    Backlog,            \* connections the listening socket can hold
    SpoolInRuntimeDir,  \* the spool is below the unit's RuntimeDirectory
    MaxClock,           \* bound on clock
    MaxStops,           \* bound on stops
    MaxFaults           \* bound on faults

ASSUME EventAssumption ==
    /\ NoEvent \notin Event
    /\ JobSubmit \subseteq Gated
    /\ Gated \subseteq Event

ASSUME NumberAssumption ==
    /\ JobRateLimit \in Nat
    /\ Window \in Nat
    /\ Backlog \in Nat
    /\ MaxClock \in Nat
    /\ MaxStops \in Nat
    /\ MaxFaults \in Nat
    /\ SpoolInRuntimeDir \in BOOLEAN

VARIABLES
    clock,      \* wall clock
    ts,         \* the ts field of each event, set when the event is built
    stage,      \* how far the call for each event has got
    backlog,    \* connections sent to the daemon and not yet accepted
    spool,      \* the spool file of each event
    phase,      \* where the daemon is in its loop
    job,        \* the event the daemon is working on
    todo,       \* files the running drain has listed and not yet handled
    db,         \* the rows of the events table, in id order
    jsonl,      \* the lines of audit.jsonl
    stops,      \* times the daemon stopped or crashed
    faults,     \* JSONL appends that failed
    torn        \* history: events whose spool file a drain read half-written

clientVars == <<clock, ts>>
daemonVars == <<phase, job, todo>>
logVars == <<db, jsonl>>
faultVars == <<stops, faults>>
vars == <<clock, ts, stage, backlog, spool, phase, job, todo, db, jsonl,
          stops, faults, torn>>

-------------------------------------------------------------------------------
InProgress == {"waiting", "spooling", "writing"}

(* "sent": log() True after a send; "acked": log_or_block() True on ok;    *)
(* "refused": log_or_block() False; "spooled": True with the spool file    *)
(* written; "dropped": log() False; "unlogged": log_or_block() True with   *)
(* nothing delivered or written; "killed": the session died in the call.   *)
Returned == {"sent", "acked", "refused", "spooled", "dropped", "unlogged", "killed"}

Stages == {"new"} \cup InProgress \cup Returned

ConnectionPhases == {"append"}
DrainPhases == {"drain", "dappend", "dunlink"}
Phases == {"down", "select"} \cup ConnectionPhases \cup DrainPhases

Identities == {"peercred", "spooled"}
Row == [ev : Event, identity : Identities]

TypeOK ==
    /\ clock \in 0..MaxClock
    /\ ts \in [Event -> 0..MaxClock]
    /\ stage \in [Event -> Stages]
    /\ backlog \in Seq(Event)
    /\ spool \in [Event -> {"none", "partial", "full"}]
    /\ phase \in Phases
    /\ job \in Event \cup {NoEvent}
    /\ phase \in {"append", "dappend", "dunlink"} => job # NoEvent
    /\ todo \subseteq Event
    /\ db \in Seq(Row)
    /\ jsonl \in Seq(Event)
    /\ stops \in 0..MaxStops
    /\ faults \in 0..MaxFaults
    /\ torn \subseteq Event

Init ==
    /\ clock = 0
    /\ ts = [e \in Event |-> 0]
    /\ stage = [e \in Event |-> "new"]
    /\ backlog = <<>>
    /\ spool = [e \in Event |-> "none"]
    /\ phase = "select"
    /\ job = NoEvent
    /\ todo = {}
    /\ db = <<>>
    /\ jsonl = <<>>
    /\ stops = 0
    /\ faults = 0
    /\ torn = {}

-------------------------------------------------------------------------------
(* The callers.                                                            *)

(* A session makes one call at a time, and none once it is dead.           *)
Free(s) ==
    \A f \in Event : SessionOf[f] = s => stage[f] \notin InProgress \cup {"killed"}

CanConnect == phase # "down" /\ Len(backlog) < Backlog

BuildEvent(e) ==
    /\ stage[e] = "new"
    /\ Free(SessionOf[e])
    /\ ts' = [ts EXCEPT ![e] = clock]

SendToSocket(e) ==
    /\ CanConnect
    /\ backlog' = Append(backlog, e)

(* log(): the request is sent and its answer is never read; with no        *)
(* connection the event goes to the spool.                                 *)
Log(e) ==
    /\ e \notin Gated
    /\ BuildEvent(e)
    /\ \/ /\ SendToSocket(e)
          /\ stage' = [stage EXCEPT ![e] = "sent"]
       \/ /\ ~CanConnect
          /\ stage' = [stage EXCEPT ![e] = "spooling"]
          /\ UNCHANGED backlog
    /\ UNCHANGED <<clock, spool, daemonVars, logVars, faultVars, torn>>

(* log_or_block(): the request is sent and the session waits for an answer.*)
LogOrBlock(e) ==
    /\ e \in Gated
    /\ BuildEvent(e)
    /\ \/ /\ SendToSocket(e)
          /\ stage' = [stage EXCEPT ![e] = "waiting"]
       \/ /\ ~CanConnect
          /\ stage' = [stage EXCEPT ![e] = "spooling"]
          /\ UNCHANGED backlog
    /\ UNCHANGED <<clock, spool, daemonVars, logVars, faultVars, torn>>

\* Mutant: no receive timeout, the session notices only a daemon that is down.
BadGiveUp(e) ==
    /\ stage[e] = "waiting"
    /\ phase = "down"
    /\ stage' = [stage EXCEPT ![e] = "spooling"]
    /\ UNCHANGED <<clientVars, backlog, spool, daemonVars, logVars, faultVars, torn>>

(* The 2 s receive timeout, a reset or an end of file without a reply: the *)
(* error is not "rate limit", so the event is spooled.  The connection     *)
(* stays where it is: the daemon may still read the request.               *)
GiveUp(e) ==
    /\ stage[e] = "waiting"
    /\ stage' = [stage EXCEPT ![e] = "spooling"]
    /\ UNCHANGED <<clientVars, backlog, spool, daemonVars, logVars, faultVars, torn>>

(* The spool directory can be there only while the unit that owns it runs, *)
(* if it is in the unit's runtime directory: /run is not the caller's.     *)
SpoolExists == SpoolInRuntimeDir => phase # "down"

(* open() for writing: the empty file is in the directory from here on.    *)
CreateSpoolFile(e) ==
    /\ stage[e] = "spooling"
    /\ SpoolExists
    /\ stage' = [stage EXCEPT ![e] = "writing"]
    /\ spool' = [spool EXCEPT ![e] = "partial"]
    /\ UNCHANGED <<clientVars, backlog, daemonVars, logVars, faultVars, torn>>

(* The rest of write_bytes(): the data is complete and the file is closed. *)
(* A file that was unlinked meanwhile stays unlinked, and nothing fails.   *)
WriteSpoolFile(e) ==
    /\ stage[e] = "writing"
    /\ stage' = [stage EXCEPT ![e] = "spooled"]
    /\ spool' = [spool EXCEPT ![e] = IF @ = "partial" THEN "full" ELSE @]
    /\ UNCHANGED <<clientVars, backlog, daemonVars, logVars, faultVars, torn>>

(* An OSError of mkdir, open or write: _spool() returns False.  log()      *)
(* passes that on; log_or_block() ignores it and returns True.             *)
FailToSpool(e) ==
    /\ stage[e] \in {"spooling", "writing"}
    /\ stage' = [stage EXCEPT ![e] = IF e \in Gated THEN "unlogged" ELSE "dropped"]
    /\ UNCHANGED <<clientVars, backlog, spool, daemonVars, logVars, faultVars, torn>>

(* The SSH connection drops and the session is killed inside the call.     *)
Kill(e) ==
    /\ stage[e] \in InProgress
    /\ stage' = [stage EXCEPT ![e] = "killed"]
    /\ UNCHANGED <<clientVars, backlog, spool, daemonVars, logVars, faultVars, torn>>

Tick ==
    /\ clock < MaxClock
    /\ clock' = clock + 1
    /\ UNCHANGED <<ts, stage, backlog, spool, daemonVars, logVars, faultVars, torn>>

-------------------------------------------------------------------------------
(* The daemon.                                                             *)

Recent(e) == ts[e] >= clock - Window

(* The rows SELECT COUNT( * ) finds: every job_submit row of the user in   *)
(* the window, whichever way it came and however often it is there.        *)
RecentSubmissions(u) ==
    {i \in DOMAIN db :
        /\ db[i].ev \in JobSubmit
        /\ UserOf[SessionOf[db[i].ev]] = u
        /\ Recent(db[i].ev)}

\* Mutant: > where the code has >=.
BadOverLimit(e) ==
    /\ e \in JobSubmit
    /\ JobRateLimit > 0
    /\ Cardinality(RecentSubmissions(UserOf[SessionOf[e]])) > JobRateLimit

OverLimit(e) ==
    /\ e \in JobSubmit
    /\ JobRateLimit > 0
    /\ Cardinality(RecentSubmissions(UserOf[SessionOf[e]])) >= JobRateLimit

\* Mutant: the identity of the row is left out.
BadInsert(e, id) == db' = Append(db, [ev |-> e, identity |-> ""])

Insert(e, id) == db' = Append(db, [ev |-> e, identity |-> id])

(* _send_response: only a client that is still waiting gets the answer.    *)
Respond(e, outcome) ==
    stage' = IF stage[e] = "waiting" THEN [stage EXCEPT ![e] = outcome] ELSE stage

\* Mutant: the event is inserted before the rate limit is looked at.
BadHandleRefuse ==
    /\ phase = "select"
    /\ backlog # <<>>
    /\ OverLimit(Head(backlog))
    /\ Insert(Head(backlog), "peercred")
    /\ Respond(Head(backlog), "refused")
    /\ backlog' = Tail(backlog)
    /\ UNCHANGED <<clientVars, spool, daemonVars, jsonl, faultVars, torn>>

\* Mutant: the JSONL line is written before the rate limit is looked at.
RefuseAfterLine ==
    /\ phase = "select"
    /\ backlog # <<>>
    /\ OverLimit(Head(backlog))
    /\ jsonl' = Append(jsonl, Head(backlog))
    /\ Respond(Head(backlog), "refused")
    /\ backlog' = Tail(backlog)
    /\ UNCHANGED <<clientVars, spool, daemonVars, db, faultVars, torn>>

(* accept, and a job_submit that is refused: nothing is written.           *)
HandleRefuse ==
    /\ phase = "select"
    /\ backlog # <<>>
    /\ OverLimit(Head(backlog))
    /\ Respond(Head(backlog), "refused")
    /\ backlog' = Tail(backlog)
    /\ UNCHANGED <<clientVars, spool, daemonVars, logVars, faultVars, torn>>

\* Mutant: the client is answered before the line is appended.
BadHandleInsert ==
    /\ phase = "select"
    /\ backlog # <<>>
    /\ ~OverLimit(Head(backlog))
    /\ Insert(Head(backlog), "peercred")
    /\ Respond(Head(backlog), "acked")
    /\ backlog' = Tail(backlog)
    /\ phase' = "append"
    /\ job' = Head(backlog)
    /\ UNCHANGED <<clientVars, spool, todo, jsonl, faultVars, torn>>

(* accept, and the row is committed.                                       *)
HandleInsert ==
    /\ phase = "select"
    /\ backlog # <<>>
    /\ ~OverLimit(Head(backlog))
    /\ Insert(Head(backlog), "peercred")
    /\ backlog' = Tail(backlog)
    /\ phase' = "append"
    /\ job' = Head(backlog)
    /\ UNCHANGED <<clientVars, stage, spool, todo, jsonl, faultVars, torn>>

(* The line is appended and the client is answered.                        *)
HandleAppend ==
    /\ phase = "append"
    /\ jsonl' = Append(jsonl, job)
    /\ Respond(job, "acked")
    /\ phase' = "select"
    /\ job' = NoEvent
    /\ UNCHANGED <<clientVars, backlog, spool, todo, db, faultVars, torn>>

(* The append raises OSError: the connection is closed without an answer.  *)
HandleAppendFails ==
    /\ phase = "append"
    /\ faults < MaxFaults
    /\ faults' = faults + 1
    /\ phase' = "select"
    /\ job' = NoEvent
    /\ UNCHANGED <<clientVars, stage, backlog, spool, todo, logVars, stops, torn>>

SpoolFiles == {e \in Event : spool[e] # "none"}

\* Mutant: the spool is drained at startup only.
BadStartDrain == FALSE /\ UNCHANGED vars

(* More than 30 s since the last drain, at the end of a loop iteration.    *)
StartDrain ==
    /\ phase = "select"
    /\ SpoolFiles # {}
    /\ phase' = "drain"
    /\ todo' = SpoolFiles
    /\ UNCHANGED <<clientVars, stage, backlog, spool, job, logVars, faultVars, torn>>

(* A file that does not parse: a warning, and then the unlink.             *)
DrainTornFile(e) ==
    /\ phase = "drain"
    /\ e \in todo
    /\ spool[e] = "partial"
    /\ torn' = torn \cup {e}
    /\ phase' = "dunlink"
    /\ job' = e
    /\ UNCHANGED <<clientVars, stage, backlog, spool, todo, logVars, faultVars>>

\* Mutant: the rate limit is applied to spooled events too.
BadDrainInsert(e) ==
    /\ phase = "drain"
    /\ e \in todo
    /\ spool[e] = "full"
    /\ \/ /\ OverLimit(e)
          /\ phase' = "dunlink"
          /\ UNCHANGED db
       \/ /\ ~OverLimit(e)
          /\ Insert(e, "spooled")
          /\ phase' = "dappend"
    /\ job' = e
    /\ UNCHANGED <<clientVars, stage, backlog, spool, todo, jsonl, faultVars, torn>>

(* A complete file: its row is committed, with no rate limit.              *)
DrainInsert(e) ==
    /\ phase = "drain"
    /\ e \in todo
    /\ spool[e] = "full"
    /\ Insert(e, "spooled")
    /\ phase' = "dappend"
    /\ job' = e
    /\ UNCHANGED <<clientVars, stage, backlog, spool, todo, jsonl, faultVars, torn>>

DrainAppend ==
    /\ phase = "dappend"
    /\ jsonl' = Append(jsonl, job)
    /\ phase' = "dunlink"
    /\ UNCHANGED <<clientVars, stage, backlog, spool, job, todo, db, faultVars, torn>>

(* The read, the append or the unlink raises OSError: the file stays, with *)
(* the row it may have by then, and is left to the next drain.             *)
DrainFails ==
    /\ faults < MaxFaults
    /\ faults' = faults + 1
    /\ \/ /\ phase = "drain"
          /\ \E e \in todo : todo' = todo \ {e}
       \/ /\ phase \in {"dappend", "dunlink"}
          /\ todo' = todo \ {job}
    /\ phase' = "drain"
    /\ job' = NoEvent
    /\ UNCHANGED <<clientVars, stage, backlog, spool, logVars, stops, torn>>

\* Mutant: the file is not unlinked.
BadDrainUnlink ==
    /\ phase = "dunlink"
    /\ phase' = "drain"
    /\ todo' = todo \ {job}
    /\ job' = NoEvent
    /\ UNCHANGED <<clientVars, stage, backlog, spool, logVars, faultVars, torn>>

DrainUnlink ==
    /\ phase = "dunlink"
    /\ spool' = [spool EXCEPT ![job] = "none"]
    /\ phase' = "drain"
    /\ todo' = todo \ {job}
    /\ job' = NoEvent
    /\ UNCHANGED <<clientVars, stage, backlog, logVars, faultVars, torn>>

EndDrain ==
    /\ phase = "drain"
    /\ todo = {}
    /\ phase' = "select"
    /\ UNCHANGED <<clientVars, stage, backlog, spool, job, todo, logVars, faultVars, torn>>

(* SIGTERM, or an exception that no handler catches.  Connections that     *)
(* were not accepted are reset; systemd removes the runtime directory.     *)
Stop ==
    /\ phase # "down"
    /\ stops < MaxStops
    /\ stops' = stops + 1
    /\ phase' = "down"
    /\ job' = NoEvent
    /\ todo' = {}
    /\ backlog' = <<>>
    /\ spool' = IF SpoolInRuntimeDir THEN [e \in Event |-> "none"] ELSE spool
    /\ UNCHANGED <<clientVars, stage, logVars, faults, torn>>

(* Restart=always: the socket listens again and the spool is drained.      *)
Start ==
    /\ phase = "down"
    /\ phase' = "drain"
    /\ todo' = SpoolFiles
    /\ UNCHANGED <<clientVars, stage, backlog, spool, job, logVars, faultVars, torn>>

-------------------------------------------------------------------------------
Client(e) ==
    \/ Log(e)
    \/ LogOrBlock(e)
    \/ GiveUp(e)
    \/ CreateSpoolFile(e)
    \/ WriteSpoolFile(e)
    \/ FailToSpool(e)
    \/ Kill(e)

Connection ==
    \/ HandleRefuse
    \/ HandleInsert
    \/ HandleAppend
    \/ HandleAppendFails

Drain ==
    \/ \E e \in Event : DrainTornFile(e) \/ DrainInsert(e)
    \/ DrainAppend
    \/ DrainFails
    \/ DrainUnlink
    \/ EndDrain

Next ==
    \/ \E e \in Event : Client(e)
    \/ Connection
    \/ StartDrain
    \/ Drain
    \/ Stop
    \/ Start
    \/ Tick

Spec == Init /\ [][Next]_vars

(* A call that has begun goes on (its waits have timeouts), the daemon     *)
(* goes on with what it has accepted or listed, systemd restarts it, and   *)
(* the 30 s timer is looked at in every iteration of the loop, so a drain  *)
(* is not put off for ever by connections.                                 *)
Fairness ==
    /\ \A e \in Event : WF_vars(GiveUp(e) \/ CreateSpoolFile(e)
                                \/ WriteSpoolFile(e) \/ FailToSpool(e))
    /\ WF_vars(Connection)
    /\ WF_vars(Drain)
    /\ WF_vars(Start)
    /\ SF_vars(StartDrain)

FairSpec == Spec /\ Fairness

-------------------------------------------------------------------------------
(* Properties.                                                             *)

Recorded(e) == \E i \in DOMAIN db : db[i].ev = e
Written(e) == \E i \in DOMAIN jsonl : jsonl[i] = e
Rows(e, id) == {i \in DOMAIN db : db[i].ev = e /\ db[i].identity = id}
Wiped == SpoolInRuntimeDir /\ stops > 0

(* The job_submit rows of a user in the window that came over the socket.  *)
LiveSubmissions(u) == {i \in RecentSubmissions(u) : db[i].identity = "peercred"}

(* Rate limit (_h_audit_log): however many sessions a user has, and        *)
(* whatever retries, late requests, spooled copies and restarts happen, at *)
(* most JobRateLimit of the submissions in the window were let in by the   *)
(* daemon.  It needs the count and the insert to be one step for every     *)
(* other connection, and the count to be over rows and not over sessions.  *)
LiveWithinLimit ==
    JobRateLimit > 0 =>
        \A e \in JobSubmit :
            Cardinality(LiveSubmissions(UserOf[SessionOf[e]])) <= JobRateLimit

(* A True that log_or_block() owes to the daemon's ok (and not to its      *)
(* fail-open path) means that the event is in audit.db and in audit.jsonl, *)
(* also after any later crash.                                             *)
AckedIsInBoth == \A e \in Event : stage[e] = "acked" => Recorded(e) /\ Written(e)

(* _spool() returned True: the event is in audit.db or its complete file   *)
(* still waits for a drain, through crashes between commit, append and     *)
(* unlink and through failed appends.  The two ways out are named: a drain *)
(* that read the file before it was complete (torn), and a stop of the     *)
(* unit when the spool is in its runtime directory.                        *)
SpooledIsNotLost ==
    \A e \in Event :
        stage[e] = "spooled" /\ e \notin torn /\ ~Wiped
            => Recorded(e) \/ spool[e] = "full"

(* How often one event can be in audit.db: once from its connection, and   *)
(* from its spool file once, and once more for each stop and each failed   *)
(* append, which are what makes a drain insert the same file again.        *)
DuplicatesAreAccounted ==
    \A e \in Event :
        /\ Cardinality(Rows(e, "peercred")) <= 1
        /\ Cardinality(Rows(e, "spooled")) <= 1 + stops + faults

(* audit.jsonl is never ahead of audit.db, and behind it by no more than   *)
(* the append under way and those a stop or an I/O error prevented.        *)
JsonlFollowsDb ==
    LET pending == IF phase \in {"append", "dappend"} THEN 1 ELSE 0
    IN  /\ Len(jsonl) + pending <= Len(db)
        /\ Len(db) <= Len(jsonl) + pending + stops + faults

(* What makes the properties inductive.                                    *)

(* The event the daemon is working on has got as far as its phase says.    *)
StepInv ==
    /\ phase \in {"append", "dappend"} => Recorded(job)
    /\ phase = "dappend" => spool[job] = "full"
    /\ phase = "dunlink" => job \in torn \/ (Recorded(job) /\ spool[job] = "full")

(* A spool file is complete only when its writer has returned, and a       *)
(* writer's file is there until a drain reads it too early.                *)
FileInv ==
    \A e \in Event :
        /\ spool[e] = "full" => stage[e] = "spooled"
        /\ stage[e] = "writing" /\ e \notin torn /\ ~Wiped => spool[e] = "partial"

(* A connection is in the backlog once, before its row, and is not refused *)
(* while it is there.                                                      *)
QueueInv ==
    /\ \A i \in DOMAIN backlog :
          /\ stage[backlog[i]] \notin {"new", "refused"}
          /\ Rows(backlog[i], "peercred") = {}
    /\ \A i, j \in DOMAIN backlog : backlog[i] = backlog[j] => i = j

(* Rows come from calls that were made, spooled rows from spooled events,  *)
(* one row from one connection.                                            *)
RowInv ==
    /\ \A i \in DOMAIN db :
          /\ stage[db[i].ev] \notin {"new", "refused"}
          /\ db[i].identity = "spooled" => stage[db[i].ev] = "spooled"
    /\ \A i, j \in DOMAIN db :
          db[i] = db[j] /\ db[i].identity = "peercred" => i = j

(* An event's file is inserted again only after a stop or a failed append. *)
BeingDrained(e) == phase \in {"dappend", "dunlink"} /\ job = e

RetryInv ==
    \A e \in Event :
        Cardinality(Rows(e, "spooled")) <=
            stops + faults + IF spool[e] = "full" /\ ~BeingDrained(e) THEN 0 ELSE 1

IInv == TypeOK /\ StepInv /\ FileInv /\ QueueInv /\ RowInv /\ RetryInv

(* An event that was refused to its caller is not in the log, an event     *)
(* acknowledged is, the log only grows and a call has one answer.          *)
AnswerOf(e) ==
    CASE stage[e] \in {"new", "waiting"} -> "none"
      [] stage[e] = "acked" -> "recorded"
      [] stage[e] = "refused" -> "refused"
      [] OTHER -> "open"

Trail == INSTANCE AuditTrail WITH
    asked <- {e \in Event : stage[e] # "new"},
    answer <- [e \in Event |-> AnswerOf(e)],
    trail <- {e \in Event : Recorded(e)}

ImplementsTrail == Trail!TrailSpec

(* Every call returns (or its session dies): a stopped, restarting or slow *)
(* daemon never holds a session for ever.                                  *)
CallsReturn == \A e \in Event : stage[e] \in InProgress ~> stage[e] \in Returned

(* A complete spool file that no drain has read too early is recorded and  *)
(* removed in the end, also when drains crash or fail to append (finitely  *)
(* often), unless the daemon stops first and its unit keeps the spool in   *)
(* the RuntimeDirectory, as slurm-deck-audit.service does: systemd removes *)
(* that directory, with the file in it.                                    *)
SpoolDrains ==
    \A e \in Event :
        spool[e] = "full" /\ e \notin torn ~>
            \/ Recorded(e) /\ spool[e] = "none"
            \/ SpoolInRuntimeDir /\ phase = "down"

(* README.md:728, "if neither the socket nor the spool directory is        *)
(* reachable, the submission is refused rather than proceeding unlogged".  *)
(* It does not hold (the README here says more), and no run checks it.     *)
NeverUnlogged ==
    \A e \in Event :
        stage[e] = "unlogged" => Recorded(e) \/ \E i \in DOMAIN backlog : backlog[i] = e
===============================================================================
