# Slurm Deck in TLA+

Slurm Deck (`src/slurmdeck`, `src/deploy`) is the forced command of an SSH
account: a text menu through which users submit jobs to one SLURM GPU host, and
admins operate it. There is no server of its own, only one menu process per SSH
session, a root daemon for the audit log and the user registry, two host
scripts that change the cluster, and files that all of them share. What is hard
about it is therefore not in any one process: it is in what the processes leave
in the daemon's queue, in the spool directory, in `/etc/slurm` on two hosts and
in a world-writable JSON file, when they interleave, stop, time out or die.

- [1. The system](#1-the-system): components, state, operations, interactions
- [2. The plan](#2-the-plan)
- [3. The audit pipeline](#3-the-audit-pipeline)
- [4. Resizing the pods](#4-resizing-the-pods)
- [5. Pod notifications](#5-pod-notifications)
- [6. Launching a job](#6-launching-a-job)
- [7. Connecting to a notebook](#7-connecting-to-a-notebook)
- [8. Accounts](#8-accounts)
- [9. Logging in](#9-logging-in)
- [10. The dashboard and other ways to act on jobs](#10-the-dashboard-and-other-ways-to-act-on-jobs)
- [11. Registries, environments and limits](#11-registries-environments-and-limits)
- [12. The size of a launch](#12-the-size-of-a-launch)
- [13. What is proved](#13-what-is-proved)
- [14. Where the code and its documents disagree](#14-where-the-code-and-its-documents-disagree)
- [15. What is not modelled](#15-what-is-not-modelled)

`tlc -config X.cfg MCM` checks one configuration, `tlapm MProofs.tla` checks one
module's proofs. `PROJECT.json` maps every definition to the lines it stands
for, lists the hazards of the code at their lines, and gives for each property a
small change of the code that breaks it (the operators named `Bad...`, which
nothing else uses).

## 1. The system

| Component | Source | State it keeps | Operations |
|---|---|---|---|
| Session entry, main menu | `slurmdeck/__main__.py`, `menu.py` | none of its own | login notice, password gate, maintenance gate, menus |
| Audit client | `slurmdeck/auditclient.py`, `daemonclient.py` | spool files | `log`, `log_or_block`, `_spool`, request/response |
| Audit daemon: log path | `deploy/audit_daemon.py` | `events` table, `audit.jsonl`, rate limit, spool listing | `audit.log`, spool drain, stop, restart |
| Audit daemon: registry verbs | `deploy/audit_daemon.py` | `users.db` | `users.*`, `update_email`, `reconcile`, `mail.send`, `check/clear_must_change_pw` |
| Submission and notebooks | `wizard.py`, `jobs.py`, `slurm.py`, `connect.py`, `notebooks.py`, `setup.py` | job folders, `ready` marker, ports | audit gate, folder, `sbatch`, wait until ready, attach, cancel |
| Pod arithmetic, launch specs | `pods.py`, `launchspec.py` | none | pods to GPU share, memory, CPUs; clamps |
| Pod notifications | `pod_notify.py` | `notify_subscriptions.json` with a `flock` | subscribe, unsubscribe, get, check and mail |
| Resize | `admin.py`, `deploy/resize-pods.sh` | `gres.conf`, `slurm.conf` on two hosts, what `slurmctld` and `slurmd` have read, node state, lock file | resize, rollback |
| Other admin operations | `admin.py` | accounts, QOS, node state, maintenance and mail switches | provision, offboard, drain, cancel, QOS, switches |
| Dashboard | `dashboard.py`, `monitor.py` | a job list that refreshes, a cursor | select, cancel, extend, log |
| Registries | `models.py`, `templates.py` | shared JSON files | read, modify, write |
| Environments | `envbuilder.py`, `envs.py` | environment directories | build, smoke check, delete |
| Files, upload, validation | `files.py`, `upload.py`, `validate.py`, `workspace.py` | the user's tree | path and value checks |
| Presentation | `ui.py`, `splash.py`, `accounting.py`, ... | none | printing |
| Deployment | `deploy/`, `deploy/wizard` | host state | install, redeploy, permissions |

How they interact, and what is hard about it:

- *Sessions → daemon*: a request over a Unix socket, with a two-second timeout
  on the client and a single-threaded loop on the server, so the two can
  disagree on whether a call succeeded. A call that finds no daemon writes one
  file to the spool directory, which the daemon drains at startup and every
  30 s. Correct: a submission let through on the daemon's word is in the log; a
  refused one is not; nothing spooled is lost; a drain that crashes halfway
  repeats no more than it must; the rate limit counts across sessions; nobody
  waits for ever.
- *Admin panel → script → two hosts*: the panel looks at the queue, the script
  looks again under a lock, and then runs ten commands on two machines, any of
  which may fail or be the last one. Correct: what the script says on exit is
  true of both hosts; a half-applied change is never reported as clean.
- *Sessions and the checker → the subscriptions file*: a JSON file rewritten in
  place, shared by all accounts, created by whoever comes first. Correct: nobody
  undoes somebody else's subscription; one mail per subscription; a waiting user
  is served.
- *Session → SLURM*: `sbatch` with a 30 s timeout that is taken for a failure,
  a job folder removed on some failure paths and kept on others, a readiness
  marker and a port both chosen before the job runs. Correct: a folder in use is
  not removed; an attached notebook is the user's own job; a rejected submission
  leaves no job.
- *Admin panel → account scripts → two hosts and users.db*: `slurm-deck-adduser`
  and `slurm-deck-deluser` work through the login node, the GPU host, SLURM and
  the shared data with no lock, under a panel that waits 120 s. Correct: a name
  ends up whole or gone, or somebody was told; no two names share a UID, since
  files on the share belong to UIDs; the data of an account is kept.
- *Session and daemon → users.db*: the password gate takes any failure for a no,
  and a login notice updates `last_seen_ip` before the mail is sent. Correct:
  nobody works with the initial password, or the daemon could not know; an
  address that counts as known was mailed about.
- *Session → squeue, sacct, scancel*: what is on the screen is a copy that
  refreshes every two seconds, the selection is an index into it, and an admin
  may drain the node meanwhile. Correct: a key acts on what was shown when it was
  typed; every cancel is in the audit log.
- *Sessions → registries*: JSON files of environments and models, rewritten by
  each session from a copy read without the lock. Correct: what is listed was
  built; no registration is lost, unless two saves meet.
- *Session → node*: a launch is sized by a reading of the node, which an admin
  may resize before the job is submitted. Correct: what is submitted can run,
  and pods that are free can be used.

The hazards at their lines, with the properties that cover them, are listed in
`PROJECT.json`.

## 2. The plan

In the order of what goes worst when it goes wrong:

1. **AuditPipeline** *(done, proved)*: client, spool, daemon, crashes. It is the
   core: every submission passes it, and it is the component where all the hard
   behaviours meet. Abstract specification: **AuditTrail**.
2. **Resize** *(done, proved)*: the only operation that changes two hosts.
3. **PodNotify** *(done, proved)*: the file that all accounts share, and the
   checker that mails between two critical sections.
4. **Launch** and **Notebook** *(done, proved)*: the submission of a job. The audit
   gate enters it as `AuditTrail`, so that the composition is with the promise and
   not with the pipeline; then the folder, `sbatch` with its timeout and the
   failure paths of `wizard.py`. Then the notebook's port search, its `ready`
   marker, and the session of `connect.py` that polls for it.
5. **Accounts** and **Login** *(done, proved)*: the account on two hosts with its
   row in `users.db`, and the sessions that use it.
6. **Jobs** *(done, proved)*: acting on jobs from the dashboard, from the
   manage menu and by draining the node.
7. **SharedState** *(done, proved)*: what sessions share besides jobs.
8. **Sizing** *(done, proved)*: `pods.py` and `launchspec.py`, and what becomes
   of a size between the reading and the submission.
9. Left: the resumable steps of `deploy/wizard`, if it is ever run by two people.

Runs stay at one passing run per question: a safety run and, where something
must eventually happen, a liveness run over a smaller instance. Theorems: type
correctness and the inductive invariant of each state machine first, then its
safety properties, then the refinement.

No module declares a RECURSIVE operator, constants have named assumptions, and
each invariant is a conjunction of named parts, so that each module can be
proved about as it stands. Two modules hold the proofs of two components each, of
those that meet in the code: `SubmissionProofs` those of `Launch` and `Notebook`,
`PodProofs` those of `Resize` and `Sizing`. They extend both, and therefore the second
of each pair names its specification and invariant after itself (`NotebookSpec`,
`SizingInv`, ...).

## 3. The audit pipeline

**Modules.** `AuditPipeline` is the client and the daemon's log path;
`AuditTrail` is what they promise; `MCAuditPipeline` names the instances;
`AuditPipelineProofs` holds the theorems.

**State.** A call is identified with the event it builds, so `stage[e]` is both
the caller's program counter and, once the call has returned, what it returned.
`backlog` is the socket's accept queue with the requests in it. `spool[e]` is
the event's file: absent, open and incomplete, or complete. `phase`, `job` and
`todo` are the place of the daemon in its loop, the event in its hands and the
files its current drain has listed. `db` is the table, with the identity each
row was given (`SO_PEERCRED`, or the one in the spool file), and `jsonl` the
lines. `clock` and `ts` are the wall clock and the event's own timestamp, which
the client sets and the rate limit trusts.

**Actions.**

| Code | Actions |
|---|---|
| `auditclient.log`, `log_or_block` | `Log`, `LogOrBlock`, `GiveUp` (timeout, reset or EOF) |
| `auditclient._spool` | `CreateSpoolFile` (open), `WriteSpoolFile` (data and close), `FailToSpool` |
| the SSH connection drops | `Kill` |
| `_h_audit_log`, `_process_event` on a connection | `HandleRefuse`, `HandleInsert` (commit), `HandleAppend` (JSONL, reply), `HandleAppendFails` |
| `_drain_spool` | `StartDrain`, `DrainTornFile`, `DrainInsert`, `DrainAppend`, `DrainUnlink`, `DrainFails`, `EndDrain` |
| SIGTERM, a crash; `Restart=always` | `Stop`, `Start` |

The steps are cut at the effects that survive a crash: a commit, an append, an
unlink, a reply. The count and the insert of one connection are one step because
the daemon is one thread; a spool write of a client may fall anywhere.
`SpoolInRuntimeDir` distinguishes the two layouts a spool can have: in a
directory that outlives the unit, or, as in the unit file that is shipped, below
its `RuntimeDirectory`, which systemd removes when the unit stops. The theorems
hold for both. `AuditKept` uses the first layout, where a file can be drained after a
crash, and `AuditShipped` the second; the one property in which they differ,
`SpoolDrains`, is checked in both.

**Abstractions.** Event contents are dropped but for the action kind and
timestamp. An SQLite error that nothing catches is a `Stop`. A reboot is a stop
of the daemon and a death of each session. The daemon's own events, written by
its other verbs, come with those verbs.

**Runs.**

| Run | Instance | Shows |
|---|---|---|
| `AuditKept` | 2 submissions of one user from 2 sessions, limit 1, 2 ticks, 1 stop, 1 I/O error, the spool outside the runtime directory | the invariants below, that the pipeline implements `AuditTrail`, and `SpoolDrains` |
| `AuditShipped` | a submission and a plain event, backlog 1, 1 stop, 1 error, the spool inside it | `CallsReturn`, `SpoolDrains` |

- `LiveWithinLimit`: the submissions in the window that the daemon let in over
  the socket are never more than the limit. Spooled ones are not limited by the
  code, but they are counted.
- `AckedIsInBoth`: a `True` that comes from the daemon's `ok` means that the
  event is in the table and in the JSONL file, also after a later crash.
- `SpooledIsNotLost`: a complete spool file is in the table or still there. The
  two ways out are named, not hidden: a drain that read the file before it was
  complete (`torn`), and a stop with the spool in the runtime directory.
- `DuplicatesAreAccounted`: at most one row per connection, and at most one per
  spool file plus one for each stop and each I/O error.
- `JsonlFollowsDb`: the JSONL file is never ahead of the table, and behind it by
  no more than the stops and errors account for.
- `ImplementsTrail`: a refused event never gets into the log, an acknowledged
  one is there, the log only grows and each call has one answer.
- `CallsReturn`: no call is held for ever.
- `SpoolDrains`: a complete file is recorded and removed in the end. With the spool in
  the runtime directory, as shipped (`slurm-deck-audit.service:11` and `:14`), this is
  so only until the daemon stops, which removes the file: that stop is the other end
  that the property allows in that layout, and it does not allow it in the first one.

**Bounds.** Two submissions are the least for which one can count against the
other; two sessions the least that interleave; limit 1 makes every second
submission a borderline case, and two clock values with a zero window let one
leave it. One stop falls anywhere, also in the drain of a file that was spooled for
a timeout; one error lets an append fail once in each place. More of either is what
the theorems add. Backlog 1 in `AuditShipped` makes a full queue reachable with one
call.

**Fairness.** `WF` of a caller's own steps: each wait has a timeout
(`socket.settimeout`) and the rest is local. `WF(Connection)` and `WF(Drain)`:
the loop goes on with what it has accepted or listed. `WF(Start)`:
`Restart=always`, `RestartSec=5`. `SF(StartDrain)`: the 30 s timer is compared
in every iteration of the loop, so connections that keep arriving put a drain
off but not for ever, while the action itself is disabled whenever one is being
served. Nothing is assumed of users, kills, faults or ticks.

`CHECK_DEADLOCK FALSE`, because the events of an instance are finite: once all
calls have returned, the spool is empty and the bounds are used up, nothing is
left to do. The same holds of the other models.

## 4. Resizing the pods

**Modules.** `Resize`, `MCResize`; the theorems are in `PodProofs`.

**State.** `login` and `gpu` are the pod counts in the two files of each host,
`ctld` and `slurmd` the counts the running daemons have read, `node` the state of
the compute node. Each admin panel has a `pc` whose values are the commands of
`resize-pods.sh`, in its order, and the way the script ended. `lock` is the
holder of the `flock`.

**Actions.** `PanelCheck` is `resize_pod_count` up to the start of the script.
`TakeLock`, `CheckQueue`, `Backup`, `WriteGres`, `WriteSlurm`, `RestartCtld`,
`CopyToGpu`, `RestartSlurmd`, `Resume`, `Verify` are the commands; `WriteGres` to
`RestartSlurmd` stand for the rollback's commands too, which are the same but for
what they write. `GpuSyncFails` is a failed `ssh`, `scp` or remote command, with
its effect there in full, in part or not at all; in the main path it starts the
rollback, in the rollback it sets `rb_rc`. `LoginFails` is `set -e`: a command
that fails on the login node ends the script there, in the rollback too. `Kill`
is the panel's timeout, a lost connection or a reboot. `Register` is SLURM's
reaction to two daemons that disagree; `SubmitJob` and `FinishJob` are the
users.

**Abstractions.** The two files are a pod count each; a node name, a GRES line
and a CPU count that follow from it are not kept. `--dry-run` writes nothing that
is modelled. A panel that times out closes the pipe, and the script is ended by
its next write: `Kill` may fall anywhere from there on. A host that restarts
reads the same files again.

**Runs.** `Resize`: two admins (symmetric), counts 1 and 2, a job, two failing
commands and a kill, any number of runs one after another. Two faults are what
it takes to enter the rollback and fail in it; one kill leaves a half-written
cluster for the next run to start from, which is the interesting initial state.

- `AppliedEverywhere`: exit 0 is said only when all four files, both daemons and
  the node state agree with the new count, whatever an earlier run left behind.
- `RollbackIsClean`: exit 1, "rollback performed", is never said of a cluster
  whose hosts are not both back on the files that were backed up.
- `DisagreementIsReported`: with no script at work, a cluster whose parts
  disagree was left so by a script that said so or was killed.

No liveness is claimed: a `slurmctld` that stays down ends every later attempt in
the panel's check, which is also why the model may stop.

## 5. Pod notifications

**Modules.** `PodNotify`, `MCPodNotify`; `PodNotifyProofs` holds the theorems.

**State.** The file: whether it `exists`, who created it, whether the `chmod`
that opens it to all accounts was done (`shared`), its contents `subs` as a
reader would parse them, and the `flock`. Each process has a `call` and its
place `at` in `_open_locked`; `buf` is what its writer has not flushed. The
checker also has the `freeSeen` it read before the file, the `candidates` it has
still to mail and the accounts it has `sent` to. Each subscription has an
identity and a count of `notices`, which exist in the model alone.

**Actions.** `Create`, `WriteEmpty`, `Chmod`, `Open`, `Flock` are `_open_locked`;
`Truncate` within `Subscribe`, `Unsubscribe` and `Remove`, and `Write`, are
`_save`; `Get`, `BeginSubscribe`, `BeginUnsubscribe` follow `_notify_menu`.
`BeginCheck`, `Read`, `Mail`, `MailFails`, `MailSwitchedOff`, `EndMail`, `Remove`
are `check_and_notify` with the lock released while mails are sent. `Die` ends a
process anywhere: its lock is released and what it has not flushed is lost.
`Pods` is the cluster.

**Runs.** `PodNotify`: two sessions of two accounts and the checker, one pod, two
subscriptions in all, one death, one mail fault: enough for a subscription to
be replaced while its mail is on the way, and for a death between truncate and
flush with another account's subscription in the file. `PodNotifyLive`: one
session, the same bounds.

- `OthersKeepSubscription`: a subscription leaves the file only in a step of a
  process of its own account, by the checker after a mail to that account, or in
  a death between truncate and flush.
- `NoticesAccounted`, in `Inv` with the types: a second mail for one subscription takes a death between
  mail and removal, or a mail that was delivered and reported as failed.
- `WaitEnds`: a subscription whose pods stay free is served and removed.

**Fairness.** The timer unit starts the checker every two minutes, `WF(Cycle)`;
a process in `pod_notify` goes on, `WF`; the kernel's queue for a blocking
`flock` serves each waiter, `SF(Flock)`. A user need not come back to the menu.
`WaitEnds` excepts a file whose creator died before the `chmod`: other accounts,
the checker among them, cannot open it then, and the model keeps it so.

## 6. Launching a job

**Modules.** `Launch`, `MCLaunch`; the theorems are in `SubmissionProofs`. `Launch` uses `AuditTrail` as
its audit log, with a launch for an event: what `AuditPipeline` was shown to
implement is all that a launch may rely on.

**State.** `stage[l]` is the place of a launch in its branch of the wizard and
then what the user was told. A folder is a slot (user and job name) and a second,
which is all that its name has; `folders` are those that exist and `script` whose
text is in each `job.sbatch`. `rpc` is the request to `slurmctld`, `job` the job
and `runs` the text `slurmctld` was sent, which is the file's text at the time of
`sbatch`. `lost` counts the killed `sbatch` processes.

**Actions.**

| Code | Actions |
|---|---|
| `make_job_folder` | `MakeFolder` |
| the review panel, `_tier3_own_script` | `Decline` |
| `write_text` | `WriteScript` (without a folder it raises) |
| `log_or_block` and the `if not` around it | `AskAudit`, `Gate` |
| `submit_job` | `Sbatch`, `Report`, `TimeOut` |
| the `else` branches | `CleanUp` |
| the daemon | `Record`, `Answer` (a refusal only for `job_submit`) |
| SLURM, and the job menu | `Accept`, `Reject`, `StartJob`, `EndJob`, `RequeueJob` |

The four branches (`_run_own_sbatch`, notebook and batch in `run_wizard`,
`launch_tensorboard`) are the same sequence and differ in three places, by `kind`:
TensorBoard asks for no confirmation; after a refusal only an own script's folder
is removed; after a failed `sbatch` only a notebook's is.

**Abstractions.** The form before the review, the script's text, the mail
directive and the `.sd-jupyter` marker are left out. A request whose `sbatch` was
killed may still be accepted: it was sent. A job starts by opening its output
file, which fails without its folder. The `job.sbatch` of a folder that was
removed and made again is absent.

**Run** `Launch`: two launches (symmetric) of one slot, two seconds, so that two
launches share a folder in some behaviours and not in others; one killed
`sbatch`; kills of sessions without a bound.

- `NoJobUnasked`: nothing was sent for a launch that the audit log was not asked
  about or that it refused; of "recorded", the event is in the log.
- `ToldIsTrue`: "submitted" is said only of an accepted job, "discarded" and a
  refusal only where none was sent, and there are no more jobs behind "failed"
  than `sbatch` processes were killed.
- `JobKeepsFolder`: a queued or running job has the script that was reviewed and
  its folder. Ways out, named in the property: another launch of the same second
  shares the folder; a notebook's `sbatch` was killed.
- `NothingLeft`: where the code takes a launch back, its folder is gone, unless
  it is shared.

`NothingEverWill` of section 14 is the second way out of `JobKeepsFolder`. No
liveness is claimed: a user may sit at the review for ever, and a job may be
queued for ever.

## 7. Connecting to a notebook

**Modules.** `Notebook`, `MCNotebook`; the theorems are in `SubmissionProofs`. It begins where `Launch`
says "submitted" of a notebook.

**State.** `queue` is SLURM's state of each job and `at` how far its script is;
`port` is `$SD_PORT`, `listener` who listens on each port of the node, `watching`
the jobs whose background watcher runs, `marker` those that have `.sd-ready`.
`out` is the port in the connection info that the job has printed, `seen` what
the login node sees of that file over NFS. `session` is the place of
`_post_submit_notebook` and then its outcome, `shown` the port on its card.

**Actions.**

| Code | Actions |
|---|---|
| the job's script: free port and watcher, connection info, `jupyter lab` | `Scan`, `PrintInfo`, `Bind` |
| the watcher | `Watch`, `WatchExpires` |
| SLURM, the job menu | `Start`, `JobEnds`, `Requeue`, `PendAgain`, `Suspend`, `GoesOn` |
| other processes of the node, NFS | `OtherListens`, `OtherCloses`, `Flush` |
| `wait_ready` | `CheckMarker`, `AskQueue`, `AskFails`, `Deadline`, `NotYet` |
| its outcomes | `ReadCard`, `ReadLateCard`, `Leave` |

**Abstractions.** The scan of the 100 ports is the choice of one that can be
bound; the order of the scan, which makes two jobs choose the same port less
often, is left out, so that they always may. A script that ends for whatever
reason is `JobEnds`, a port that is taken when JupyterLab binds it with
`--port-retries=0` among them. `Leave` is a key, an interrupt or a lost
connection. The six looks at the output of a ready job are one, which may come
late. `TensorBoard` runs the same port search and is not waited for: it is one of
the other processes.

A suspended job is stopped and keeps its processes and its port. `_alive`
(`wizard.py:362`) takes PENDING and RUNNING for alive and all else for the end, a
suspended or a configuring job too.

**Run** `Notebook`: two jobs, two ports, one failed `squeue`, and one event out of a
requeue, a suspension and a wait in CONFIGURING (`MaxUpsets`). Two jobs
can choose one port, and a job that loses it can come again. One session waits;
the other job is its rival, and its own session has hung up.

- `ServedIsAdvertised`: a server listens on the port that its job has printed and
  its session has shown, unless the job was requeued since.
- `CardIsServed`: the card of a job reported as ready leads to that job's server.
  Ways out: the job is over; it was requeued, with its old marker in the folder;
  it has lost its port to a process that the watcher takes for JupyterLab.
- `GoneIsOver`: "the job ended" is said of a job that has, but for failed `squeue`
  calls, which `queue()` returns as an empty list, and jobs that were for a time
  neither PENDING nor RUNNING: requeued, suspended or configuring.
- `WaitReturns`: the wait ends, whatever becomes of the job.

**Fairness.** `WF` of the session's own steps, which have timeouts; `SF(Deadline)`:
the clock is read in each round and goes on. Nothing is assumed of jobs, of
SLURM and of NFS.

## 8. Accounts

**Modules.** `Accounts`, `MCAccounts`, `AccountsProofs`.

**State.** `account[h][n]` is the UID of a name on a host, `home[h][n]` the owner
of its home directory there, `assoc` the names with a SLURM association. A name is
given again after it was offboarded, so the files of `/shared/users/<name>` and of
its archive, and the row of `users.db`, name the tenant they are about: the first,
second, ... person with that name. `job[a]` is the script that a panel runs and the
step it is in; the history variables record why a property may except a name.

**Actions.**

| Code | Actions |
|---|---|
| `_provision_menu`, `provision_user` | `Provision`, `CreateRow` with `_h_users_create` |
| `slurm-deck-adduser` | `PickUid`, `AddOn` for each host, `AddAssociation`, `MakeArea`, `LinkHome`, `Verify` |
| `offboard_user` | `Offboard` |
| `slurm-deck-deluser` | `DropJobs`, `Archive`, `RemoveFrom` for each host, `OffboardRow` |
| `admin._run`'s timeout, a failing command | `TimeOut`, `CommandFails` |

Which commands are masked with `|| true` and which end the script under `set -e`
is kept for each of them. A script whose panel gave up goes on until it next
prints, since nobody reads its pipe any more.

**Run** `Accounts`: two panels and two names (both symmetric), three operations
in all, three UIDs, two faults. Two panels may work on the two names, whose UIDs they
then pick from the same list, or on one; three operations allow add, remove and add.

- `QuietIsWhole`: a name nobody works on, whose last operation was not reported as
  failed, has matching accounts and homes on both hosts and an association, or
  nothing. It rests on the order of the steps and on the last one, `Verify`.
- `RowIsOfTenant`: the active row is about the person who has the account, unless an
  admin was warned: `users.create` refuses a name whose row was left active.
- `NoForeignUid`, in `IInv`: the account of one name on the GPU host never has the
  UID of another name on the login node. `useradd` refuses a UID in use on its own
  host only; the way out is that adduser was run again for a name that it found on
  the login node, and asks for a second UID.
- `DataIsKept`, in `IInv`: who has had files has them in the area or in the archive,
  unless an admin asked for their deletion, a later tenant's archive took the place,
  or the name was offboarded twice. The last is what deluser's own messages ask for
  after a failure, and it removes the archive that the first attempt made
  (`slurm-deck-deluser.sh:62`), where lines 6 and 7 promise that the data is kept.

## 9. Logging in

**Modules.** `Login`, `MCLogin`, `LoginProofs`. The account enters it as its tenant and a password;
section 8 has how it comes and goes.

**State.** `row` is the row of `users.db` with `must_change_pw` and `last_seen_ip`;
`at[s]` the place of a session from `main` to the menu, and `mail[s]` that of its
notification thread; `notice` is `.maintenance.json`, which a writer truncates before
it fills it; `mailOff` the flag file of the mail switch.

**Actions.** `Begin` and `End` are the connection; `Check`, `ChangePassword`,
`ClearFlag` the first-login gate with the daemon's two verbs; `AskForMail` and
`HandleMail` the thread and `_h_mail_send`; `Look`, `Enter`, `Leave` a round of
`run_menu`. Admins `Provision` and `Offboard` a person, `SetPassword` by hand,
write a notice in two steps, `ClearNotice` and `SwitchMail`. A request of the daemon
is one step since it has one thread.

**Run** `Login`: two sessions from two addresses (symmetric), two people who get
the name one after the other, two logins, one failure.

- `InitialPasswordIsChanged`, in `IInv`: a session past the gate finds the initial
  password only if the daemon did not answer it, or the flag of this person never
  got into the row (no email, no answer, a row that was still active, or a password
  set by hand).
- `KnownIsMailed`: when the daemon says "known ip", this person was mailed about that
  address. Ways out: that mail failed, after `last_seen_ip` was committed; or it was
  an earlier person's address, which `users.create` keeps.
- `OneMoreUnderNotice`: a session enters at most one more thing from a menu drawn
  before the notice. Way out: it read the file between truncate and dump, which
  counts as no notice.

No liveness is claimed: a user may sit in the menu for ever. An admin's sessions,
which a notice does not stop, are left out. `CHECK_DEADLOCK` stays on here: an admin
can always flip the mail switch.

## 10. The dashboard and other ways to act on jobs

**Modules.** `Jobs`, `MCJobs`, `JobsProofs`.

**State.** `queue[j]` is SLURM's state of a job. A dashboard has the `live` list it
has from `squeue`, the merged `list` and the index `selected`. `frame` is the job that
the last stored frame highlights, `shown` the one that the screen does, and `typed` the
one it did when the key was typed that is not handled yet. `target` is the job a
confirmed key or the manage menu is about. `drain` is the place of `drain_node`.

**Actions.** `ReadQueue` and `ReadHistory` are `_merged_jobs` within
`_refresh_data`, two commands with SLURM going on in between; `Draw`, `Press`, `Pass`,
`SelectNext` a round of the loop; `Confirm`, `Log` and `Extend` what a key does.
`Draw` is `live.update`, which only stores the frame: `Paint`, a step of Rich's own
thread, brings it to the screen, four times a second and whatever the loop is at.
`Type` is a key that the terminal keeps until `_wait_key` reads it, typed also during a
refresh. `Choose`, `ManageCancel`, `ManageState` are `manage_job`, which logs before it
acts. `StartDrain`, `DrainCancel`, `DrainRecord`, `UpdateNode`, `Resume` are `drain_node`
and `resume_node`. `Scancel` is what scancel comes to: done, refused, or a failure before
or after SLURM did it.

**Abstractions.** The order of a list is any fixed one. Numbers stand for job IDs:
`filtered_history` gives the newest `History` jobs that are over (`_COMPLETED_HISTORY`,
which is 2), before those that `squeue` still knew are taken out. `sacct` knows of a job
as soon as it is over, and is asked for thirty days: the jobs of the model are those of
the last thirty days, and an older one is not listed. One key is waiting at a time. The log pane, the warning mail and the connect card change no
state that a property is about; that `e` needs a notebook is left out, so that it is
allowed for every running job of one's own.

**Run** `Jobs`: two jobs of two users, the dashboard of one of them, the manage menu and
the drain of the other, who is an admin, and one fault; `History` is 1, so that with both
jobs over the cut is reached. A `CONSTRAINT` names the rest of the bound: two refreshes,
one when the admin has used the menu or is draining, and none when both, so that each two
of the three meet. What three of them, more jobs or a history of two add is left to the
theorems, which hold for all of these.

- `ActsOnShown`, in `IInv`: a key acts on the job that the screen highlighted when it
  was typed, whatever SLURM and the refreshes have done to the list since. Way out
  (`behind`): the key was typed, or would be, before a frame of the present list was
  painted. In the code nothing keeps such a key from acting, see section 14; the property
  says that this is the only way, and that once the screen has caught up a key is safe
  for as long as the user takes.
- `EachJobOnce`: between two refreshes the list has every job that was there when the
  refresh began, once, also one that ends between `squeue` and `sacct`, except for
  finished ones with as many newer finished ones as the dashboard asks for. Way out:
  one of the two commands failed, which reads as an empty list.
- `CancelIsLogged`: a job that was cancelled has its event, or is about to. Ways out:
  `scancel` reported a failure after SLURM had acted, or the session died between the
  cancel and its event; `manage_job`, which logs first, has neither.
- `DrainLeavesOnlyLate`: what runs on a node drained with its jobs cancelled started
  after the jobs were listed, or could not be cancelled. The node is drained after
  its jobs are cancelled, so a late one may start (`admin.py:161`).

## 11. Registries, environments and limits

**Modules.** `SharedState`, `MCSharedState`, `SharedStateProofs`.

**State.** `content[r]` is the file of a registry as the sequence of dumps in it: one
is a registry, none or two do not parse and read as no entries. `creator` and
`shared` say who may open it for writing. `files[n]` is what the directory of an
environment or of a model holds: nothing, something half done, a bare Python, all.
`qos` is the string of limits that two menus change one component of. `at` and
`doing` are the operation each session is in, `mem` the entries and `tres` the limits
it will write.

**Actions.** `Load`, `Truncate`, `Close`, `MakeWritable` are the registries'
read-modify-write: the entries are read without the lock, the file is truncated and
dumped under it, but the dump stays in Python's buffer until the file is closed,
after the unlock. `StartBuild`, `Create`, `Pip`, `SmokeCheck` are `build_env`;
`StartPrebuilt` with `Verify` the installation of a prebuilt environment;
`RegisterVenv`, `StartDelete`, `Rmtree`, `StartDownload`, `Fetch`, `RemoveModel` the
menus; `StartQos`, `ReadQos`, `WriteQos` are `set_qos_merge_tres`. `Die` is a lost
connection.

**Run** `SharedState`: two sessions and two environments (symmetric), one model, two
limits, four operations and one fault: build, rebuild, delete and register meet in
every order.

- `VerifiedBeforeListed`, in `IInv`: what a session is about to register has been
  built, or fetched, or removed, and is still so unless another session works on it.
- `SerialRegistry`: a registry holds what was registered and not removed, unless two
  saves overlapped or a session left one half done.
- `WholeUnlessTorn`, in `IInv`: a registry that nobody saves is one whole dump, unless
  a session died between truncate and close, or two closed one after the other, both
  after their unlock. The lock does not prevent that.
- `OtherLimitKept`: setting one limit keeps the other, unless another admin wrote
  between the read and the write.

What the run also shows, as behaviours: an environment whose rebuild fails stays
listed with its files half done; a creator that dies before the `chmod` locks all
others out of the registry; an entry whose directory is gone cannot be removed from
the manager, since `delete_env` fails on it and the entry is removed after that.

## 12. The size of a launch

**Modules.** `Sizing`, `MCSizing`; the theorems are in `PodProofs`.

**State.** `pods` is the split of the node. A session has the `spec` of its launch
and the last reading of its hub (`stats`); `why` records what its sizes rest on other
than a reading that still holds: no reading, a stored size, a resize since, the
user's own script, one in which `validate_sbatch` sees another number of pods. `active`
are the jobs in the queue, one for each place. A script says what it asks for, which
of it `_parse_sbatch` will find (`found`), and which number `validate_sbatch` takes for
the pods (`checked`). `script` is the last `job.sbatch`, `template` the saved template,
`clean` the jobs sized by the present split.

**Actions.** `Fresh`, `FineTune`, `LoadTemplate`, `Rerun`, `OwnScript` are the intakes of
the wizard; `ReadNode`, `EditPods`, `EditTime`, `EditEnv`, `SaveTemplate`, `Launch`, `Cancel`
the hub, which reads the node anew in each round; `Submit` and `SubmitOwn` the answer of
SLURM, and `ResizePods` what section 4 does, with the queue empty. The arithmetic of `pods.py`
and `launchspec.py` is translated operator by operator. `Rendered` is the script the
wizard writes of a launch; the text of an own script goes to the job folder as it is.

**Scripts.** What a script asks of SLURM and what the tool reads in it are two things.
`_parse_sbatch` (`monitor.py:291`) looks for the first flag of a line, written
`--key=value`, and for memory in G; `validate_sbatch` splits lines into flags and takes the
number after the last colon of `--gres`. So an own script with `--mem=16000M`, two flags
on a line, `--cpus-per-task 4` or no `--gres` lacks fields in `found`, and one with
`--gres=shard:9,gpu:1` has 9 pods and is `checked` for 1. `FromRerun` takes the sizes of
a fresh batch job for all that is not found. A script of the wizard lacks its pods if
there are none, its time if none is set, and a venv. Left out: flags that multiply a
size (`--ntasks`, `--nodes`, `--mem-per-cpu`), a time with other flags after it on its
line, which is read as one text, and the rounding of memory in M or K.

**Run** `Sizing`: two users (symmetric) with two places for jobs, a node of 7 CPUs and
6 GB split into 2, 4 or 5 pods, the last of which does not fit (an admin may have set it
by hand), three intakes or edits, one resize. 7 divides by none of them, and the rounding
is what `PodsAreEnough` is about. Of the two own scripts one is found in full; the other
has two flags on a line and a second kind of GPU.

- `SizedByPods`, in `SizingInv`: a launch that rests on a valid reading asks for exactly
  the CPUs and memory of its pods, after any edits.
- `LaunchFits`: what is submitted can run: no more pods than the node has, no more
  CPUs and GB if the split fits it, and no longer than the QOS allows. Each part
  names what it rests on; a resize between the hub's reading and the launch, a stored
  size and an own script are the ways out, for its pods only one that
  `validate_sbatch` misreads.
- `PodsAreEnough`: jobs sized by the present split whose pods fit the node together
  fit it in CPUs and memory too, with the headroom left. The shares are rounded down
  with a floor of 1, so this needs a split that fits, which `fits_new_pod_count` asks
  of a resize and nothing asks of a node configured by hand.
- `RerunRepeats`: a job run again unedited asks for everything that is found in its
  script, also when the node has been split anew. It says nothing of what is not found.
  (Model paths, arguments and mail, which a rerun or a template also loses, are not in
  the model.)

## 13. What is proved

Every theorem holds for all values of the constants, under the assumptions named in
the modules: `EventAssumption` (`NoEvent` is no event, submissions are sent with
`log_or_block`), `NumberAssumption` (the bounds and the limit are naturals),
`ResizeAssumption` (`NoAdmin` is no admin, the first count is a count),
`NotifyAssumption` (the checker is no session, `Nobody` no process, each process
runs as an account, the number of pods and the bounds are naturals),
`LaunchAssumption` (`NoLaunch` is no launch, the bounds are naturals),
`NotebookAssumption` (jobs, `Free` and `Other` differ, `NoPort` is no port),
`AccountsAssumption` and `LoginAssumption` (`NoName` is no name, `NoAddress` no
address, the bounds are naturals), `JobsAssumption` (`NoJob` is no job and `NoKey`
neither; jobs are numbers, of which a newer job has the higher, and finitely many, since
they are read into a list), `SharedStateAssumption` (no model
has the name of an environment, `Nobody` is no session, the bounds are naturals) and
`SizingAssumption` (the sizes of the node, the ceilings and the bounds are naturals,
a node has at least one pod, built-in templates are launches, users' scripts ask for
sizes that are numbers but need say none where it is found, `Nothing` is none of these,
and the queue has finitely many places, whose jobs can be added up). No other constant
set is assumed finite.

- `AuditPipelineProofs!TypeCorrect`, `Invariance`, and from the latter
  `Duplicates`, `Acknowledged`, `SpoolKeeps`, `JsonlLags`, `RateLimited`.
- `AuditPipelineProofs!Refinement`: `Spec => ImplementsTrail`.
- `PodProofs!ResizeInvariance`, and from it `Applied`, `RolledBack`,
  `Reported`.
- `PodNotifyProofs!Notices` (`NoticesAccounted` and the types), `Kept`.
- `SubmissionProofs!LaunchInvariance`, and from it `Gated`, `Told`,
  `FolderKeptForJob`, `LeavesNothing`.
- `SubmissionProofs!NotebookInvariance`, and from it `Advertised`, `CardServed`,
  `GoneOver`.
- `AccountsProofs!AccountsInv` (`NoForeignUid` and `DataIsKept` are in it), `Quiets`,
  `Rows`.
- `LoginProofs!Sessions` (`InitialPasswordIsChanged` is in it), `KnownAddresses`,
  `Maintenance`.
- `JobsProofs!JobsInv` (`ActsOnShown` is in it, and `Shown` by itself), `Merged`,
  `Cancellations`, `Drained`.
- `SharedStateProofs!SharedStateInv` (`VerifiedBeforeListed` is in it), `Serial`, `Whole`,
  `LimitKept`.
- `PodProofs!SizesFollowPods` (`SizedByPods` is in it), `RunAgain`, `LaunchesFit`,
  `PodsSuffice`.

**AuditPipeline.** The properties are not inductive by themselves. A row can be
inserted a second time from a state that no run reaches, for instance one with a
connection in the backlog whose row is in the table already. `IInv` adds:

- `StepInv`: what the daemon's place in its loop says about the event it holds
  (in `append` the row is there, in `dunlink` the row and the complete file are
  there, or the file was torn);
- `FileInv`: a file is complete only when its writer has returned, and a
  writer's file stays there until a drain reads it too early;
- `QueueInv`: each connection is in the backlog once, and has no row yet;
- `RowInv`: rows belong to calls that were made and not refused, and one
  connection has one row;
- `RetryInv`: the rows from a spool file are counted by stops and errors, with
  one to spare exactly while the file is gone or in the daemon's hands.

`RetryInv` gives `DuplicatesAreAccounted`, `StepInv` and `QueueInv` give
`AckedIsInBoth`, `FileInv` and `StepInv` give `SpooledIsNotLost`. The rate limit
is an induction of its own: an insertion adds at most one to a finite set whose
size the guard has just bounded, and a tick only takes rows out of the window.
The refinement needs `IInv` in the two steps that answer a caller:
`HandleAppend` (the event is in the trail) and `HandleRefuse` (it is not, and
will not be).

**Resize.** `IInv` is `TypeOK`; `LockInv` (a script past the lock holds it, so
at most one is); `MainInv` (what the place of that script in its main path says
of the files and daemons that it has changed so far); `RollbackInv` (the same of
the rollback, unless a remote command of it has failed); `AgreementInv` (with
no script at work and nothing left halfway, all agree). `MainInv` is what
`AppliedEverywhere` needs: the verification looks at one file of one host only,
and the rest of the claim is that each earlier command succeeded.

**PodNotify.** Everything is said of `Stored`, what the file holds once the write under
way is done. `LockInv` (the flock is held by whoever is between `flock` and close) makes
a writer unique; `FileInv` ties the rights to the file to who made it, and says that
until the `chmod` it holds subscriptions of its creator's account alone. That is why
`WriteEmpty`, which holds no lock, can undo no other account's subscription, and why a
`PermissionError` never ends a checker that has mailed. `CallInv` says what the checker's
variables hold at each point, `MadeInv` that a `subscribe` past the menu still finds a
number below the bound, `IdInv` that a number belongs to one account, and `NoticeInv`
that a subscription which may still be mailed has had at most one mail for each death
and each fault; a mail then brings it to what `NoticesAccounted` allows. Each of the
three groups of steps (`Opening...`, `Session...`, `Cycle...`) has a lemma for what it
does to the lock, to `Stored` and to the types.

**Launch.** `IInv` is `TypeOK` and `NoJobUnasked` with three parts for each
launch: `AnswerInv` (the log is asked once, and a launch past the gate has its
consent), `RequestInv` (what each stage says of the request, and a request of its
job) and `FolderInv` (a folder that is not shared exists unless its launch was
taken back, and has its script). `FolderInv` is kept by the steps of others
because a launch without a twin shares its folder with nobody, and twins are
never lost: a launch's second does not change. `LostInv` bounds the set of
requests of launches that were reported as failed; `TimeOut` adds at most one to
it, and to `lost`.

**Notebook.** `ScriptInv` ties the script to the queue, the port and the listeners:
a job that is past the scan and was not raced has a port that nobody listens on,
so its watcher cannot have succeeded. `FirstRunInv` says what the folder of a
job that was never requeued can hold: one output, and a marker only of a server
that is up, of a job that is over, or of one that was raced. `CardIsServed` is an
action property; it follows from `IInv` of the state before the card.

**Accounts.** What a script has brought about says nothing once two panels have worked
on its name, so the strengthening `Ind` is said of each name and of who works on it:
`Alone` (two that work on one name have crossed, and neither counts as clean any more),
`Achieved` (from the UID step on, the login node has the UID the script chose; from the
login node's `userdel` on, the GPU host has no account), `CleanSoFar` (what a script
that met no failure has done so far), `UidFollows` and `RowFollows`. A step about one
name leaves all of this alone for the others (`WorkingOthers`), a panel beside the
one that works has only `Alone` to keep (`WorkingBeside`), and what is left is one
lemma for each group of steps (`AddOwn`, ..., `FailureOwn`). `NoForeignUid` is
`UidFollows` with `OneAccountPerUid`: `useradd` on the GPU host refuses only UIDs in use
there. That a UID is free needs that the set of those in use has a maximum (`MaxOf`).

**Login.** `IInv` has three parts besides the types: who may have a session, which
tenants there have been, and which notifications are on their way. `FlagInv` ties the
flag in the row to the initial password, `SeenInv` `last_seen_ip` to a mail that was
sent or was tried, and `NoticeInv` what a session has entered to the state of the
notice; each is an induction of its own over `IInv`.

**Jobs.** `ActsOnShown` relates a list that is replaced, a frame that is stored, a screen
that is painted later and a key that is older than all of these. `FrameIsList` says that
at the key the stored frame is that of the list and the selection, and `ScreenIsFrame` that
the screen of a dashboard that is not `behind` shows the stored frame, and the key was
typed under it; `ReadHistory` and a restart of the display put a dashboard behind, and
only `Paint` with no key waiting and no frame due brings it back. The rest of `IInv` is
`OnlyOwn`, `DrainStage` and the types; `TargetInv` says that whoever acts on a job acts on
one of SLURM's. What one dashboard's steps do to all this is one lemma (`DashboardView`),
and what they leave alone another (`DashboardFrame`). A list is a `SetToSeq`, so the
proof of `EachJobOnce` begins with what that enumerates (`Enumeration`, which is why jobs
are finitely many); `ListInv` says of the middle of a refresh that a job that is not in
the part from `squeue` is over, and so in `sacct`'s or cut from it. A job that is cut
stays so, since jobs that are over stay over and the set of newer ones only grows
(`CutStays`). `CancelIsLogged` and `DrainLeavesOnlyLate` are inductions of their own over
`IInv`; the latter needs `DrainInv`: while the drain is at work, a job that runs is still
to be cancelled or is one that could not be.

**SharedState.** `SerialRegistry` says what a registry holds when nobody saves it,
and `WholeUnlessTorn` that it parses then; neither says anything of a save that is
under way. `IInv` adds that. `StageInv` ties the place of a session to its
operation. `OneSaves`: in a registry that no two saves have used at once, a session
between truncate and close is the only one that has read the entries and not yet
written them, and each session that has read them is going to write its own change
to what the registry should hold; so the copy that was read without the lock is not
stale. `EmptyWhileSaved`: until two dumps can meet, whoever has truncated the file
is alone and the file is empty, so that the dump which lands in it at the close is
the only one. The two notions differ: a file is `disturbed` as soon as two saves
overlap, but `torn` only when its contents are, and `torn \subseteq disturbed` is
part of the invariant. `PipDone` (what pip has left for the smoke check) carries
`VerifiedBeforeListed` from the build to the registration: a session that finds
files changed by another is in `meddled`. `LimitsFresh` is the same thought for the
limits of a QOS: who is going to write has the other limits as they are, unless
somebody has written since; the action property `OtherLimitKept` follows from it in
the state before the write. Steps are taken apart by what they touch: `OneSteps` (a
step moves one session), `RegKept`, `NoSave` and `OtherReg` (a step leaves a
registry, all but the pending saves, or another registry alone), and then one lemma
each for `Load`, `Truncate`, `Close` and `Die`, which is where the invariant is
really at stake.

**Sizing.** Each conjunct of `SizingInv` names in `why` what it rests on, so that
the steps which spoil a size (a stored one, an unanswered `scontrol`, a resize) also
add the reason, and the argument is in the arithmetic: `SizedForIs` says that being
sized by a split is to have `PodResources(n)` times one's pods, `SizedIsSized` and
`ApplyPodsIs` that an edit brings this about for any earlier size, `DefaultIs`,
`TemplateIs` and `RerunIs` what each intake begins with. `RunAgain` is an induction of its
own over it (`RerunStep`): only a rerun sets the script that a launch is compared with, and
an edit clears it. `LaunchesFit` then needs
that `n` shares of a floor division fit (`SharesFit`); the floor of 1 is why it
needs `Fits(pods)`. `PodsSuffice` is about a set of jobs: the sum of their CPUs is
the share times the sum of their pods, and pods that fit make shares that fit. The
sum is `MapThenSumSet`, which is defined by recursion over the set with a `CHOOSE`:
that the recursion has a solution at all (`SumExists`), and then that the two sums
are in proportion (`TotalsAgree`), are shown for the least set that would be a
counterexample. For this `LeastNatural` and `LeastSet` use that `<` and the strict
subsets of a finite set are well founded, which the library states without an
operator parameter.

The safety properties that follow from an inductive invariant are also checked by the
runs, on the same modules; each inductive invariant was checked before it was proved.
Only model-checked are the four liveness properties (`CallsReturn`, `SpoolDrains`,
`WaitEnds`, `WaitReturns`), since fairness is a statement about `ENABLED`, which
the prover does not handle. Every invariant and every action property of a run is a
theorem.

## 14. Where the code and its documents disagree

Each of these states what a document or a comment of the repository says, and TLC
finds it violated within seconds when it is put in the place of the properties of
the configuration named:

| Configuration | Property | What happens |
|---|---|---|
| `AuditKept` | `NeverUnlogged` | `log_or_block` ignores the result of `_spool` (`auditclient.py:127`): an event that can be neither sent nor spooled is nowhere, and the submission goes on, where `README.md:728` says that it is refused |
| `Resize` | `NoResizeUnderJobs` | a job is submitted between the script's queue check, which its comment calls atomic (`resize-pods.sh:58`), and the restart of `slurmctld` |
| `Resize` | `GpuFailureIsRolledBack` | in `rollback()` a failed restart of `slurmctld` ends the script through `set -e`, with the GPU host not restored and neither message printed |
| `Launch` | `NothingEverWill` | a notebook whose `sbatch` was killed after 30 s is reported as failed and its folder removed, since "nothing ever will" run (`wizard.py:929`); `slurmctld` may still accept its job, which is then queued with no folder to start in |
| `PodNotify` | `RemovedOnlyAfterMail` | the checker removes by user what the file holds after the mails, also a subscription made since, which got none (`pod_notify.py:140`) |

Others show as a way out that a passing property names:

- `DataIsKept`: offboarding a name again, as deluser's messages ask for after a
  failure, removes the archive of its data (section 8).
- `KnownIsMailed`: the docstring of `_h_mail_send` has a login mail for each new
  address; a failed one is not repeated, and a person who gets a name again is not
  mailed about the address of the last one.
- `WholeUnlessTorn`: the registries are saved under a lock, and can still end up as
  two dumps (section 11).
- `SpooledIsNotLost`: a drain that reads a spool file between its creation and its
  write cannot parse it and unlinks it (`auditclient.py:94`).
- `CardIsServed`: a card is "guaranteed to be what the job actually bound to"
  (`README.md:308`) but for a port that was lost to another process, a marker
  from before a requeue, and the card after 90 s, which does not wait for the
  server.
- `AuditTrail`'s answer "open": `log_or_block` says that it "returns False if the
  daemon explicitly blocks the action", and a refusal that comes after the
  client's two seconds does not; its event is recorded later, beyond the limit.
- `ActsOnShown`: the dashboard takes a key that was typed under an older frame, during a
  refresh or in the quarter of a second before the new one is painted, against the new
  list (`dashboard.py:663`, `:674`). `c` asks about the job by its number; `e` asks
  nothing, and extends another notebook of the same user than the highlighted one.
- `EachJobOnce`: "recent jobs" are two (`dashboard.py:30`), and are cut before those that
  are live in the other list are taken out (`:553`), so that a job which has just ended
  can be in neither.
- `RerunRepeats`: "Re-run has to mean re-run" (`launchspec.py:181`) and "anything the old
  job actually recorded still wins" (`:186`), but for a venv, for a job of no pods, which
  is run again with one, and for whatever an own script says in a form that
  `_parse_sbatch` does not read: that is replaced by the defaults without a word.
- `LaunchFits`: the ceiling of `validate_sbatch` is that of the number after the last
  colon of `--gres` (`validate.py:320`).
- `GoneIsOver`: "ended before JupyterLab came up" (`wizard.py:404`) is also said of a job
  that is suspended, configuring or between two runs.
- `SpoolDrains`: `auditclient.py` spools what the daemon is to read once it is back, and
  the shipped unit keeps the spool where a stop of the daemon removes it.
- `README.md:302` has the tool wait for the marker of a TensorBoard too; there is
  none, and `launch_tensorboard` does not wait.

## 15. What is not modelled

- Of the submission, the interactive shell (no job file) and the smoke test of
  `setup.py`; of a notebook, the dashboard's own use of the marker.
- Of the daemon, `users.update_email` and `users.reconcile`, each a single write, and
  the verbs that only read.
- Of the admin panel, the single `sacctmgr` writes (`MaxWall`, `Priority`), the
  `gpuusers` group, and the views that print.
- `validate_against_qos`, which only tests call.
- Upload, file manager and path checks: one process and the user's own tree. What
  matters in them is strings, and no two steps of them race.
- `deploy/wizard` and `install.sh`: run by hand by one person; a step that fails is
  repeated as a whole.
- The presentation modules, which keep no state between calls; the contents of JSON,
  of configuration lines and of mails; SLURM's own scheduling; time, but for the
  rate-limit window, a timeout being a step that may come at any moment.

`docs/plans/2026-08-04-audit-daemon-concurrency.md` describes a threaded daemon;
the code has one thread, and the model follows the code.
