------------------------------- MODULE PodNotify -------------------------------
(***************************************************************************)
(* "Notify me when pods are free": users' sessions and a checker that a    *)
(* systemd timer starts share one JSON file of subscriptions               *)
(* (slurmdeck/pod_notify.py).  Reads and writes of the file hold a flock;  *)
(* its creation does not, and neither do the mails between the checker's   *)
(* two critical sections.                                                  *)
(*                                                                         *)
(* A write is a truncate and a flush, so a process that dies in between    *)
(* leaves an empty file.                                                   *)
(***************************************************************************)
EXTENDS Integers, FiniteSets

CONSTANTS
    Session,        \* gateway sessions
    Checker,        \* the process slurm-deck-pod-notify
    Account,        \* user names
    AccountOf,      \* the account a process runs as
    Nobody,         \* no process holds the lock
    Total,          \* pods of the GPU (shard_total)
    MaxMade,        \* bound on made, the subscriptions ever made
    MaxDeaths,      \* bound on deaths
    MaxFaults       \* bound on faults

Process == Session \cup {Checker}

ASSUME NotifyAssumption ==
    /\ Checker \notin Session
    /\ Nobody \notin Process
    /\ \A p \in Process : AccountOf[p] \in Account
    /\ Total \in Nat
    /\ MaxMade \in Nat
    /\ MaxDeaths \in Nat
    /\ MaxFaults \in Nat

VARIABLES
    exists,     \* the file is there
    owner,      \* the process whose account owns it
    shared,     \* its mode is 0666
    subs,       \* its content: each account's subscription
    lock,       \* holder of the flock
    call,       \* the call each process has made
    at,         \* where in that call it is
    buf,        \* what the holder of the lock is about to write
    seen,       \* get_subscription's answer to each session
    free,       \* pods that are free now
    freeSeen,   \* pods that were free when the checker looked
    candidates, \* subscriptions the checker has still to mail
    sent,       \* accounts the checker has mailed in this cycle
    made,       \* subscriptions made so far
    notices,    \* history: how often each subscription was mailed
    deaths,     \* processes that died
    faults      \* mails whose result was not what the checker was told

fileVars == <<exists, owner, shared, subs>>
checkerVars == <<freeSeen, candidates, sent, notices, faults>>
vars == <<exists, owner, shared, subs, lock, call, at, buf, seen, free, freeSeen,
          candidates, sent, made, notices, deaths, faults>>

-------------------------------------------------------------------------------
NoSub == [id |-> 0, wanted |-> 0]
Subscription == [id : 1..MaxMade, wanted : 1..Total]
Content == [Account -> Subscription \cup {NoSub}]
Empty == [u \in Account |-> NoSub]

(* "read" and "remove" are the checker's two critical sections.            *)
Calls == {"none", "get", "subscribe", "unsubscribe", "read", "mail", "remove"}
Points == {"out", "open", "create", "chmod", "flock", "locked", "write"}

TypeOK ==
    /\ exists \in BOOLEAN
    /\ owner \in Process
    /\ shared \in BOOLEAN
    /\ subs \in Content
    /\ lock \in Process \cup {Nobody}
    /\ call \in [Process -> Calls]
    /\ at \in [Process -> Points]
    /\ buf \in Content
    /\ seen \in [Session -> Subscription \cup {NoSub}]
    /\ free \in 0..Total
    /\ freeSeen \in 0..Total
    /\ candidates \in Content
    /\ sent \subseteq Account
    /\ made \in 0..MaxMade
    /\ notices \in [1..MaxMade -> 0..(1 + MaxDeaths + MaxFaults)]
    /\ deaths \in 0..MaxDeaths
    /\ faults \in 0..MaxFaults

Init ==
    /\ exists = FALSE
    /\ owner = Checker
    /\ shared = FALSE
    /\ subs = Empty
    /\ lock = Nobody
    /\ call = [p \in Process |-> "none"]
    /\ at = [p \in Process |-> "out"]
    /\ buf = Empty
    /\ seen = [s \in Session |-> NoSub]
    /\ free \in 0..Total
    /\ freeSeen = 0
    /\ candidates = Empty
    /\ sent = {}
    /\ made = 0
    /\ notices = [i \in 1..MaxMade |-> 0]
    /\ deaths = 0
    /\ faults = 0

-------------------------------------------------------------------------------
(* _open_locked().                                                         *)

Move(p, from, to) == at[p] = from /\ at' = [at EXCEPT ![p] = to]

Begin(p, c) ==
    /\ at[p] = "out"
    /\ call' = [call EXCEPT ![p] = c]
    /\ at' = [at EXCEPT ![p] = "open"]

Finish(p, c) ==
    /\ call' = [call EXCEPT ![p] = c]
    /\ at' = [at EXCEPT ![p] = "out"]

(* The call is over; the local variables of check_and_notify are gone.     *)
Return(p) ==
    /\ Finish(p, "none")
    /\ \/ p # Checker /\ UNCHANGED checkerVars
       \/ /\ p = Checker
          /\ freeSeen' = 0
          /\ candidates' = Empty
          /\ sent' = {}
          /\ UNCHANGED <<notices, faults>>

CanWrite(p) == shared \/ AccountOf[owner] = AccountOf[p]

(* The file is not there: it is created, with the umask's mode.            *)
Create(p) ==
    /\ ~exists
    /\ Move(p, "open", "create")
    /\ exists' = TRUE
    /\ owner' = p
    /\ UNCHANGED <<shared, subs, lock, call, buf, seen, free, checkerVars, made, deaths>>

(* "[]" reaches the file when it is closed.  Over a file that has got      *)
(* longer meanwhile it leaves JSON that does not parse, read as [].        *)
WriteEmpty(p) ==
    /\ Move(p, "create", "chmod")
    /\ subs' = Empty
    /\ UNCHANGED <<exists, owner, shared, lock, call, buf, seen, free, checkerVars, made, deaths>>

Chmod(p) ==
    /\ Move(p, "chmod", "flock")
    /\ shared' = TRUE
    /\ UNCHANGED <<exists, owner, subs, lock, call, buf, seen, free, checkerVars, made, deaths>>

Open(p) ==
    /\ exists
    /\ \/ /\ CanWrite(p)
          /\ Move(p, "open", "flock")
          /\ UNCHANGED <<call, checkerVars>>
       \/ /\ ~CanWrite(p)           \* PermissionError
          /\ at[p] = "open"
          /\ Return(p)
    /\ UNCHANGED <<fileVars, lock, buf, seen, free, made, deaths>>

\* Mutant: the file is read and written without the flock.
BadFlock(p) ==
    /\ Move(p, "flock", "locked")
    /\ lock' = p
    /\ UNCHANGED <<fileVars, call, buf, seen, free, checkerVars, made, deaths>>

Flock(p) ==
    /\ lock = Nobody
    /\ Move(p, "flock", "locked")
    /\ lock' = p
    /\ UNCHANGED <<fileVars, call, buf, seen, free, checkerVars, made, deaths>>

(* seek, truncate: from here to the flush the file is empty.               *)
Truncate(p, content) ==
    /\ Move(p, "locked", "write")
    /\ buf' = content
    /\ subs' = Empty

(* dump, flush, fsync; the end of the with block closes and unlocks.       *)
Write(p) ==
    /\ at[p] = "write"
    /\ subs' = buf
    /\ buf' = Empty
    /\ lock' = Nobody
    /\ Return(p)
    /\ UNCHANGED <<exists, owner, shared, seen, free, made, deaths>>

-------------------------------------------------------------------------------
(* The sessions: _notify_menu asks for the user's subscription first.      *)

BeginGet(s) ==
    /\ free < Total
    /\ Begin(s, "get")
    /\ seen' = [seen EXCEPT ![s] = NoSub]
    /\ UNCHANGED <<fileVars, lock, buf, free, checkerVars, made, deaths>>

Get(s) ==
    /\ call[s] = "get" /\ at[s] = "locked"
    /\ seen' = [seen EXCEPT ![s] = subs[AccountOf[s]]]
    /\ lock' = Nobody
    /\ at' = [at EXCEPT ![s] = "out"]
    /\ UNCHANGED <<fileVars, call, buf, free, checkerVars, made, deaths>>

(* The user is looking at the menu after a get that returned.              *)
AtMenu(s) == call[s] = "get" /\ at[s] = "out"

(* The bound counts the calls that have still to allocate.                 *)
Pending == Cardinality({s \in Session : call[s] = "subscribe" /\ at[s] # "write"})

BeginSubscribe(s) ==
    /\ AtMenu(s)
    /\ made + Pending < MaxMade
    /\ Begin(s, "subscribe")
    /\ seen' = [seen EXCEPT ![s] = NoSub]
    /\ UNCHANGED <<fileVars, lock, buf, free, checkerVars, made, deaths>>

BeginUnsubscribe(s) ==
    /\ AtMenu(s)
    /\ seen[s] # NoSub
    /\ Begin(s, "unsubscribe")
    /\ seen' = [seen EXCEPT ![s] = NoSub]
    /\ UNCHANGED <<fileVars, lock, buf, free, checkerVars, made, deaths>>

Subscribe(s) ==
    /\ call[s] = "subscribe"
    /\ made' = made + 1
    /\ \E k \in 1..Total :
          Truncate(s, [subs EXCEPT ![AccountOf[s]] = [id |-> made + 1, wanted |-> k]])
    /\ UNCHANGED <<exists, owner, shared, lock, call, seen, free, checkerVars, deaths>>

Unsubscribe(s) ==
    /\ call[s] = "unsubscribe"
    /\ subs[AccountOf[s]] # NoSub
    /\ Truncate(s, [subs EXCEPT ![AccountOf[s]] = NoSub])
    /\ UNCHANGED <<exists, owner, shared, lock, call, seen, free, checkerVars, made, deaths>>

(* Nothing to remove: nothing is written.                                  *)
UnsubscribeNothing(s) ==
    /\ call[s] = "unsubscribe" /\ at[s] = "locked"
    /\ subs[AccountOf[s]] = NoSub
    /\ lock' = Nobody
    /\ Finish(s, "none")
    /\ UNCHANGED <<fileVars, buf, seen, free, checkerVars, made, deaths>>

-------------------------------------------------------------------------------
(* The checker.                                                            *)

BeginCheck ==
    /\ call[Checker] = "none"
    /\ Begin(Checker, "read")
    /\ freeSeen' = free
    /\ UNCHANGED <<fileVars, lock, buf, seen, free, candidates, sent, made, notices, deaths, faults>>

\* Mutant: a threshold is met only by more pods than it asks for.
BadRead ==
    /\ call[Checker] = "read" /\ at[Checker] = "locked"
    /\ candidates' = [u \in Account |->
          IF subs[u] # NoSub /\ freeSeen > subs[u].wanted THEN subs[u] ELSE NoSub]
    /\ freeSeen' = 0
    /\ lock' = Nobody
    /\ Finish(Checker, IF candidates' = Empty THEN "none" ELSE "mail")
    /\ UNCHANGED <<fileVars, buf, seen, free, sent, made, notices, deaths, faults>>

Read ==
    /\ call[Checker] = "read" /\ at[Checker] = "locked"
    /\ candidates' = [u \in Account |->
          IF subs[u] # NoSub /\ freeSeen >= subs[u].wanted THEN subs[u] ELSE NoSub]
    /\ freeSeen' = 0
    /\ lock' = Nobody
    /\ Finish(Checker, IF candidates' = Empty THEN "none" ELSE "mail")
    /\ UNCHANGED <<fileVars, buf, seen, free, sent, made, notices, deaths, faults>>

Notice(u) == notices' = [notices EXCEPT ![candidates[u].id] = @ + 1]

\* Mutant: a mail that was sent is not noted, and its subscription stays.
BadMail(u) ==
    /\ call[Checker] = "mail"
    /\ candidates[u] # NoSub
    /\ candidates' = [candidates EXCEPT ![u] = NoSub]
    /\ Notice(u)
    /\ UNCHANGED <<fileVars, lock, call, at, buf, seen, free, freeSeen, sent, made, deaths, faults>>

(* send_pod_available_notice returns True.                                 *)
Mail(u) ==
    /\ call[Checker] = "mail"
    /\ candidates[u] # NoSub
    /\ candidates' = [candidates EXCEPT ![u] = NoSub]
    /\ sent' = sent \cup {u}
    /\ Notice(u)
    /\ UNCHANGED <<fileVars, lock, call, at, buf, seen, free, freeSeen, made, deaths, faults>>

(* It returns False: the mail was not sent, or its answer came too late.   *)
MailFails(u) ==
    /\ call[Checker] = "mail"
    /\ candidates[u] # NoSub
    /\ faults < MaxFaults
    /\ faults' = faults + 1
    /\ candidates' = [candidates EXCEPT ![u] = NoSub]
    /\ Notice(u) \/ UNCHANGED notices
    /\ UNCHANGED <<fileVars, lock, call, at, buf, seen, free, freeSeen, sent, made, deaths>>

(* It returns True for a mail that was not sent: an admin switched mail    *)
(* off after the client looked at the switch and before the daemon did.    *)
MailSwitchedOff(u) ==
    /\ call[Checker] = "mail"
    /\ candidates[u] # NoSub
    /\ faults < MaxFaults
    /\ faults' = faults + 1
    /\ candidates' = [candidates EXCEPT ![u] = NoSub]
    /\ sent' = sent \cup {u}
    /\ UNCHANGED <<fileVars, lock, call, at, buf, seen, free, freeSeen, made, notices, deaths>>

EndMail ==
    /\ call[Checker] = "mail"
    /\ candidates = Empty
    /\ IF sent = {} THEN Finish(Checker, "none") ELSE Begin(Checker, "remove")
    /\ UNCHANGED <<fileVars, lock, buf, seen, free, checkerVars, made, deaths>>

\* Mutant: the accounts that were not mailed are removed too.
BadRemove ==
    /\ call[Checker] = "remove"
    /\ Truncate(Checker, Empty)
    /\ UNCHANGED <<exists, owner, shared, lock, call, seen, free, checkerVars, made, deaths>>

(* The file is read again, and what it has for the mailed accounts goes.   *)
Remove ==
    /\ call[Checker] = "remove"
    /\ Truncate(Checker, [u \in Account |-> IF u \in sent THEN NoSub ELSE subs[u]])
    /\ UNCHANGED <<exists, owner, shared, lock, call, seen, free, checkerVars, made, deaths>>

-------------------------------------------------------------------------------
(* A session is killed, or the checker is: its lock is released, and what  *)
(* it has not flushed is lost.                                             *)
Die(p) ==
    /\ at[p] # "out" \/ call[p] = "mail"
    /\ deaths < MaxDeaths
    /\ deaths' = deaths + 1
    /\ lock' = IF lock = p THEN Nobody ELSE lock
    /\ buf' = IF lock = p THEN Empty ELSE buf
    /\ Return(p)
    /\ UNCHANGED <<fileVars, seen, free, made>>

(* Jobs start and end.                                                     *)
Pods ==
    /\ free' \in (0..Total) \ {free}
    /\ UNCHANGED <<fileVars, lock, call, at, buf, seen, checkerVars, made, deaths>>

OpenLocked(p) == Create(p) \/ WriteEmpty(p) \/ Chmod(p) \/ Open(p)

SessionStep(s) ==
    \/ BeginGet(s)
    \/ Get(s)
    \/ BeginSubscribe(s)
    \/ BeginUnsubscribe(s)
    \/ Subscribe(s)
    \/ Unsubscribe(s)
    \/ UnsubscribeNothing(s)

Cycle ==
    \/ BeginCheck
    \/ Read
    \/ \E u \in Account : Mail(u) \/ MailFails(u) \/ MailSwitchedOff(u)
    \/ EndMail
    \/ Remove

Next ==
    \/ \E p \in Process : OpenLocked(p) \/ Flock(p) \/ Write(p) \/ Die(p)
    \/ \E s \in Session : SessionStep(s)
    \/ Cycle
    \/ Pods

Spec == Init /\ [][Next]_vars

(* The timer starts the checker again and again; a process that is in      *)
(* pod_notify goes on; a process that waits for the flock gets it sooner   *)
(* or later.  A user need not come back to the menu.                       *)
Fairness ==
    /\ \A p \in Process :
          /\ WF_vars(OpenLocked(p) \/ Write(p))
          /\ SF_vars(Flock(p))
    /\ \A s \in Session : WF_vars(Get(s) \/ Subscribe(s) \/ Unsubscribe(s) \/ UnsubscribeNothing(s))
    /\ WF_vars(Cycle)

FairSpec == Spec /\ Fairness

-------------------------------------------------------------------------------
(* Properties.                                                             *)

(* What the file holds once the write under way is done.                   *)
Stored == IF \E p \in Process : at[p] = "write" THEN buf ELSE subs

Moves(p) == <<call'[p], at'[p]>> # <<call[p], at[p]>>
OwnStep(u) ==
    \E p \in Process : AccountOf[p] = u /\ Moves(p) /\ (p \in Session \/ at[p] = "create")

(* A subscription leaves the file, or is replaced in it, only in a step of *)
(* a process of its own account, by the checker after a mail to its user,  *)
(* or in the death of a process between truncate and flush: no other       *)
(* session's subscribe or unsubscribe, at any moment of the checker's      *)
(* cycle or of the file's creation, undoes it.                             *)
OthersKeepSubscription ==
    [][\A u \in Account :
          Stored[u] # NoSub /\ Stored'[u] # Stored[u] =>
              \/ OwnStep(u)
              \/ call[Checker] = "remove" /\ u \in sent
              \/ \E p \in Process : at[p] = "write" /\ Die(p)]_vars

(* "One notification per subscription": a second mail for one subscription *)
(* takes a checker that died before the removal, or a mail that was        *)
(* delivered and reported as failed.                                       *)
NoticesAccounted == \A i \in 1..MaxMade : notices[i] <= 1 + deaths + faults

(* The types and NoticesAccounted (check_and_notify).                      *)
Inv == TypeOK /\ NoticesAccounted

(* A subscription whose pods stay free does not wait for ever: the checker *)
(* gets its turn at the lock twice, serves it and removes it, through      *)
(* failed mails and deaths, unless the one who created the file died       *)
(* before its chmod.                                                       *)
Waiting(u) == Stored[u] # NoSub /\ free >= Stored[u].wanted
Unshared == exists /\ ~shared
WaitEnds == \A u \in Account : []<>~Waiting(u) \/ <>[]Unshared

(* pod_notify.py:4-9, "the first time a subscription's threshold is met,   *)
(* emails the user and removes the subscription": what the checker removes *)
(* it has mailed.  It does not hold (the README here says more), and no    *)
(* run checks it.                                                          *)
RemovedOnlyAfterMail ==
    [][\A u \in Account :
          Remove /\ subs[u] # NoSub /\ buf'[u] = NoSub => notices[subs[u].id] > 0]_vars
===============================================================================
