---------------------------- MODULE PodNotifyProofs ----------------------------
(***************************************************************************)
(* The inductive invariants of PodNotify and what follows from them, for   *)
(* every number of sessions, accounts, pods, deaths and failed mails.      *)
(***************************************************************************)
EXTENDS PodNotify, FiniteSetTheorems, TLAPS

(* The flock is held by who is between flock and close.                    *)
LockInv == \A p \in Process : lock = p <=> at[p] \in {"locked", "write"}

(* Who is past open may write the file, its creator until the chmod alone, *)
(* and what is in it until then is the creator's.                          *)
FileInv ==
    /\ \A p \in Process :
          /\ at[p] \notin {"out", "open"} => exists /\ CanWrite(p)
          /\ at[p] \in {"create", "chmod"} => owner = p /\ ~shared
          /\ at[p] = "write" => subs = Empty
    /\ call[Checker] \in {"mail", "remove"} => exists /\ CanWrite(Checker)
    /\ ~exists => ~shared /\ subs = Empty
    /\ ~shared => \A u \in Account : Stored[u] # NoSub => u = AccountOf[owner]

(* What the place of a call says of the checker's local variables.         *)
CallInv ==
    /\ \A s \in Session : call[s] \in {"none", "get", "subscribe", "unsubscribe"}
    /\ call[Checker] \in {"none", "read", "mail", "remove"}
    /\ \A p \in Process : call[p] \in {"none", "mail"} => at[p] = "out"
    /\ call[Checker] # "mail" => candidates = Empty
    /\ call[Checker] \in {"none", "read"} => sent = {}
    /\ at[Checker] = "write" => call[Checker] = "remove" /\ \A u \in sent : buf[u] = NoSub

(* The calls that have still to allocate a subscription fit the bound.     *)
Allocating == {s \in Session : call[s] = "subscribe" /\ at[s] # "write"}
MadeInv == IsFiniteSet(Allocating) /\ made + Cardinality(Allocating) <= MaxMade

(* A subscription is its user's, and was made.                             *)
Known(u) == {Stored[u].id, candidates[u].id}
IdInv ==
    /\ \A u \in Account : \A i \in Known(u) : i <= made
    /\ \A u, w \in Account : u # w => \A i \in Known(u) \cap Known(w) : i = 0

(* One that the checker may still mail has had one mail less.              *)
NoticeInv ==
    /\ \A i \in 1..MaxMade : i > made => notices[i] = 0
    /\ \A u \in Account : candidates[u] # NoSub => notices[candidates[u].id] <= deaths + faults
    /\ \A u \in Account \ sent : Stored[u] # NoSub => notices[Stored[u].id] <= deaths + faults

Writing == \E p \in Process : at[p] = "write"

Ind == Inv /\ LockInv /\ FileInv /\ CallInv /\ MadeInv /\ IdInv /\ NoticeInv

LEMMA Bounds ==
    /\ Total \in Nat /\ MaxMade \in Nat /\ MaxDeaths \in Nat /\ MaxFaults \in Nat
    /\ Checker \in Process /\ Checker \notin Session /\ Session \subseteq Process
    /\ Nobody \notin Process /\ \A p \in Process : AccountOf[p] \in Account
BY NotifyAssumption DEF NotifyAssumption, Process

(* Subscriptions are told from none by their number.                       *)
Sub == Subscription \cup {NoSub}

LEMMA SubFacts ==
    ASSUME NEW x \in Sub
    PROVE  x.id \in 0..MaxMade /\ (x = NoSub <=> x.id = 0)
BY Bounds DEF Sub, Subscription, NoSub

LEMMA EmptyContent == Empty \in Content /\ \A u \in Account : Empty[u] = NoSub
BY DEF Empty, Content

LEMMA ContentFacts ==
    ASSUME NEW c \in Content, NEW u \in Account
    PROVE  /\ c[u] \in Sub
           /\ \A x \in Sub : [c EXCEPT ![u] = x] \in Content
BY DEF Content, Sub

LEMMA StoredIs ==
    /\ Writing => Stored = buf
    /\ ~Writing => Stored = subs
BY DEF Writing, Stored

LEMMA InitInd == Init => Ind
<1> SUFFICES ASSUME Init PROVE Ind
    OBVIOUS
<1> USE Bounds
<1>1. ~Writing /\ Stored = Empty
    BY StoredIs DEF Init, Writing
<1>2. TypeOK
    <2>1. /\ call \in [Process -> Calls] /\ at \in [Process -> Points]
          /\ seen \in [Session -> Subscription \cup {NoSub}]
        BY DEF Init, Calls, Points
    <2>2. notices \in [1..MaxMade -> 0..(1 + MaxDeaths + MaxFaults)]
        BY DEF Init
    <2>3. /\ freeSeen \in 0..Total /\ made \in 0..MaxMade /\ deaths \in 0..MaxDeaths
          /\ faults \in 0..MaxFaults
        BY DEF Init
    <2>4. QED
        BY <2>1, <2>2, <2>3, EmptyContent DEF Init, TypeOK
<1>3. NoticesAccounted
    BY DEF Init, NoticesAccounted
<1>4. LockInv
    BY DEF Init, LockInv
<1>5. FileInv
    BY <1>1, EmptyContent DEF Init, FileInv
<1>6. CallInv
    BY DEF Init, CallInv
<1>7. MadeInv
    <2>1. Allocating = {}
        BY DEF Init, Allocating
    <2>2. QED
        BY <2>1, FS_EmptySet DEF Init, MadeInv
<1>8. IdInv
    <2>1. \A u \in Account : Known(u) = {0}
        BY <1>1, EmptyContent DEF Init, Known, NoSub
    <2>2. QED
        BY <2>1 DEF Init, IdInv
<1>9. NoticeInv
    BY <1>1, EmptyContent DEF Init, NoticeInv
<1>10. QED
    BY <1>2, <1>3, <1>4, <1>5, <1>6, <1>7, <1>8, <1>9 DEF Ind, Inv

-------------------------------------------------------------------------------
(* Where a step takes a process.                                           *)

(* p goes to the point x of the call c, and no other process moves.        *)
Goes(p, c, x) ==
    /\ call' \in [Process -> Calls] /\ at' \in [Process -> Points]
    /\ call'[p] = c /\ at'[p] = x
    /\ \A q \in Process : q # p => call'[q] = call[q] /\ at'[q] = at[q]

LEMMA MoveGoes ==
    ASSUME TypeOK, NEW p \in Process, NEW from \in Points, NEW to \in Points,
           Move(p, from, to), call' = call
    PROVE  Goes(p, call[p], to) /\ at[p] = from
BY DEF TypeOK, Move, Goes

LEMMA BeginGoes ==
    ASSUME TypeOK, NEW p \in Process, NEW c \in Calls, Begin(p, c)
    PROVE  Goes(p, c, "open") /\ at[p] = "out"
BY DEF TypeOK, Begin, Goes, Points

LEMMA FinishGoes ==
    ASSUME TypeOK, NEW p \in Process, NEW c \in Calls, Finish(p, c)
    PROVE  Goes(p, c, "out")
BY DEF TypeOK, Finish, Goes, Points

LEMMA ReturnGoes ==
    ASSUME TypeOK, NEW p \in Process, Return(p)
    PROVE  Goes(p, "none", "out")
BY FinishGoes DEF Return, Calls

Unheld == {"out", "open", "create", "chmod", "flock"}
SessionCalls == {"none", "get", "subscribe", "unsubscribe"}
CheckerCalls == {"none", "read", "mail", "remove"}
CallsOf(p) == IF p = Checker THEN CheckerCalls ELSE SessionCalls

(* What a step does to the flock, and where it takes who took it.          *)
Keeps(p) ==
    /\ at[p] \in Unheld /\ at'[p] \in Unheld /\ lock' = lock
    /\ at'[p] = "create" => Create(p)
    /\ at'[p] = "chmod" => at[p] = "create"
    /\ at'[p] = "flock" => at[p] = "chmod" \/ (exists /\ CanWrite(p))
Locks(p) == at[p] = "flock" /\ at'[p] = "locked" /\ lock = Nobody /\ lock' = p
Holds(p) == at[p] = "locked" /\ at'[p] = "write" /\ lock' = lock /\ subs' = Empty
Releases(p) == at[p] \in {"locked", "write"} /\ at'[p] = "out" /\ lock' = Nobody

Shaped(p) ==
    /\ call' \in [Process -> Calls] /\ at' \in [Process -> Points]
    /\ \A q \in Process : q # p => call'[q] = call[q] /\ at'[q] = at[q]
    /\ call'[p] \in CallsOf(p)
    /\ call'[p] \in {"none", "mail"} => at'[p] = "out"
    /\ call'[p] = "subscribe" => BeginSubscribe(p) \/ (call[p] = "subscribe" /\ at[p] # "write")
    /\ Keeps(p) \/ Locks(p) \/ Holds(p) \/ Releases(p)

LEMMA Placed ==
    ASSUME Ind, NEW p \in Process
    PROVE  /\ lock = p <=> at[p] \in {"locked", "write"}
           /\ at[p] \in Points
           /\ call[p] \in CallsOf(p)
           /\ call[p] \in {"none", "mail"} => at[p] = "out"
BY Bounds DEF Ind, Inv, TypeOK, LockInv, CallInv, CallsOf, CheckerCalls, SessionCalls, Process

LEMMA OpeningShape ==
    ASSUME Ind, NEW p \in Process, OpenLocked(p) \/ Flock(p) \/ Write(p) \/ Die(p)
    PROVE  Shaped(p)
<1>0. /\ TypeOK /\ at[p] \in Points
      /\ lock = p <=> at[p] \in {"locked", "write"}
      /\ call[p] \in CallsOf(p) /\ (call[p] \in {"none", "mail"} => at[p] = "out")
    BY Placed DEF Ind, Inv
<1>9. "none" \in CallsOf(p)
    BY DEF CallsOf, CheckerCalls, SessionCalls
<1> USE <1>0, <1>9 DEF Shaped, Unheld, Points
<1>1. CASE Create(p)
    <2>1. Goes(p, call[p], "create") /\ at[p] = "open" /\ lock' = lock
        BY <1>1, MoveGoes DEF Create
    <2>2. QED
        BY <1>1, <2>1 DEF Goes, Keeps
<1>2. CASE WriteEmpty(p)
    <2>1. Goes(p, call[p], "chmod") /\ at[p] = "create" /\ lock' = lock
        BY <1>2, MoveGoes DEF WriteEmpty
    <2>2. QED
        BY <2>1 DEF Goes, Keeps
<1>3. CASE Chmod(p)
    <2>1. Goes(p, call[p], "flock") /\ at[p] = "chmod" /\ lock' = lock
        BY <1>3, MoveGoes DEF Chmod
    <2>2. QED
        BY <2>1 DEF Goes, Keeps
<1>4. CASE Open(p)
    <2>1. at[p] = "open" /\ lock' = lock
        BY <1>4 DEF Open, Move
    <2>2. CASE exists /\ CanWrite(p) /\ Move(p, "open", "flock") /\ UNCHANGED call
        <3>1. Goes(p, call[p], "flock")
            BY <2>2, MoveGoes
        <3>2. QED
            BY <2>1, <2>2, <3>1 DEF Goes, Keeps
    <2>3. CASE Return(p)
        <3>1. Goes(p, "none", "out")
            BY <2>3, ReturnGoes
        <3>2. QED
            BY <2>1, <3>1 DEF Goes, Keeps
    <2>4. QED
        BY <1>4, <2>2, <2>3 DEF Open
<1>5. CASE Flock(p)
    <2>1. Goes(p, call[p], "locked") /\ at[p] = "flock" /\ lock = Nobody /\ lock' = p
        BY <1>5, MoveGoes DEF Flock
    <2>2. QED
        BY <2>1 DEF Goes, Locks
<1>6. CASE Write(p)
    <2>1. Goes(p, "none", "out") /\ at[p] = "write" /\ lock' = Nobody
        BY <1>6, ReturnGoes DEF Write
    <2>2. QED
        BY <2>1 DEF Goes, Releases
<1>7. CASE Die(p)
    <2>1. Goes(p, "none", "out") /\ lock' = IF lock = p THEN Nobody ELSE lock
        BY <1>7, ReturnGoes DEF Die
    <2>2. QED
        BY <2>1 DEF Goes, Keeps, Releases
<1>8. QED
    BY <1>1, <1>2, <1>3, <1>4, <1>5, <1>6, <1>7 DEF OpenLocked

LEMMA SessionShape == ASSUME Ind, NEW p \in Session, SessionStep(p) PROVE Shaped(p)
<1>0. /\ TypeOK /\ p \in Process /\ CallsOf(p) = SessionCalls
      /\ call[p] \in SessionCalls /\ (call[p] \in {"none", "mail"} => at[p] = "out")
    BY Bounds, Placed DEF Ind, Inv, CallsOf
<1> USE DEF Shaped, Unheld, Points, Calls
<1>1. CASE BeginGet(p) \/ BeginSubscribe(p) \/ BeginUnsubscribe(p)
    <2>1. PICK c \in {"get", "subscribe", "unsubscribe"} :
             /\ Begin(p, c) /\ lock' = lock
             /\ c = "subscribe" => BeginSubscribe(p)
        BY <1>1 DEF BeginGet, BeginSubscribe, BeginUnsubscribe
    <2>2. at[p] = "out" /\ Goes(p, c, "open")
        BY <1>0, <2>1, BeginGoes
    <2>3. QED
        BY <1>0, <2>1, <2>2 DEF Goes, Keeps, SessionCalls
<1>2. CASE Get(p)
    <2>1. /\ at[p] = "locked" /\ call[p] = "get" /\ lock' = Nobody
          /\ at' = [at EXCEPT ![p] = "out"] /\ call' = call
        BY <1>2 DEF Get
    <2>2. QED
        BY <1>0, <2>1 DEF TypeOK, Releases
<1>3. CASE UnsubscribeNothing(p)
    <2>1. at[p] = "locked" /\ lock' = Nobody /\ Goes(p, "none", "out")
        BY <1>0, <1>3, FinishGoes DEF UnsubscribeNothing
    <2>2. QED
        BY <1>0, <2>1 DEF Goes, Releases, SessionCalls
<1>4. CASE Subscribe(p) \/ Unsubscribe(p)
    <2>1. Move(p, "locked", "write") /\ lock' = lock /\ call' = call /\ subs' = Empty
        BY <1>4 DEF Subscribe, Unsubscribe, Truncate
    <2>2. Goes(p, call[p], "write") /\ at[p] = "locked"
        BY <1>0, <2>1, MoveGoes
    <2>3. QED
        BY <1>0, <2>1, <2>2 DEF Goes, Holds
<1>5. QED
    BY <1>1, <1>2, <1>3, <1>4 DEF SessionStep

LEMMA CycleShape ==
    ASSUME Ind, Cycle
    PROVE  Shaped(Checker) \/ UNCHANGED <<call, at, lock>>
<1>0. /\ TypeOK /\ CallInv /\ Checker \in Process /\ CallsOf(Checker) = CheckerCalls
      /\ call[Checker] \in CheckerCalls
      /\ call[Checker] \in {"none", "mail"} => at[Checker] = "out"
    BY Bounds, Placed DEF Ind, Inv, CallsOf
<1> USE DEF Shaped, Unheld, Points, Calls
<1>1. CASE BeginCheck
    <2>1. at[Checker] = "out" /\ lock' = lock /\ Goes(Checker, "read", "open")
        BY <1>0, <1>1, BeginGoes DEF BeginCheck
    <2>2. QED
        BY <1>0, <2>1 DEF Goes, Keeps, CheckerCalls
<1>2. CASE Read
    <2>1. PICK c \in {"none", "mail"} : Finish(Checker, c)
        BY <1>2 DEF Read
    <2>2. at[Checker] = "locked" /\ lock' = Nobody /\ Goes(Checker, c, "out")
        BY <1>0, <1>2, <2>1, FinishGoes DEF Read
    <2>3. QED
        BY <1>0, <2>2 DEF Goes, Releases, CheckerCalls
<1>3. CASE \E u \in Account : Mail(u) \/ MailFails(u) \/ MailSwitchedOff(u)
    BY <1>3 DEF Mail, MailFails, MailSwitchedOff
<1>4. CASE EndMail
    <2>1. at[Checker] = "out" /\ lock' = lock
        BY <1>0, <1>4 DEF EndMail, CallInv
    <2>2. Goes(Checker, "none", "out") \/ Goes(Checker, "remove", "open")
        BY <1>0, <1>4, FinishGoes, BeginGoes DEF EndMail
    <2>3. QED
        BY <1>0, <2>1, <2>2 DEF Goes, Keeps, CheckerCalls
<1>5. CASE Remove
    <2>1. Move(Checker, "locked", "write") /\ lock' = lock /\ call' = call /\ subs' = Empty
        BY <1>5 DEF Remove, Truncate
    <2>2. Goes(Checker, call[Checker], "write") /\ at[Checker] = "locked"
        BY <1>0, <2>1, MoveGoes
    <2>3. QED
        BY <1>0, <2>1, <2>2 DEF Goes, Holds
<1>6. QED
    BY <1>1, <1>2, <1>3, <1>4, <1>5 DEF Cycle

LEMMA NextShape ==
    ASSUME Ind, [Next]_vars
    PROVE  (\E p \in Process : Shaped(p)) \/ UNCHANGED <<call, at, lock>>
BY OpeningShape, SessionShape, CycleShape, Bounds DEF Next, Pods, vars

LEMMA NextLock == ASSUME Ind, [Next]_vars PROVE LockInv'
<1>0. LockInv /\ Nobody \notin Process
    BY Bounds DEF Ind
<1>1. ASSUME NEW p \in Process, Shaped(p) PROVE LockInv'
    <2>1. SUFFICES ASSUME NEW q \in Process
                   PROVE  lock' = q <=> at'[q] \in {"locked", "write"}
        BY DEF LockInv
    <2>2. /\ lock = q <=> at[q] \in {"locked", "write"}
          /\ lock = p <=> at[p] \in {"locked", "write"}
          /\ q # p => at'[q] = at[q]
        BY <1>0, <1>1 DEF LockInv, Shaped
    <2>3. Keeps(p) \/ Locks(p) \/ Holds(p) \/ Releases(p)
        BY <1>1 DEF Shaped
    <2>4. QED
        BY <1>0, <2>2, <2>3 DEF Keeps, Locks, Holds, Releases, Unheld
<1>2. CASE UNCHANGED <<call, at, lock>>
    BY <1>0, <1>2 DEF LockInv
<1>3. QED
    BY <1>1, <1>2, NextShape
-------------------------------------------------------------------------------
(* What a step does to the content of the file.                            *)

(* Two processes do not hold the flock.                                    *)
LEMMA Alone ==
    ASSUME Ind, NEW p \in Process, NEW q \in Process,
           at[p] \in {"locked", "write"}, at[q] \in {"locked", "write"}
    PROVE  p = q
BY DEF Ind, LockInv

(* Who holds it and does not write yet finds what is stored.               *)
LEMMA LockedStored ==
    ASSUME Ind, NEW p \in Process, at[p] = "locked"
    PROVE  ~Writing /\ Stored = subs
BY Alone, StoredIs DEF Writing

LEMMA WriterStored ==
    ASSUME Ind, NEW p \in Process, at[p] = "write"
    PROVE  Stored = buf /\ \A q \in Process : at[q] = "write" => q = p
BY Alone, StoredIs DEF Writing

LEMMA SameStored ==
    ASSUME \A p \in Process : at'[p] = "write" <=> at[p] = "write",
           subs' = subs, Writing => buf' = buf
    PROVE  Stored' = Stored
BY DEF Writing, Stored

LEMMA TruncateStored ==
    ASSUME Ind, NEW p \in Process, NEW c, Truncate(p, c)
    PROVE  at[p] = "locked" /\ Stored = subs /\ Stored' = c /\ subs' = Empty /\ buf' = c
<1>1. at[p] = "locked" /\ at' = [at EXCEPT ![p] = "write"] /\ buf' = c /\ subs' = Empty
    BY DEF Truncate, Move
<1>2. at'[p] = "write"
    BY <1>1 DEF Ind, Inv, TypeOK
<1>3. QED
    BY <1>1, <1>2, LockedStored DEF Stored

LEMMA OpeningStored ==
    ASSUME Ind, NEW p \in Process, OpenLocked(p) \/ Flock(p) \/ Write(p) \/ Die(p)
    PROVE  \/ Stored' = Stored
           \/ WriteEmpty(p) /\ Stored' = Empty
           \/ Die(p) /\ at[p] = "write" /\ Stored' = Empty
<1>0. Shaped(p)
    BY OpeningShape
<1>1. CASE (Create(p) \/ Chmod(p) \/ Open(p) \/ Flock(p))
    <2>1. subs' = subs /\ buf' = buf /\ at[p] # "write" /\ at'[p] # "write"
        BY <1>0, <1>1 DEF Create, Chmod, Open, Flock, Move, Return, Finish, fileVars,
                          Shaped, Keeps, Locks, Holds, Releases, Unheld
    <2>2. QED
        BY <1>0, <2>1, SameStored DEF Shaped
<1>2. CASE WriteEmpty(p)
    <2>1. /\ subs' = Empty /\ buf' = buf /\ at[p] # "write" /\ at'[p] # "write"
        BY <1>0, <1>2 DEF WriteEmpty, Move, Shaped, Keeps, Locks, Holds, Releases, Unheld
    <2>2. Writing' <=> Writing
        BY <1>0, <2>1 DEF Shaped, Writing
    <2>3. (Writing' => Stored' = buf') /\ (~Writing' => Stored' = subs')
        BY DEF Writing, Stored
    <2>4. QED
        BY <1>2, <2>1, <2>2, <2>3, StoredIs
<1>3. CASE Write(p)
    <2>1. at[p] = "write" /\ subs' = buf
        BY <1>3 DEF Write
    <2>2. at'[p] # "write"
        BY <1>0, <2>1 DEF Shaped, Keeps, Locks, Holds, Releases, Unheld
    <2>3. ~Writing' /\ (~Writing' => Stored' = subs')
        BY <1>0, <2>1, <2>2, WriterStored DEF Shaped, Writing, Stored
    <2>4. QED
        BY <2>1, <2>3, WriterStored
<1>4. CASE Die(p)
    <2>1. subs' = subs /\ buf' = (IF lock = p THEN Empty ELSE buf)
        BY <1>4 DEF Die, fileVars
    <2>2. at'[p] = "out"
        BY <1>4, ReturnGoes DEF Die, Ind, Inv, Goes
    <2>3. CASE at[p] = "write"
        <3>1. ~Writing' /\ (~Writing' => Stored' = subs')
            BY <1>0, <2>2, <2>3, WriterStored DEF Shaped, Writing, Stored
        <3>2. subs = Empty
            BY <2>3 DEF Ind, FileInv
        <3>3. QED
            BY <1>4, <2>1, <2>3, <3>1, <3>2
    <2>4. CASE at[p] # "write"
        <3>1. Writing => lock # p
            BY <2>4, Alone, Placed DEF Writing
        <3>2. QED
            BY <1>0, <2>1, <2>2, <2>4, <3>1, SameStored DEF Shaped
    <2>5. QED
        BY <2>3, <2>4
<1>5. QED
    BY <1>1, <1>2, <1>3, <1>4 DEF OpenLocked

LEMMA SessionStored ==
    ASSUME Ind, NEW s \in Session, SessionStep(s)
    PROVE  \/ Stored' = Stored
           \/ /\ Subscribe(s)
              /\ \E k \in 1..Total :
                    Stored' = [Stored EXCEPT ![AccountOf[s]] = [id |-> made + 1, wanted |-> k]]
           \/ Unsubscribe(s) /\ Stored' = [Stored EXCEPT ![AccountOf[s]] = NoSub]
<1>0. Shaped(s) /\ s \in Process
    BY SessionShape, Bounds
<1>1. CASE Subscribe(s)
    <2>1. PICK k \in 1..Total :
             Truncate(s, [subs EXCEPT ![AccountOf[s]] = [id |-> made + 1, wanted |-> k]])
        BY <1>1 DEF Subscribe
    <2>2. QED
        BY <1>0, <1>1, <2>1, TruncateStored
<1>2. CASE Unsubscribe(s)
    <2>1. Truncate(s, [subs EXCEPT ![AccountOf[s]] = NoSub])
        BY <1>2 DEF Unsubscribe
    <2>2. QED
        BY <1>0, <1>2, <2>1, TruncateStored
<1>3. CASE BeginGet(s) \/ Get(s) \/ BeginSubscribe(s) \/ BeginUnsubscribe(s) \/ UnsubscribeNothing(s)
    <2>1. subs' = subs /\ buf' = buf /\ at[s] \in {"out", "locked"}
        BY <1>3 DEF BeginGet, Get, BeginSubscribe, BeginUnsubscribe, UnsubscribeNothing,
                    Begin, AtMenu, fileVars
    <2>2. at'[s] \in {"out", "open"}
        BY <1>0, <1>3, BeginGoes, FinishGoes
        DEF BeginGet, Get, BeginSubscribe, BeginUnsubscribe, UnsubscribeNothing, Calls, Goes,
            Ind, Inv, TypeOK
    <2>3. QED
        BY <1>0, <2>1, <2>2, SameStored DEF Shaped
<1>4. QED
    BY <1>1, <1>2, <1>3 DEF SessionStep

LEMMA CycleStored ==
    ASSUME Ind, Cycle
    PROVE  \/ Stored' = Stored
           \/ Remove /\ Stored' = [u \in Account |-> IF u \in sent THEN NoSub ELSE Stored[u]]
<1>0. Checker \in Process /\ TypeOK
    BY Bounds DEF Ind, Inv
<1>1. CASE Remove
    <2>1. Truncate(Checker, [u \in Account |-> IF u \in sent THEN NoSub ELSE subs[u]])
        BY <1>1 DEF Remove
    <2>2. QED
        BY <1>0, <1>1, <2>1, TruncateStored
<1>2. CASE \E u \in Account : Mail(u) \/ MailFails(u) \/ MailSwitchedOff(u)
    BY <1>2, SameStored DEF Mail, MailFails, MailSwitchedOff, fileVars
<1>3. CASE BeginCheck \/ Read \/ EndMail
    <2>1. subs' = subs /\ buf' = buf /\ at[Checker] \in {"out", "locked"}
        BY <1>3, Placed, <1>0 DEF BeginCheck, Read, EndMail, Begin, fileVars
    <2>2. at'[Checker] \in {"out", "open"}
        BY <1>0, <1>3, BeginGoes, FinishGoes DEF BeginCheck, Read, EndMail, Calls, Goes
    <2>3. Shaped(Checker) \/ UNCHANGED at
        BY <1>3, CycleShape DEF Cycle
    <2>4. QED
        BY <1>0, <2>1, <2>2, <2>3, SameStored DEF Shaped
<1>4. QED
    BY <1>1, <1>2, <1>3 DEF Cycle

(* Nothing but a subscribe brings something new.                           *)
Fewer == \A u \in Account : Stored'[u] \in {Stored[u], NoSub}
Subscribed(s) ==
    /\ Subscribe(s)
    /\ \E k \in 1..Total :
          Stored' = [Stored EXCEPT ![AccountOf[s]] = [id |-> made + 1, wanted |-> k]]

LEMMA NextStored ==
    ASSUME Ind, [Next]_vars
    PROVE  Stored \in Content /\ (Fewer \/ \E s \in Session : Subscribed(s))
<1>1. Stored \in Content
    BY DEF Ind, Inv, TypeOK, Stored
<1>2. Stored' = Stored => Fewer
    BY DEF Fewer
<1>3. Stored' = Empty => Fewer
    BY EmptyContent DEF Fewer
<1>4. CASE \E p \in Process : OpenLocked(p) \/ Flock(p) \/ Write(p) \/ Die(p)
    BY <1>1, <1>2, <1>3, <1>4, OpeningStored
<1>5. ASSUME NEW s \in Session, SessionStep(s) PROVE Fewer \/ Subscribed(s)
    <2>1. Stored' = [Stored EXCEPT ![AccountOf[s]] = NoSub] => Fewer
        BY <1>1 DEF Fewer, Content
    <2>2. QED
        BY <1>2, <1>5, <2>1, SessionStored DEF Subscribed
<1>6. CASE Cycle
    <2>1. Stored' = [u \in Account |-> IF u \in sent THEN NoSub ELSE Stored[u]] => Fewer
        BY DEF Fewer
    <2>2. QED
        BY <1>1, <1>2, <1>6, <2>1, CycleStored
<1>7. CASE Pods \/ UNCHANGED vars
    <2>1. Stored' = Stored
        BY <1>7, SameStored DEF Pods, vars, fileVars
    <2>2. QED
        BY <1>1, <1>2, <2>1
<1>8. QED
    BY <1>1, <1>4, <1>5, <1>6, <1>7 DEF Next
-------------------------------------------------------------------------------
(* What a step changes.                                                    *)

LEMMA OpeningFrame ==
    ASSUME NEW p \in Process, OpenLocked(p) \/ Flock(p) \/ Write(p) \/ Die(p)
    PROVE  /\ UNCHANGED <<exists, owner, shared>> \/ Create(p) \/ Chmod(p)
           /\ subs' \in {subs, Empty, buf} /\ buf' \in {buf, Empty}
           /\ UNCHANGED <<seen, free, made>>
           /\ freeSeen' \in {freeSeen, 0} /\ candidates' \in {candidates, Empty}
           /\ sent' \in {sent, {}} /\ UNCHANGED <<notices, faults>>
           /\ deaths' = deaths \/ (Die(p) /\ deaths' = deaths + 1 /\ deaths < MaxDeaths)
<1>1. CASE (Create(p) \/ WriteEmpty(p) \/ Chmod(p) \/ Flock(p))
    BY <1>1 DEF Create, WriteEmpty, Chmod, Flock, checkerVars, fileVars
<1>2. CASE Open(p)
    BY <1>2 DEF Open, Return, checkerVars, fileVars
<1>3. CASE Write(p)
    BY <1>3 DEF Write, Return, checkerVars, fileVars
<1>4. CASE Die(p)
    BY <1>4 DEF Die, Return, checkerVars, fileVars
<1>5. QED
    BY <1>1, <1>2, <1>3, <1>4 DEF OpenLocked

LEMMA SessionFrame ==
    ASSUME NEW s \in Session, SessionStep(s)
    PROVE  /\ UNCHANGED <<exists, owner, shared, free, deaths, freeSeen, candidates, sent,
                          notices, faults>>
           /\ \/ UNCHANGED <<subs, buf>>
              \/ Subscribe(s)
              \/ Unsubscribe(s)
           /\ Subscribe(s) \/ made' = made
           /\ \/ seen' = seen
              \/ \E x \in {NoSub, subs[AccountOf[s]]} : seen' = [seen EXCEPT ![s] = x]
<1>1. CASE Subscribe(s) \/ Unsubscribe(s)
    BY <1>1 DEF Subscribe, Unsubscribe, checkerVars
<1>2. CASE BeginGet(s) \/ Get(s) \/ BeginSubscribe(s) \/ BeginUnsubscribe(s) \/ UnsubscribeNothing(s)
    BY <1>2 DEF BeginGet, Get, BeginSubscribe, BeginUnsubscribe, UnsubscribeNothing,
                checkerVars, fileVars
<1>3. QED
    BY <1>1, <1>2 DEF SessionStep

(* A subscription can be allocated: the bound counts who is about to.      *)
LEMMA SubscribeFits ==
    ASSUME Ind, NEW s \in Session, Subscribe(s)
    PROVE  /\ s \in Allocating /\ made \in Nat /\ made + 1 \in 1..MaxMade /\ made' = made + 1
           /\ \A k \in 1..Total :
                 /\ [id |-> made + 1, wanted |-> k] \in Sub
                 /\ [subs EXCEPT ![AccountOf[s]] = [id |-> made + 1, wanted |-> k]] \in Content
<1>1. at[s] = "locked" /\ call[s] = "subscribe" /\ made' = made + 1
    BY Bounds DEF Subscribe, Truncate, Move
<1>2. s \in Allocating
    BY <1>1 DEF Allocating
<1>3. Cardinality(Allocating) \in Nat \ {0}
    BY <1>2, FS_CardinalityType, FS_EmptySet DEF Ind, MadeInv
<1>4. made \in Nat /\ made + 1 \in 1..MaxMade
    BY <1>3, Bounds DEF Ind, Inv, TypeOK, MadeInv
<1>5. ASSUME NEW k \in 1..Total PROVE [id |-> made + 1, wanted |-> k] \in Sub
    BY <1>4 DEF Sub, Subscription
<1>6. QED
    BY <1>1, <1>2, <1>4, <1>5, ContentFacts, Bounds DEF Ind, Inv, TypeOK

-------------------------------------------------------------------------------
LEMMA OpeningType ==
    ASSUME Ind, NEW p \in Process, OpenLocked(p) \/ Flock(p) \/ Write(p) \/ Die(p)
    PROVE  TypeOK'
<1>0. TypeOK
    BY DEF Ind, Inv
<1>1. call' \in [Process -> Calls] /\ at' \in [Process -> Points] /\ lock' \in Process \cup {Nobody}
    BY <1>0, OpeningShape DEF Shaped, Keeps, Locks, Holds, Releases, TypeOK
<1>2. exists' \in BOOLEAN /\ owner' \in Process /\ shared' \in BOOLEAN
    BY <1>0, OpeningFrame DEF TypeOK, Create, Chmod
<1>3. subs' \in Content /\ buf' \in Content /\ candidates' \in Content
    BY <1>0, OpeningFrame, EmptyContent DEF TypeOK
<1>4. freeSeen' \in 0..Total /\ sent' \subseteq Account
    BY <1>0, OpeningFrame, Bounds DEF TypeOK
<1>5. deaths' \in 0..MaxDeaths
    BY <1>0, OpeningFrame, Bounds DEF TypeOK
<1>6. QED
    BY <1>0, <1>1, <1>2, <1>3, <1>4, <1>5, OpeningFrame DEF TypeOK

LEMMA SessionType == ASSUME Ind, NEW s \in Session, SessionStep(s) PROVE TypeOK'
<1>0. TypeOK /\ s \in Process /\ AccountOf[s] \in Account
    BY Bounds DEF Ind, Inv
<1>1. call' \in [Process -> Calls] /\ at' \in [Process -> Points] /\ lock' \in Process \cup {Nobody}
    BY <1>0, SessionShape DEF Shaped, Keeps, Locks, Holds, Releases, TypeOK
<1>2. seen' \in [Session -> Sub]
    <2>1. seen \in [Session -> Sub] /\ NoSub \in Sub /\ subs[AccountOf[s]] \in Sub
        BY <1>0, ContentFacts DEF TypeOK, Sub
    <2>2. QED
        BY <2>1, SessionFrame
<1>3. made' \in 0..MaxMade
    BY <1>0, SessionFrame, SubscribeFits, Bounds DEF TypeOK
<1>4. subs' \in Content /\ buf' \in Content
    <2>1. CASE Subscribe(s)
        BY <2>1, SubscribeFits, EmptyContent DEF Subscribe, Truncate
    <2>2. CASE Unsubscribe(s)
        <3>1. [subs EXCEPT ![AccountOf[s]] = NoSub] \in Content
            BY <1>0, ContentFacts DEF Sub, TypeOK
        <3>2. QED
            BY <2>2, <3>1, EmptyContent DEF Unsubscribe, Truncate
    <2>3. QED
        BY <1>0, <2>1, <2>2, SessionFrame DEF TypeOK
<1>5. QED
    BY <1>0, <1>1, <1>2, <1>3, <1>4, SessionFrame DEF TypeOK, Sub

LEMMA CycleType == ASSUME Ind, Cycle PROVE TypeOK'
<1>0. TypeOK /\ NoticesAccounted /\ Checker \in Process /\ Sub = Subscription \cup {NoSub}
    BY Bounds DEF Ind, Inv, Sub
<1>1. call' \in [Process -> Calls] /\ at' \in [Process -> Points] /\ lock' \in Process \cup {Nobody}
    BY <1>0, CycleShape DEF Shaped, Keeps, Locks, Holds, Releases, TypeOK
<1>2. CASE BeginCheck \/ EndMail
    BY <1>0, <1>1, <1>2 DEF BeginCheck, EndMail, TypeOK, fileVars, checkerVars
<1>3. CASE Read
    <2>1. candidates' \in Content
        BY <1>0, <1>3 DEF Read, Content, TypeOK
    <2>2. freeSeen' = 0 /\ UNCHANGED <<fileVars, buf, seen, free, sent, made, notices, deaths, faults>>
        BY <1>3 DEF Read
    <2>3. QED
        BY <1>0, <1>1, <2>1, <2>2, Bounds DEF TypeOK, fileVars
<1>4. ASSUME NEW u \in Account, Mail(u) \/ MailFails(u) \/ MailSwitchedOff(u)
      PROVE  TypeOK'
    <2>1. candidates[u] # NoSub /\ candidates' = [candidates EXCEPT ![u] = NoSub]
        BY <1>4 DEF Mail, MailFails, MailSwitchedOff
    <2>2. candidates' \in Content
        BY <1>0, <2>1, ContentFacts DEF TypeOK
    <2>3. /\ sent' \subseteq Account
          /\ UNCHANGED <<fileVars, lock, call, at, buf, seen, free, freeSeen, made, deaths>>
        BY <1>0, <1>4 DEF Mail, MailFails, MailSwitchedOff, TypeOK
    <2>4. faults' \in 0..MaxFaults
        BY <1>0, <1>4, Bounds DEF Mail, MailFails, MailSwitchedOff, TypeOK
    <2>5. notices' = notices \/ Notice(u)
        BY <1>4 DEF Mail, MailFails, MailSwitchedOff
    <2>6. notices' \in [1..MaxMade -> 0..(1 + MaxDeaths + MaxFaults)]
        <3>1. candidates[u].id \in 1..MaxMade
            BY <1>0, <2>1, ContentFacts, SubFacts, Bounds DEF TypeOK
        <3>2. notices[candidates[u].id] <= deaths + faults
            BY <2>1 DEF Ind, NoticeInv
        <3>3. notices[candidates[u].id] + 1 \in 0..(1 + MaxDeaths + MaxFaults)
            BY <1>0, <3>1, <3>2, Bounds DEF TypeOK
        <3>4. QED
            BY <1>0, <2>5, <3>3 DEF TypeOK, Notice
    <2>7. QED
        BY <1>0, <2>2, <2>3, <2>4, <2>6 DEF TypeOK, fileVars
<1>5. CASE Remove
    <2>1. subs' = Empty /\ buf' = [u \in Account |-> IF u \in sent THEN NoSub ELSE subs[u]]
        BY <1>5 DEF Remove, Truncate
    <2>2. buf' \in Content
        BY <1>0, <2>1 DEF Content, TypeOK
    <2>3. QED
        BY <1>0, <1>1, <1>5, <2>1, <2>2, EmptyContent DEF Remove, TypeOK, checkerVars
<1>6. QED
    BY <1>2, <1>3, <1>4, <1>5 DEF Cycle

LEMMA NextType == ASSUME Ind, [Next]_vars PROVE TypeOK'
<1>1. CASE Pods
    BY <1>1 DEF Ind, Inv, TypeOK, Pods, fileVars, checkerVars
<1>2. CASE UNCHANGED vars
    BY <1>2 DEF Ind, Inv, TypeOK, vars
<1>3. QED
    BY <1>1, <1>2, OpeningType, SessionType, CycleType DEF Next
-------------------------------------------------------------------------------
LEMMA NextFrame ==
    ASSUME Ind, [Next]_vars
    PROVE  /\ UNCHANGED <<exists, owner, shared>> \/ \E p \in Process : Create(p) \/ Chmod(p)
           /\ subs' \in {subs, Empty} \/ \E p \in Process : at[p] = "write" /\ Write(p)
           /\ Checker \in Process /\ deaths' >= deaths /\ deaths \in Nat /\ faults \in Nat
<1>0. Checker \in Process /\ deaths \in Nat /\ faults \in Nat
    BY Bounds DEF Ind, Inv, TypeOK
<1>1. ASSUME NEW p \in Process, OpenLocked(p) \/ Flock(p) \/ Write(p) \/ Die(p)
      PROVE  subs' \in {subs, Empty} \/ (at[p] = "write" /\ Write(p))
    BY <1>1 DEF OpenLocked, Create, WriteEmpty, Chmod, Open, Flock, Write, Die, fileVars
<1>2. ASSUME NEW s \in Session, SessionStep(s)
      PROVE  UNCHANGED <<exists, owner, shared, deaths>> /\ subs' \in {subs, Empty}
    BY <1>2, SessionFrame DEF Subscribe, Unsubscribe, Truncate
<1>3. CASE Cycle
    BY <1>0, <1>3 DEF Cycle, BeginCheck, Read, Mail, MailFails, MailSwitchedOff, EndMail, Remove,
                Truncate, fileVars, checkerVars
<1>4. CASE Pods \/ UNCHANGED vars
    BY <1>0, <1>4 DEF Pods, vars, fileVars, checkerVars
<1>5. QED
    BY <1>0, <1>1, <1>2, <1>3, <1>4, OpeningFrame DEF Next

(* The rights to the file are not lost.                                    *)
LEMMA RightsStay ==
    ASSUME Ind, [Next]_vars
    PROVE  /\ exists => exists' /\ owner' = owner /\ (shared => shared')
           /\ \A p \in Process : exists /\ CanWrite(p) => exists' /\ CanWrite(p)'
<1>1. exists => exists' /\ owner' = owner /\ (shared => shared')
    BY NextFrame DEF Create, Chmod
<1>2. QED
    BY <1>1 DEF CanWrite

LEMMA CreateIsFirst ==
    ASSUME Ind, NEW p \in Process, Create(p)
    PROVE  /\ \A q \in Process : at[q] \in {"out", "open"}
           /\ ~shared' /\ exists' /\ owner' = p /\ CanWrite(p)' /\ Stored = Empty /\ Stored' = Stored
<1>1. \A q \in Process : at[q] \in {"out", "open"}
    BY DEF Create, Ind, FileInv
<1>2. ~shared' /\ exists' /\ owner' = p
    BY DEF Create, Ind, FileInv
<1>3. Stored = Empty
    BY <1>1, StoredIs DEF Create, Ind, FileInv, Writing
<1>4. at' = [at EXCEPT ![p] = "create"] /\ subs' = subs
    BY DEF Create, Move
<1>5. \A q \in Process : at'[q] # "write" /\ at[q] # "write"
    BY <1>1, <1>4 DEF Ind, Inv, TypeOK
<1>6. QED
    BY <1>1, <1>2, <1>3, <1>4, <1>5, SameStored DEF Writing, CanWrite

(* A process that a step has past open: it was, or it may write the file.  *)
LEMMA NextPlace ==
    ASSUME Ind, [Next]_vars, NEW q \in Process, at'[q] \notin {"out", "open"}
    PROVE  /\ exists' /\ CanWrite(q)'
           /\ at'[q] \in {"create", "chmod"} => Create(q) \/ at[q] \in {"create", "chmod"}
           /\ at'[q] = "write" => at[q] = "write" \/ subs' = Empty
<1>1. at[q] \notin {"out", "open"} => exists' /\ CanWrite(q)'
    BY RightsStay DEF Ind, FileInv
<1>2. exists /\ CanWrite(q) => exists' /\ CanWrite(q)'
    BY RightsStay
<1>3. CASE at'[q] = at[q]
    BY <1>1, <1>3
<1>4. CASE at'[q] # at[q]
    <2>1. Shaped(q)
        BY <1>4, NextShape DEF Shaped
    <2>2. CASE Keeps(q)
        BY <1>1, <1>2, <2>2, CreateIsFirst DEF Keeps, Unheld
    <2>3. CASE Locks(q) \/ Holds(q) \/ Releases(q)
        BY <1>1, <2>3 DEF Locks, Holds, Releases
    <2>4. QED
        BY <2>1, <2>2, <2>3 DEF Shaped
<1>5. QED
    BY <1>3, <1>4

LEMMA NextFile == ASSUME Ind, [Next]_vars PROVE FileInv'
<1>0. FileInv /\ CallInv /\ LockInv
    BY DEF Ind
<1>1. ASSUME NEW q \in Process PROVE at'[q] \notin {"out", "open"} => exists' /\ CanWrite(q)'
    BY <1>1, NextPlace
<1>2. ASSUME NEW q \in Process, at'[q] \in {"create", "chmod"} PROVE owner' = q /\ ~shared'
    <2>1. CASE Create(q)
        BY <2>1, CreateIsFirst
    <2>2. CASE at[q] \in {"create", "chmod"}
        <3>1. owner = q /\ ~shared /\ exists
            BY <1>0, <2>2 DEF FileInv
        <3>2. owner' = q
            BY <3>1, RightsStay
        <3>3. ASSUME NEW p \in Process, Chmod(p) PROVE FALSE
            <4>1. at[p] = "chmod" /\ at' = [at EXCEPT ![p] = "flock"]
                BY <3>3 DEF Chmod, Move
            <4>2. p = q
                BY <1>0, <3>1, <4>1 DEF FileInv
            <4>3. at'[q] = "flock"
                BY <4>1, <4>2 DEF Ind, Inv, TypeOK
            <4>4. QED
                BY <1>2, <4>3
        <3>4. ASSUME NEW p \in Process, Create(p) PROVE ~shared'
            BY <3>4, CreateIsFirst
        <3>5. CASE UNCHANGED <<exists, owner, shared>>
            BY <3>1, <3>2, <3>5
        <3>6. QED
            BY <3>2, <3>3, <3>4, <3>5, NextFrame
    <2>3. QED
        BY <1>2, <2>1, <2>2, NextPlace
<1>3. ASSUME NEW q \in Process, at'[q] = "write" PROVE subs' = Empty
    <2>1. CASE at[q] = "write"
        <3>1. subs = Empty
            BY <1>0, <2>1 DEF FileInv
        <3>2. ASSUME NEW p \in Process, at[p] = "write", Write(p) PROVE FALSE
            <4>1. p = q
                BY <2>1, <3>2, Alone
            <4>2. at'[p] = "out"
                BY <3>2, ReturnGoes DEF Write, Ind, Inv, Goes
            <4>3. QED
                BY <1>3, <4>1, <4>2
        <3>3. QED
            BY <3>1, <3>2, NextFrame
    <2>2. QED
        BY <1>3, <2>1, NextPlace
<1>4. ASSUME call'[Checker] \in {"mail", "remove"} PROVE exists' /\ CanWrite(Checker)'
    <2>1. Checker \in Process
        BY Bounds
    <2>2. call[Checker] \in {"mail", "remove"} \/ at[Checker] = "locked"
        <3>1. ASSUME NEW p \in Process, OpenLocked(p) \/ Flock(p) \/ Write(p) \/ Die(p)
              PROVE  call'[Checker] \in {call[Checker], "none"}
            <4>1. call' = call \/ Return(p)
                BY <3>1 DEF OpenLocked, Create, WriteEmpty, Chmod, Open, Flock, Write, Die
            <4>2. QED
                BY <2>1, <4>1, ReturnGoes DEF Goes, Ind, Inv
        <3>2. ASSUME NEW s \in Session, SessionStep(s) PROVE call'[Checker] = call[Checker]
            BY <2>1, <3>2, SessionShape, Bounds DEF Shaped
        <3>3. CASE Cycle
            <4>1. CASE BeginCheck
                <5>1. Goes(Checker, "read", "open")
                    BY <2>1, <4>1, BeginGoes DEF BeginCheck, Ind, Inv, Calls
                <5>2. QED
                    BY <1>4, <5>1 DEF Goes
            <4>2. CASE Read \/ EndMail
                BY <4>2 DEF Read, EndMail
            <4>3. CASE (\E u \in Account : Mail(u) \/ MailFails(u) \/ MailSwitchedOff(u)) \/ Remove
                BY <4>3 DEF Mail, MailFails, MailSwitchedOff, Remove
            <4>4. QED
                BY <3>3, <4>1, <4>2, <4>3 DEF Cycle
        <3>4. CASE Pods \/ UNCHANGED vars
            BY <1>4, <3>4 DEF Pods, vars
        <3>5. QED
            BY <1>4, <3>1, <3>2, <3>3, <3>4 DEF Next
    <2>3. exists /\ CanWrite(Checker)
        BY <1>0, <2>1, <2>2 DEF FileInv
    <2>4. QED
        BY <2>1, <2>3, RightsStay
<1>5. ASSUME ~exists' PROVE ~shared' /\ subs' = Empty
    <2>1. ~exists /\ \A p \in Process : ~Create(p) /\ ~Chmod(p)
        BY <1>0, <1>5, RightsStay, CreateIsFirst DEF Chmod, Move, FileInv
    <2>2. \A p \in Process : at[p] # "write"
        BY <1>0, <2>1 DEF FileInv
    <2>3. QED
        BY <1>0, <2>1, <2>2, NextFrame DEF FileInv
<1>6. ASSUME ~shared', NEW u \in Account, Stored'[u] # NoSub PROVE u = AccountOf[owner']
    <2>1. CASE \E p \in Process : Create(p)
        BY <1>6, <2>1, CreateIsFirst, EmptyContent
    <2>2. CASE UNCHANGED <<exists, owner, shared>>
        <3>1. CASE Fewer
            BY <1>0, <1>6, <2>2, <3>1 DEF Fewer, FileInv
        <3>2. ASSUME NEW s \in Session, Subscribed(s) PROVE u = AccountOf[owner']
            <4>1. s \in Process /\ at[s] = "locked"
                BY <3>2, Bounds DEF Subscribed, Subscribe, Truncate, Move
            <4>2. AccountOf[s] = AccountOf[owner]
                BY <1>0, <1>6, <2>2, <4>1 DEF FileInv, CanWrite
            <4>3. u # AccountOf[s] => Stored'[u] = Stored[u]
                BY <3>2, NextStored DEF Subscribed, Content
            <4>4. QED
                BY <1>0, <1>6, <2>2, <4>2, <4>3 DEF FileInv
        <3>3. QED
            BY <3>1, <3>2, NextStored
    <2>3. QED
        BY <1>6, <2>1, <2>2, NextFrame DEF Chmod
<1>7. QED
    BY <1>1, <1>2, <1>3, <1>4, <1>5, <1>6 DEF FileInv
-------------------------------------------------------------------------------
LEMMA NextCalls ==
    ASSUME Ind, [Next]_vars, NEW p \in Process
    PROVE  call'[p] \in CallsOf(p) /\ (call'[p] \in {"none", "mail"} => at'[p] = "out")
BY NextShape, Placed DEF Shaped

LEMMA ReturnChecker ==
    ASSUME Return(Checker)
    PROVE  freeSeen' = 0 /\ candidates' = Empty /\ sent' = {} /\ UNCHANGED <<notices, faults>>
BY DEF Return

(* What CallInv says of the checker's variables.                           *)
CheckerInv ==
    /\ call[Checker] # "mail" => candidates = Empty
    /\ call[Checker] \in {"none", "read"} => sent = {}
    /\ at[Checker] = "write" => call[Checker] = "remove" /\ \A u \in sent : buf[u] = NoSub

LEMMA OpeningChecker ==
    ASSUME Ind, NEW p \in Process, OpenLocked(p) \/ Flock(p) \/ Write(p) \/ Die(p)
    PROVE  CheckerInv'
<1>0. Checker \in Process /\ CheckerInv /\ TypeOK
    BY Bounds DEF Ind, Inv, CallInv, CheckerInv
<1>1. CASE Return(p)
    <2>1. CASE p = Checker
        <3>1. call'[Checker] = "none" /\ at'[Checker] = "out"
            BY <1>0, <1>1, <2>1, ReturnGoes DEF Goes
        <3>2. QED
            BY <1>1, <2>1, <3>1, ReturnChecker DEF CheckerInv
    <2>2. CASE p # Checker
        <3>1. call'[Checker] = call[Checker] /\ at'[Checker] = at[Checker]
            BY <1>0, <1>1, <2>2, ReturnGoes DEF Goes
        <3>2. UNCHANGED <<candidates, sent>>
            BY <1>1, <2>2 DEF Return, checkerVars
        <3>3. buf' \in {buf, Empty}
            BY OpeningFrame
        <3>4. QED
            BY <1>0, <3>1, <3>2, <3>3, EmptyContent DEF CheckerInv, TypeOK
    <2>3. QED
        BY <2>1, <2>2
<1>2. CASE UNCHANGED <<call, buf, candidates, sent>> /\ at'[p] # "write"
    <2>1. p # Checker => at'[Checker] = at[Checker]
        BY <1>0, OpeningShape DEF Shaped
    <2>2. QED
        BY <1>0, <1>2, <2>1 DEF CheckerInv
<1>3. CASE (Create(p) \/ WriteEmpty(p) \/ Chmod(p) \/ Flock(p) \/ Open(p)) /\ ~Return(p)
    <2>1. UNCHANGED <<call, buf, candidates, sent>> /\ at[p] # "locked"
        BY <1>3 DEF Create, WriteEmpty, Chmod, Flock, Open, Move, checkerVars
    <2>2. at[p] # "write"
        BY <1>3 DEF Create, WriteEmpty, Chmod, Flock, Open, Move
    <2>3. QED
        BY <1>2, <2>1, <2>2, OpeningShape DEF Shaped, Keeps, Locks, Holds, Releases, Unheld
<1>4. QED
    BY <1>1, <1>3 DEF OpenLocked, Write, Die

LEMMA CycleChecker == ASSUME Ind, Cycle PROVE CheckerInv'
<1>0. Checker \in Process /\ CheckerInv /\ CallInv /\ TypeOK
    BY Bounds DEF Ind, Inv, CallInv, CheckerInv
<1>1. CASE BeginCheck
    <2>1. call'[Checker] = "read" /\ at'[Checker] = "open"
        BY <1>0, <1>1, BeginGoes DEF BeginCheck, Goes, Calls
    <2>2. UNCHANGED <<candidates, sent>> /\ call[Checker] = "none"
        BY <1>1 DEF BeginCheck
    <2>3. QED
        BY <1>0, <2>1, <2>2 DEF CheckerInv
<1>2. CASE Read
    <2>1. PICK c \in {"none", "mail"} : Finish(Checker, c) /\ (c = "none" => candidates' = Empty)
        BY <1>2 DEF Read
    <2>2. call'[Checker] = c /\ at'[Checker] = "out"
        BY <1>0, <2>1, FinishGoes DEF Goes, Calls
    <2>3. sent' = sent /\ call[Checker] = "read"
        BY <1>2 DEF Read
    <2>4. QED
        BY <1>0, <2>1, <2>2, <2>3 DEF CheckerInv
<1>3. CASE \E u \in Account : Mail(u) \/ MailFails(u) \/ MailSwitchedOff(u)
    <2>1. call[Checker] = "mail" /\ UNCHANGED <<call, at>>
        BY <1>3 DEF Mail, MailFails, MailSwitchedOff
    <2>2. QED
        BY <1>0, <2>1 DEF CheckerInv, CallInv
<1>4. CASE EndMail
    <2>1. UNCHANGED <<candidates, sent>> /\ candidates = Empty
        BY <1>4 DEF EndMail, checkerVars
    <2>2. CASE sent = {} /\ Finish(Checker, "none")
        <3>1. call'[Checker] = "none" /\ at'[Checker] = "out"
            BY <1>0, <2>2, FinishGoes DEF Goes, Calls
        <3>2. QED
            BY <2>1, <2>2, <3>1 DEF CheckerInv
    <2>3. CASE Begin(Checker, "remove")
        <3>1. call'[Checker] = "remove" /\ at'[Checker] = "open"
            BY <1>0, <2>3, BeginGoes DEF Goes, Calls
        <3>2. QED
            BY <2>1, <3>1 DEF CheckerInv
    <2>4. QED
        BY <1>4, <2>2, <2>3 DEF EndMail
<1>5. CASE Remove
    <2>1. /\ UNCHANGED <<call, candidates, sent>> /\ call[Checker] = "remove"
          /\ buf' = [u \in Account |-> IF u \in sent THEN NoSub ELSE subs[u]]
        BY <1>5 DEF Remove, Truncate, checkerVars
    <2>2. \A u \in sent : buf'[u] = NoSub
        BY <1>0, <2>1 DEF TypeOK
    <2>3. QED
        BY <1>0, <2>1, <2>2 DEF CheckerInv
<1>6. QED
    BY <1>1, <1>2, <1>3, <1>4, <1>5 DEF Cycle

LEMMA NextCall == ASSUME Ind, [Next]_vars PROVE CallInv'
<1>0. Checker \in Process /\ CheckerInv
    BY Bounds DEF Ind, CallInv, CheckerInv
<1>1. ASSUME NEW s \in Session, SessionStep(s) PROVE CheckerInv'
    <2>1. s \in Process /\ s # Checker
        BY Bounds
    <2>2. call'[Checker] = call[Checker] /\ at'[Checker] = at[Checker]
        BY <1>0, <1>1, <2>1, SessionShape DEF Shaped
    <2>3. at[Checker] = "write" => ~Subscribe(s) /\ ~Unsubscribe(s)
        BY <1>0, <2>1, Alone DEF Subscribe, Unsubscribe, Truncate, Move
    <2>4. UNCHANGED <<candidates, sent>> /\ (at[Checker] = "write" => buf' = buf)
        BY <1>1, <2>3, SessionFrame
    <2>5. QED
        BY <1>0, <2>2, <2>4 DEF CheckerInv
<1>2. ASSUME Pods \/ UNCHANGED vars PROVE CheckerInv'
    <2>1. UNCHANGED <<call, at, buf, candidates, sent>>
        BY <1>2 DEF Pods, vars, checkerVars
    <2>2. QED
        BY <1>0, <2>1 DEF CheckerInv
<1>3. CheckerInv'
    <2>1. CASE \E p \in Process : OpenLocked(p) \/ Flock(p) \/ Write(p) \/ Die(p)
        BY <2>1, OpeningChecker
    <2>2. CASE \E s \in Session : SessionStep(s)
        BY <1>1, <2>2
    <2>3. CASE Cycle
        BY <2>3, CycleChecker
    <2>4. QED
        BY <1>2, <2>1, <2>2, <2>3 DEF Next
<1>4. \A s \in Session : s \in Process /\ CallsOf(s) = SessionCalls
    BY Bounds DEF CallsOf
<1>5. QED
    BY <1>0, <1>3, <1>4, NextCalls DEF CallInv, CheckerInv, CallsOf, CheckerCalls, SessionCalls

-------------------------------------------------------------------------------
(* Only a menu makes a call that will allocate; the bound is asked there.  *)
LEMMA NextAllocating ==
    ASSUME Ind, [Next]_vars
    PROVE  \/ Allocating' \subseteq Allocating
           \/ \E s \in Session : BeginSubscribe(s) /\ Allocating' \subseteq Allocating \cup {s}
<1>1. Allocating' = {s \in Session : call'[s] = "subscribe" /\ at'[s] # "write"}
    BY DEF Allocating
<1>2. ASSUME NEW p \in Process, Shaped(p) PROVE Allocating' \ {p} \subseteq Allocating
    BY <1>1, <1>2, Bounds DEF Shaped, Allocating
<1>3. ASSUME NEW p \in Process, Shaped(p), p \in Allocating' PROVE BeginSubscribe(p) \/ p \in Allocating
    BY <1>1, <1>3 DEF Shaped, Allocating
<1>4. UNCHANGED <<call, at>> => Allocating' = Allocating
    BY <1>1 DEF Allocating
<1>5. Allocating' \subseteq Session
    BY <1>1
<1>6. QED
    BY <1>2, <1>3, <1>4, <1>5, NextShape

LEMMA NextMade == ASSUME Ind, [Next]_vars PROVE MadeInv' /\ made \in Nat /\ made' \in Nat /\ made' >= made
<1>0. /\ IsFiniteSet(Allocating) /\ made \in Nat /\ MaxMade \in Nat
      /\ Cardinality(Allocating) \in Nat /\ made + Cardinality(Allocating) <= MaxMade
    BY Bounds, FS_CardinalityType DEF Ind, Inv, TypeOK, MadeInv
<1>1. CASE \E s \in Session : Subscribe(s)
    <2>1. PICK s \in Session : Subscribe(s)
        BY <1>1
    <2>2. s \in Allocating /\ made' = made + 1
        BY <2>1, SubscribeFits
    <2>3. s \in Process /\ at[s] = "locked" /\ at' = [at EXCEPT ![s] = "write"]
        BY <2>1, Bounds DEF Subscribe, Truncate, Move
    <2>4. Allocating' \subseteq Allocating \ {s}
        <3>1. at'[s] = "write" /\ \A q \in Process : q # s => at'[q] = at[q]
            BY <2>3 DEF Ind, Inv, TypeOK
        <3>2. s \notin Allocating'
            BY <3>1 DEF Allocating
        <3>3. ASSUME NEW q \in Session, BeginSubscribe(q) PROVE FALSE
            <4>1. q \in Process /\ at[q] = "out" /\ at' = [at EXCEPT ![q] = "open"]
                BY <3>3, Bounds DEF BeginSubscribe, Begin
            <4>2. at'[q] = "open"
                BY <4>1 DEF Ind, Inv, TypeOK
            <4>3. QED
                BY <2>3, <3>1, <4>1, <4>2
        <3>4. QED
            BY <3>2, <3>3, NextAllocating
    <2>5. IsFiniteSet(Allocating') /\ Cardinality(Allocating') <= Cardinality(Allocating \ {s})
        BY <1>0, <2>4, FS_Subset, FS_RemoveElement
    <2>6. Cardinality(Allocating \ {s}) = Cardinality(Allocating) - 1
        BY <1>0, <2>2, FS_RemoveElement
    <2>7. Cardinality(Allocating') \in Nat
        BY <2>5, FS_CardinalityType
    <2>8. QED
        BY <1>0, <2>2, <2>5, <2>6, <2>7 DEF MadeInv
<1>2. CASE ~\E s \in Session : Subscribe(s)
    <2>1. made' = made
        <3>1. CASE \E p \in Process : OpenLocked(p) \/ Flock(p) \/ Write(p) \/ Die(p)
            BY <3>1, OpeningFrame
        <3>2. CASE \E s \in Session : SessionStep(s)
            BY <1>2, <3>2, SessionFrame
        <3>3. CASE Cycle
            BY <3>3 DEF Cycle, BeginCheck, Read, Mail, MailFails, MailSwitchedOff, EndMail, Remove
        <3>4. QED
            BY <3>1, <3>2, <3>3 DEF Next, Pods, vars
    <2>2. CASE Allocating' \subseteq Allocating
        <3>1. /\ IsFiniteSet(Allocating') /\ Cardinality(Allocating') <= Cardinality(Allocating)
              /\ Cardinality(Allocating') \in Nat
            BY <1>0, <2>2, FS_Subset, FS_CardinalityType
        <3>2. QED
            BY <1>0, <2>1, <3>1 DEF MadeInv
    <2>3. ASSUME NEW s \in Session, BeginSubscribe(s), Allocating' \subseteq Allocating \cup {s}
          PROVE  MadeInv'
        <3>1. made + Cardinality(Allocating) < MaxMade
            BY <2>3 DEF BeginSubscribe, Pending, Allocating
        <3>2. /\ IsFiniteSet(Allocating \cup {s})
              /\ Cardinality(Allocating \cup {s}) <= Cardinality(Allocating) + 1
            BY <1>0, FS_AddElement
        <3>3. /\ IsFiniteSet(Allocating')
              /\ Cardinality(Allocating') <= Cardinality(Allocating \cup {s})
              /\ Cardinality(Allocating') \in Nat /\ Cardinality(Allocating \cup {s}) \in Nat
            BY <2>3, <3>2, FS_Subset, FS_CardinalityType
        <3>4. QED
            BY <1>0, <2>1, <3>1, <3>2, <3>3 DEF MadeInv
    <2>4. QED
        BY <1>0, <2>1, <2>2, <2>3, NextAllocating
<1>3. QED
    BY <1>1, <1>2
-------------------------------------------------------------------------------
(* Where the candidates come from, and what becomes of the mailed ones.    *)

(* The mail to w went out, was not sent, or its result was a wrong one.    *)
Mailed(w) ==
    /\ candidates[w] # NoSub /\ candidates' = [candidates EXCEPT ![w] = NoSub]
    /\ \/ Notice(w) /\ sent' = sent \cup {w} /\ faults' = faults
       \/ Notice(w) /\ sent' = sent /\ faults' = faults + 1
       \/ UNCHANGED notices /\ sent \subseteq sent' /\ faults' = faults + 1
    /\ Stored' = Stored /\ made' = made /\ deaths' = deaths

(* The accounts mailed are forgotten when what they had is, or in a death. *)
Forgets ==
    \/ sent \subseteq sent'
    \/ \A u \in Account : u \in sent => Stored[u] = NoSub
    \/ deaths' = deaths + 1

Unmailed ==
    /\ \A u \in Account : candidates'[u] \in {candidates[u], NoSub, Stored[u]}
    /\ \A u \in Account : candidates'[u] # candidates[u] /\ candidates'[u] # NoSub => u \notin sent
    /\ UNCHANGED <<notices, faults>> /\ Forgets
    /\ deaths' = deaths \/ deaths' = deaths + 1

LEMMA MailStep ==
    ASSUME Ind, NEW w \in Account, Mail(w) \/ MailFails(w) \/ MailSwitchedOff(w)
    PROVE  Mailed(w)
<1>1. Stored' = Stored
    BY SameStored DEF Mail, MailFails, MailSwitchedOff, fileVars
<1>2. QED
    BY <1>1 DEF Mail, MailFails, MailSwitchedOff, Mailed

LEMMA OpeningUnmailed ==
    ASSUME Ind, NEW p \in Process, OpenLocked(p) \/ Flock(p) \/ Write(p) \/ Die(p)
    PROVE  Unmailed
<1>1. \A u \in Account : candidates'[u] \in {candidates[u], NoSub}
    BY OpeningFrame, EmptyContent
<1>2. deaths' = deaths \/ deaths' = deaths + 1
    BY OpeningFrame
<1>3. Forgets
    <2>1. CASE sent' = sent
        BY <2>1 DEF Forgets
    <2>2. CASE Die(p)
        BY <2>2 DEF Die, Forgets
    <2>3. CASE Return(p) /\ p = Checker /\ (Open(p) \/ Write(p))
        <3>1. CASE Write(p)
            <4>1. at[p] = "write"
                BY <3>1 DEF Write
            <4>2. Stored = buf
                BY <4>1, WriterStored
            <4>3. QED
                BY <2>3, <4>1, <4>2 DEF Ind, CallInv, Forgets
        <3>2. CASE Open(p) /\ at[p] = "open" /\ ~CanWrite(p)
            <4>1. call[Checker] \in {"none", "read"}
                BY <2>3, <3>2 DEF Ind, CallInv, FileInv
            <4>2. QED
                BY <4>1 DEF Ind, CallInv, Forgets
        <3>3. CASE Open(p) /\ CanWrite(p)
            BY <2>1, <3>3 DEF Open, checkerVars
        <3>4. QED
            BY <2>3, <3>1, <3>2, <3>3 DEF Open
    <2>4. sent' = sent \/ Die(p) \/ (Return(p) /\ p = Checker /\ (Open(p) \/ Write(p)))
        BY DEF OpenLocked, Create, WriteEmpty, Chmod, Open, Flock, Write, Return, checkerVars
    <2>5. QED
        BY <2>1, <2>2, <2>3, <2>4
<1>4. QED
    BY <1>1, <1>2, <1>3, OpeningFrame DEF Unmailed

LEMMA CycleUnmailed ==
    ASSUME Ind, BeginCheck \/ Read \/ EndMail \/ Remove
    PROVE  Unmailed
<1>1. UNCHANGED <<sent, notices, deaths, faults>>
    BY DEF BeginCheck, Read, EndMail, Remove, checkerVars
<1>2. CASE Read
    <2>1. Stored = subs /\ sent = {}
        BY <1>2, LockedStored, Bounds DEF Read, Ind, CallInv
    <2>2. \A u \in Account : candidates'[u] \in {NoSub, Stored[u]}
        BY <1>2, <2>1 DEF Read
    <2>3. QED
        BY <1>1, <2>1, <2>2 DEF Unmailed, Forgets
<1>3. CASE BeginCheck \/ EndMail \/ Remove
    <2>1. candidates' = candidates
        BY <1>3 DEF BeginCheck, EndMail, Remove, checkerVars
    <2>2. QED
        BY <1>1, <2>1 DEF Unmailed, Forgets
<1>4. QED
    BY <1>2, <1>3

LEMMA NextMails ==
    ASSUME Ind, [Next]_vars
    PROVE  Unmailed \/ \E w \in Account : Mailed(w)
<1>1. CASE (\E s \in Session : SessionStep(s)) \/ Pods \/ UNCHANGED vars
    <2>1. UNCHANGED <<candidates, sent, notices, deaths, faults>>
        BY <1>1, SessionFrame DEF Pods, vars, checkerVars
    <2>2. QED
        BY <2>1 DEF Unmailed, Forgets
<1>2. CASE \E p \in Process : OpenLocked(p) \/ Flock(p) \/ Write(p) \/ Die(p)
    BY <1>2, OpeningUnmailed
<1>3. CASE Cycle
    BY <1>3, CycleUnmailed, MailStep DEF Cycle
<1>4. QED
    BY <1>1, <1>2, <1>3 DEF Next

(* The numbers an account has were its own before, or are new.             *)
LEMMA NextKnown ==
    ASSUME Ind, [Next]_vars, NEW u \in Account
    PROVE  /\ Known(u) \subseteq 0..made
           /\ \/ Known(u)' \subseteq Known(u) \cup {0}
              \/ /\ Known(u)' \subseteq Known(u) \cup {0, made + 1} /\ made' = made + 1
                 /\ \E s \in Session : Subscribed(s) /\ u = AccountOf[s]
<1>0. /\ Stored[u] \in Sub /\ candidates[u] \in Sub /\ NoSub.id = 0 /\ made \in Nat
      /\ Known(u) = {Stored[u].id, candidates[u].id}
      /\ Known(u)' = {Stored'[u].id, candidates'[u].id}
    BY NextStored, NextMade, ContentFacts DEF Ind, Inv, TypeOK, NoSub, Known
<1>1. Known(u) \subseteq 0..made
    BY <1>0, SubFacts, Bounds DEF Ind, IdInv
<1>2. candidates'[u] \in {candidates[u], NoSub, Stored[u]}
    BY NextMails DEF Unmailed, Mailed, Ind, Inv, TypeOK, Content
<1>3. candidates'[u].id \in Known(u) \cup {0}
    BY <1>0, <1>2
<1>4. CASE Fewer
    <2>1. Stored'[u].id \in Known(u) \cup {0}
        BY <1>0, <1>4 DEF Fewer
    <2>2. QED
        BY <1>0, <1>1, <1>3, <2>1
<1>5. CASE \E s \in Session : Subscribed(s)
    <2>1. PICK s \in Session : Subscribed(s)
        BY <1>5
    <2>2. made' = made + 1
        BY <2>1, SubscribeFits DEF Subscribed
    <2>3. PICK k \in 1..Total :
             Stored' = [Stored EXCEPT ![AccountOf[s]] = [id |-> made + 1, wanted |-> k]]
        BY <2>1 DEF Subscribed
    <2>4. CASE u = AccountOf[s]
        <3>1. Stored'[u] = [id |-> made + 1, wanted |-> k]
            BY <2>3, <2>4, NextStored DEF Content
        <3>2. Stored'[u].id = made + 1
            BY <3>1
        <3>3. QED
            BY <1>0, <1>1, <1>3, <2>1, <2>2, <2>4, <3>2
    <2>5. CASE u # AccountOf[s]
        <3>1. Stored'[u] = Stored[u]
            BY <2>3, <2>5, NextStored DEF Content
        <3>2. QED
            BY <1>0, <1>1, <1>3, <3>1
    <2>6. QED
        BY <2>4, <2>5
<1>6. QED
    BY <1>4, <1>5, NextStored

LEMMA NextId == ASSUME Ind, [Next]_vars PROVE IdInv'
<1>0. made \in Nat /\ made' >= made /\ made' \in Nat
    BY NextMade
<1>1. ASSUME NEW u \in Account, NEW i \in Known(u)' PROVE i \in 0..made'
    BY <1>0, <1>1, NextKnown
<1>2. ASSUME NEW u \in Account, NEW w \in Account, u # w, NEW i \in Known(u)' \cap Known(w)'
      PROVE  i = 0
    <2>1. Known(u) \subseteq 0..made /\ Known(w) \subseteq 0..made
        BY NextKnown
    <2>2. i \in Known(u) /\ i \in Known(w) => i = 0
        BY <1>2 DEF Ind, IdInv
    <2>3. made + 1 \notin 0..made
        BY <1>0
    <2>4. CASE Known(u)' \subseteq Known(u) \cup {0}
        BY <1>2, <2>1, <2>2, <2>3, <2>4, NextKnown
    <2>5. CASE Known(w)' \subseteq Known(w) \cup {0}
        BY <1>2, <2>1, <2>2, <2>3, <2>5, NextKnown
    <2>6. CASE \E s, t \in Session : /\ Subscribed(s) /\ u = AccountOf[s]
                                     /\ Subscribed(t) /\ w = AccountOf[t]
        <3>1. PICK s \in Session, t \in Session : /\ Subscribed(s) /\ u = AccountOf[s]
                                                  /\ Subscribed(t) /\ w = AccountOf[t]
            BY <2>6
        <3>2. /\ s \in Process /\ at[s] = "locked" /\ t \in Process /\ at[t] = "locked"
            BY <3>1, Bounds DEF Subscribed, Subscribe, Truncate, Move
        <3>3. s = t
            BY <3>2, Alone
        <3>4. QED
            BY <1>2, <3>1, <3>3
    <2>7. QED
        BY <2>4, <2>5, <2>6, NextKnown
<1>3. QED
    BY <1>0, <1>1, <1>2 DEF IdInv
-------------------------------------------------------------------------------
LEMMA NoticeTypes ==
    ASSUME Ind
    PROVE  /\ deaths \in Nat /\ faults \in Nat /\ made \in Nat
           /\ notices \in [1..MaxMade -> Nat]
           /\ \A u \in Account :
                 /\ Stored[u] # NoSub => Stored[u].id \in 1..MaxMade
                 /\ candidates[u] # NoSub => candidates[u].id \in 1..MaxMade /\ candidates[u].id <= made
<1>1. /\ deaths \in Nat /\ faults \in Nat /\ made \in Nat
      /\ notices \in [1..MaxMade -> Nat]
    BY Bounds DEF Ind, Inv, TypeOK
<1>2. ASSUME NEW u \in Account
      PROVE  /\ Stored[u] # NoSub => Stored[u].id \in 1..MaxMade
             /\ candidates[u] # NoSub => candidates[u].id \in 1..MaxMade /\ candidates[u].id <= made
    <2>1. Stored \in Content /\ candidates \in Content
        BY DEF Ind, Inv, TypeOK, Stored
    <2>2. Stored[u] \in Sub /\ candidates[u] \in Sub
        BY <2>1, ContentFacts
    <2>3. candidates[u].id <= made
        BY DEF Ind, IdInv, Known
    <2>4. QED
        BY <2>2, <2>3, SubFacts, Bounds
<1>3. QED
    BY <1>1, <1>2

(* One mail more, to the subscription that is mailed and to no other.      *)
LEMMA MailedNotice ==
    ASSUME Ind, NEW w \in Account, Mailed(w)
    PROVE  /\ candidates[w].id \in 1..MaxMade /\ candidates[w].id <= made
           /\ notices[candidates[w].id] <= deaths + faults
           /\ notices'[candidates[w].id] \in {notices[candidates[w].id], notices[candidates[w].id] + 1}
           /\ notices' # notices => sent' = sent \cup {w} \/ faults' = faults + 1
           /\ \A i \in 1..MaxMade : i # candidates[w].id => notices'[i] = notices[i]
           /\ \A u \in Account : u # w =>
                 /\ candidates'[u] = candidates[u]
                 /\ candidates[u] # NoSub => candidates[u].id # candidates[w].id
                 /\ Stored[u] # NoSub => Stored[u].id # candidates[w].id
           /\ candidates'[w] = NoSub /\ sent \subseteq sent' /\ made' = made
           /\ deaths' = deaths /\ faults' \in {faults, faults + 1} /\ Stored' = Stored
<1>1. candidates[w].id \in 1..MaxMade /\ candidates[w].id <= made
    BY NoticeTypes DEF Mailed
<1>2. notices[candidates[w].id] <= deaths + faults
    BY DEF Mailed, Ind, NoticeInv
<1>3. notices' = notices \/ notices' = [notices EXCEPT ![candidates[w].id] = @ + 1]
    BY DEF Mailed, Notice
<1>4. candidates'[w] = NoSub /\ \A u \in Account : u # w => candidates'[u] = candidates[u]
    BY DEF Mailed, Ind, Inv, TypeOK, Content
<1>5. ASSUME NEW u \in Account, u # w
      PROVE  /\ candidates[u] # NoSub => candidates[u].id # candidates[w].id
             /\ Stored[u] # NoSub => Stored[u].id # candidates[w].id
    <2>1. \A i \in Known(u) \cap Known(w) : i = 0
        BY <1>5 DEF Ind, IdInv
    <2>2. candidates[w].id # 0 /\ candidates[w].id \in Known(w)
        BY <1>1, Bounds DEF Known
    <2>3. candidates[w].id \notin Known(u)
        BY <2>1, <2>2
    <2>4. QED
        BY <2>3 DEF Known
<1>6. /\ sent \subseteq sent' /\ made' = made /\ deaths' = deaths
      /\ faults' \in {faults, faults + 1} /\ Stored' = Stored
      /\ notices' # notices => sent' = sent \cup {w} \/ faults' = faults + 1
    BY DEF Mailed
<1>7. /\ notices'[candidates[w].id] \in {notices[candidates[w].id], notices[candidates[w].id] + 1}
      /\ \A i \in 1..MaxMade : i # candidates[w].id => notices'[i] = notices[i]
    BY <1>1, <1>3, NoticeTypes
<1>8. QED
    BY <1>1, <1>2, <1>4, <1>5, <1>6, <1>7

LEMMA NextAccounted == ASSUME Ind, [Next]_vars PROVE NoticesAccounted'
<1>0. \A i \in 1..MaxMade : notices[i] <= 1 + deaths + faults
    BY DEF Ind, Inv, NoticesAccounted
<1>1. CASE Unmailed
    BY <1>0, <1>1, NoticeTypes DEF Unmailed, NoticesAccounted
<1>2. ASSUME NEW w \in Account, Mailed(w) PROVE NoticesAccounted'
    <2>1. SUFFICES ASSUME NEW i \in 1..MaxMade PROVE notices'[i] <= 1 + deaths' + faults'
        BY DEF NoticesAccounted
    <2>2. CASE i # candidates[w].id
        BY <1>0, <1>2, <2>2, MailedNotice, NoticeTypes
    <2>3. CASE i = candidates[w].id
        BY <1>2, <2>3, MailedNotice, NoticeTypes
    <2>4. QED
        BY <2>2, <2>3
<1>3. QED
    BY <1>1, <1>2, NextMails

LEMMA NextNotice == ASSUME Ind, [Next]_vars PROVE NoticeInv'
<1>0. /\ \A i \in 1..MaxMade : i > made => notices[i] = 0
      /\ \A u \in Account : candidates[u] # NoSub => notices[candidates[u].id] <= deaths + faults
      /\ \A u \in Account \ sent : Stored[u] # NoSub => notices[Stored[u].id] <= deaths + faults
    BY DEF Ind, NoticeInv
<1>1. made \in Nat /\ made' \in Nat /\ made' >= made
    BY NextMade
<1>2. ASSUME NEW i \in 1..MaxMade, i > made' PROVE notices'[i] = 0
    <2>1. notices[i] = 0 /\ i > made
        BY <1>0, <1>1, <1>2
    <2>2. ASSUME NEW w \in Account, Mailed(w) PROVE notices'[i] = 0
        <3>1. candidates[w].id <= made /\ candidates[w].id \in 1..MaxMade
            BY <2>2, MailedNotice
        <3>2. i # candidates[w].id
            BY <1>1, <2>1, <3>1
        <3>3. QED
            BY <2>1, <2>2, <3>2, MailedNotice
    <2>3. QED
        BY <2>1, <2>2, NextMails DEF Unmailed
<1>3. ASSUME NEW u \in Account, candidates'[u] # NoSub
      PROVE  notices'[candidates'[u].id] <= deaths' + faults'
    <2>1. CASE Unmailed
        <3>1. candidates'[u] = candidates[u] \/ (u \notin sent /\ candidates'[u] = Stored[u])
            BY <1>3, <2>1 DEF Unmailed
        <3>2. notices[candidates'[u].id] <= deaths + faults
            BY <1>0, <1>3, <3>1
        <3>3. candidates'[u].id \in 1..MaxMade
            BY <1>3, <3>1, NoticeTypes
        <3>4. QED
            BY <2>1, <3>2, <3>3, NoticeTypes DEF Unmailed
    <2>2. ASSUME NEW w \in Account, Mailed(w) PROVE notices'[candidates'[u].id] <= deaths' + faults'
        <3>1. u # w /\ candidates'[u] = candidates[u] /\ candidates[u].id # candidates[w].id
            BY <1>3, <2>2, MailedNotice
        <3>2. notices'[candidates[u].id] = notices[candidates[u].id] /\ candidates[u].id \in 1..MaxMade
            BY <1>3, <2>2, <3>1, MailedNotice, NoticeTypes
        <3>3. notices[candidates[u].id] <= deaths + faults
            BY <1>0, <1>3, <3>1
        <3>4. QED
            BY <2>2, <3>1, <3>2, <3>3, MailedNotice, NoticeTypes
    <2>3. QED
        BY <2>1, <2>2, NextMails
<1>4. ASSUME NEW u \in Account \ sent', Stored'[u] # NoSub
      PROVE  notices'[Stored'[u].id] <= deaths' + faults'
    <2>1. CASE Stored'[u] = Stored[u]
        <3>0. Stored[u].id \in 1..MaxMade /\ u \in Account
            BY <1>4, <2>1, NoticeTypes
        <3>1. CASE Unmailed
            <4>1. u \notin sent \/ deaths' = deaths + 1
                BY <1>4, <2>1, <3>1 DEF Unmailed, Forgets
            <4>2. notices[Stored[u].id] <= 1 + deaths + faults
                BY <3>0 DEF Ind, Inv, NoticesAccounted
            <4>3. u \notin sent => notices[Stored[u].id] <= deaths + faults
                BY <1>0, <1>4, <2>1
            <4>4. QED
                BY <2>1, <3>0, <3>1, <4>1, <4>2, <4>3, NoticeTypes DEF Unmailed
        <3>2. ASSUME NEW w \in Account, Mailed(w) PROVE notices'[Stored'[u].id] <= deaths' + faults'
            <4>1. u \notin sent
                BY <1>4, <3>2, MailedNotice
            <4>2. notices[Stored[u].id] <= deaths + faults
                BY <1>0, <1>4, <2>1, <4>1
            <4>3. CASE Stored[u].id # candidates[w].id
                BY <2>1, <3>0, <3>2, <4>2, <4>3, MailedNotice, NoticeTypes
            <4>4. CASE Stored[u].id = candidates[w].id
                <5>1. u = w
                    BY <1>4, <2>1, <3>2, <4>4, MailedNotice
                <5>2. notices' # notices => faults' = faults + 1
                    BY <1>4, <3>2, <5>1, MailedNotice
                <5>3. CASE notices' = notices
                    BY <2>1, <3>0, <3>2, <4>2, <5>3, MailedNotice, NoticeTypes
                <5>4. CASE faults' = faults + 1
                    <6>1. notices'[Stored[u].id] \in {notices[Stored[u].id], notices[Stored[u].id] + 1}
                        BY <3>2, <4>4, MailedNotice
                    <6>2. deaths' = deaths /\ notices[Stored[u].id] \in Nat
                        BY <3>0, <3>2, MailedNotice, NoticeTypes
                    <6>3. QED
                        BY <2>1, <4>2, <5>4, <6>1, <6>2, NoticeTypes
                <5>5. QED
                    BY <5>2, <5>3, <5>4
            <4>5. QED
                BY <4>3, <4>4
        <3>3. QED
            BY <3>1, <3>2, NextMails
    <2>2. CASE Stored'[u] # Stored[u]
        <3>1. PICK s \in Session : Subscribed(s)
            BY <1>4, <2>2, NextStored DEF Fewer
        <3>2. PICK k \in 1..Total :
                 Stored' = [Stored EXCEPT ![AccountOf[s]] = [id |-> made + 1, wanted |-> k]]
            BY <3>1 DEF Subscribed
        <3>3. Stored'[u] = [id |-> made + 1, wanted |-> k]
            BY <1>4, <2>2, <3>2, NextStored DEF Content
        <3>4. Stored'[u].id = made + 1
            BY <3>3
        <3>5. made + 1 \in 1..MaxMade
            BY <3>1, SubscribeFits DEF Subscribed
        <3>6. notices[made + 1] = 0
            BY <1>0, <1>1, <3>5
        <3>7. UNCHANGED <<notices, deaths, faults>>
            BY <3>1, SessionFrame DEF Subscribed, SessionStep
        <3>8. QED
            BY <3>4, <3>6, <3>7, NoticeTypes
    <2>3. QED
        BY <2>1, <2>2
<1>5. QED
    BY <1>2, <1>3, <1>4 DEF NoticeInv

LEMMA NextInd == Ind /\ [Next]_vars => Ind'
BY NextType, NextLock, NextFile, NextCall, NextMade, NextId, NextNotice, NextAccounted DEF Ind, Inv

(* The types, and that a second mail for one subscription takes a checker  *)
(* that died or a mail whose result was wrong (check_and_notify).          *)
THEOREM Notices == Spec => []Inv
<1>1. Ind => Inv
    BY DEF Ind
<1>2. QED
    BY <1>1, InitInd, NextInd, PTL DEF Spec

-------------------------------------------------------------------------------
(* What took a subscription away or changed it, at one step.               *)
KeptBut(u) ==
    \/ OwnStep(u)
    \/ call[Checker] = "remove" /\ u \in sent
    \/ \E p \in Process : at[p] = "write" /\ Die(p)

LEMMA MoverIs ==
    ASSUME Ind, NEW p \in Process, at'[p] # at[p], p \in Session \/ at[p] = "create"
    PROVE  OwnStep(AccountOf[p])
BY DEF OwnStep, Moves

LEMMA StepKeeps ==
    ASSUME Ind, [Next]_vars, NEW u \in Account, Stored[u] # NoSub, Stored'[u] # Stored[u]
    PROVE  KeptBut(u)
<1>0. Stored \in Content
    BY NextStored
<1>1. ASSUME NEW p \in Process, OpenLocked(p) \/ Flock(p) \/ Write(p) \/ Die(p)
      PROVE  KeptBut(u)
    <2>1. CASE WriteEmpty(p)
        <3>1. at[p] = "create" /\ at' = [at EXCEPT ![p] = "chmod"]
            BY <2>1 DEF WriteEmpty, Move
        <3>2. at'[p] # at[p]
            BY <3>1 DEF Ind, Inv, TypeOK
        <3>3. u = AccountOf[p]
            BY <3>1 DEF Ind, FileInv
        <3>4. QED
            BY <3>1, <3>2, <3>3, MoverIs DEF KeptBut
    <2>2. CASE Die(p) /\ at[p] = "write"
        BY <2>2 DEF KeptBut
    <2>3. QED
        BY <1>1, <2>1, <2>2, OpeningStored
<1>2. ASSUME NEW s \in Session, SessionStep(s) PROVE KeptBut(u)
    <2>1. Subscribe(s) \/ Unsubscribe(s)
        BY <1>2, SessionStored
    <2>2. s \in Process /\ at[s] = "locked" /\ at' = [at EXCEPT ![s] = "write"]
        BY <2>1, Bounds DEF Subscribe, Unsubscribe, Truncate, Move
    <2>3. at'[s] # at[s]
        BY <2>2 DEF Ind, Inv, TypeOK
    <2>4. \E x : Stored' = [Stored EXCEPT ![AccountOf[s]] = x]
        BY <1>2, SessionStored
    <2>5. u = AccountOf[s]
        BY <1>0, <2>4 DEF Content
    <2>6. QED
        BY <2>2, <2>3, <2>5, MoverIs DEF KeptBut
<1>3. CASE Cycle
    <2>1. Remove /\ Stored' = [w \in Account |-> IF w \in sent THEN NoSub ELSE Stored[w]]
        BY <1>3, CycleStored
    <2>2. u \in sent
        BY <2>1
    <2>3. QED
        BY <2>1, <2>2 DEF KeptBut, Remove
<1>4. CASE Pods \/ UNCHANGED vars
    <2>1. Stored' = Stored
        BY <1>4, SameStored DEF Pods, vars, fileVars
    <2>2. QED
        BY <2>1
<1>5. QED
    BY <1>1, <1>2, <1>3, <1>4 DEF Next

(* A subscription is taken away or replaced by its own user's sessions, by *)
(* the checker after a mail to its user, or by a death between truncate    *)
(* and flush: the creation of the file outside the flock and the mails     *)
(* between the checker's two reads undo nobody else's (pod_notify.py).     *)
THEOREM Kept == Spec => OthersKeepSubscription
<1>1. Ind /\ [Next]_vars =>
          [\A u \in Account :
              Stored[u] # NoSub /\ Stored'[u] # Stored[u] =>
                  \/ OwnStep(u)
                  \/ call[Checker] = "remove" /\ u \in sent
                  \/ \E p \in Process : at[p] = "write" /\ Die(p)]_vars
    BY StepKeeps DEF KeptBut
<1>2. QED
    BY <1>1, InitInd, NextInd, PTL DEF Spec, OthersKeepSubscription
===============================================================================
