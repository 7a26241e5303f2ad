------------------------- MODULE AuditPipelineProofs -------------------------
(***************************************************************************)
(* The safety properties of AuditPipeline hold for every set of events,    *)
(* sessions and users, every rate limit, window and backlog, wherever the  *)
(* spool is, and for every number of stops and failed appends.             *)
(* AuditPipeline implements AuditTrail.                                    *)
(***************************************************************************)
EXTENDS AuditPipeline, FiniteSetTheorems, SequenceTheorems, TLAPS

USE DEF Identities, Row, Phases, ConnectionPhases, DrainPhases

-------------------------------------------------------------------------------
(* The two sequences the daemon works on.                                  *)

(* Appending to a sequence adds one position and leaves the others alone.  *)
LEMMA AppendFacts ==
    ASSUME NEW S, NEW q \in Seq(S), NEW x \in S, NEW r, r = Append(q, x)
    PROVE  /\ r \in Seq(S)
           /\ Len(q) \in Nat
           /\ Len(r) = Len(q) + 1
           /\ DOMAIN q = 1..Len(q)
           /\ DOMAIN r = DOMAIN q \cup {Len(q) + 1}
           /\ Len(q) + 1 \notin DOMAIN q
           /\ \A i \in DOMAIN q : r[i] = q[i] /\ q[i] \in S
           /\ r[Len(q) + 1] = x
<1>1. Len(q) \in Nat /\ DOMAIN q = 1..Len(q) /\ \A i \in 1..Len(q) : q[i] \in S
    BY LenProperties, ElementOfSeq
<1>2. /\ r \in Seq(S)
      /\ Len(r) = Len(q) + 1
      /\ DOMAIN r = 1..(Len(q) + 1)
      /\ \A i \in 1..Len(q) : r[i] = q[i]
      /\ r[Len(q) + 1] = x
    BY <1>1, AppendProperties, LenProperties
<1>3. 1..(Len(q) + 1) = (1..Len(q)) \cup {Len(q) + 1}
    BY <1>1
<1>4. QED
    BY <1>1, <1>2, <1>3

(* _insert commits one row after all others and leaves those alone.        *)
LEMMA InsertAddsRow ==
    ASSUME db \in Seq(Row), NEW e \in Event, NEW id \in Identities, Insert(e, id)
    PROVE  /\ db' \in Seq(Row)
           /\ Len(db) \in Nat
           /\ Len(db') = Len(db) + 1
           /\ DOMAIN db' = DOMAIN db \cup {Len(db) + 1}
           /\ Len(db) + 1 \notin DOMAIN db
           /\ \A i \in DOMAIN db : db'[i] = db[i] /\ db[i] \in Row
           /\ db'[Len(db) + 1] = [ev |-> e, identity |-> id]
<1>1. [ev |-> e, identity |-> id] \in Row /\ db' = Append(db, [ev |-> e, identity |-> id])
    BY DEF Insert
<1> HIDE DEF Row
<1>2. QED
    BY <1>1, AppendFacts

(* accept() takes the first connection and leaves the others in order.     *)
LEMMA PopShiftsBacklog ==
    ASSUME backlog \in Seq(Event), backlog # <<>>, backlog' = Tail(backlog)
    PROVE  /\ backlog' \in Seq(Event)
           /\ 1 \in DOMAIN backlog
           /\ Head(backlog) = backlog[1]
           /\ Head(backlog) \in Event
           /\ \A i \in DOMAIN backlog' :
                 /\ i + 1 \in DOMAIN backlog
                 /\ i \in Nat \ {0}
                 /\ backlog'[i] = backlog[i + 1]
                 /\ backlog'[i] \in Event
<1>1. Len(backlog) \in Nat \ {0} /\ DOMAIN backlog = 1..Len(backlog)
    BY EmptySeq, LenProperties
<1>2. /\ Tail(backlog) \in Seq(Event)
      /\ Len(Tail(backlog)) = Len(backlog) - 1
      /\ \A i \in 1..Len(Tail(backlog)) : Tail(backlog)[i] = backlog[i + 1]
    BY HeadTailProperties
<1>3. DOMAIN Tail(backlog) = 1..(Len(backlog) - 1)
    BY <1>2, LenProperties
<1>4. \A i \in DOMAIN backlog : backlog[i] \in Event
    BY ElementOfSeq, <1>1
<1>5. QED
    BY <1>1, <1>2, <1>3, <1>4

(* connect() and sendall() put one more connection at the end.             *)
LEMMA SendExtendsBacklog ==
    ASSUME backlog \in Seq(Event), NEW e \in Event, backlog' = Append(backlog, e)
    PROVE  /\ backlog' \in Seq(Event)
           /\ DOMAIN backlog' = DOMAIN backlog \cup {Len(backlog) + 1}
           /\ Len(backlog) + 1 \notin DOMAIN backlog
           /\ \A i \in DOMAIN backlog : backlog'[i] = backlog[i] /\ backlog[i] \in Event
           /\ backlog'[Len(backlog) + 1] = e
    BY AppendFacts

-------------------------------------------------------------------------------
(* Every variable keeps its type.                                          *)
THEOREM TypeCorrect == Spec => []TypeOK
<1>1. Init => TypeOK
    BY NumberAssumption, EmptySeq DEF Init, TypeOK, Stages
<1>2. TypeOK /\ [Next]_vars => TypeOK'
    <2> SUFFICES ASSUME TypeOK, [Next]_vars PROVE TypeOK'
        OBVIOUS
    <2> USE DEF TypeOK, clientVars, daemonVars, logVars, faultVars
    <2>1. ASSUME NEW e \in Event, Log(e) PROVE TypeOK'
        BY <2>1, SendExtendsBacklog DEF Log, BuildEvent, SendToSocket, Stages, InProgress, Returned
    <2>2. ASSUME NEW e \in Event, LogOrBlock(e) PROVE TypeOK'
        BY <2>2, SendExtendsBacklog DEF LogOrBlock, BuildEvent, SendToSocket, Stages, InProgress, Returned
    <2>3. ASSUME NEW e \in Event,
                 GiveUp(e) \/ CreateSpoolFile(e) \/ WriteSpoolFile(e) \/ FailToSpool(e) \/ Kill(e)
          PROVE TypeOK'
        BY <2>3 DEF GiveUp, CreateSpoolFile, WriteSpoolFile, FailToSpool, Kill,
                    Stages, InProgress, Returned
    <2>4. CASE HandleRefuse
        BY <2>4, PopShiftsBacklog DEF HandleRefuse, Respond, Stages, Returned
    <2>5. CASE HandleInsert
        <3>1. Head(backlog) \in Event /\ backlog' \in Seq(Event)
            BY <2>5, PopShiftsBacklog DEF HandleInsert
        <3>2. db' \in Seq(Row)
            BY <2>5, <3>1, InsertAddsRow DEF HandleInsert
        <3>3. QED
            BY <2>5, <3>1, <3>2, EventAssumption DEF HandleInsert
    <2>6. CASE Stop
        BY <2>6, NumberAssumption, EmptySeq DEF Stop
    <2>7. CASE Tick
        BY <2>7, NumberAssumption DEF Tick
    <2>8. CASE HandleAppend \/ DrainAppend
        <3>1. job \in Event /\ jsonl' = Append(jsonl, job)
            BY <2>8 DEF HandleAppend, DrainAppend
        <3>2. jsonl' \in Seq(Event)
            BY <3>1, AppendFacts
        <3>3. QED
            BY <2>8, <3>1, <3>2 DEF HandleAppend, DrainAppend, Respond, Stages, Returned
    <2>9. CASE HandleAppendFails \/ DrainFails
        BY <2>9, NumberAssumption DEF HandleAppendFails, DrainFails
    <2>10. CASE StartDrain \/ Start
        BY <2>10 DEF StartDrain, Start, SpoolFiles
    <2>11. ASSUME NEW e \in Event, DrainInsert(e) PROVE TypeOK'
        BY <2>11, InsertAddsRow, EventAssumption DEF DrainInsert
    <2>12. ASSUME NEW e \in Event, DrainTornFile(e) PROVE TypeOK'
        BY <2>12, EventAssumption DEF DrainTornFile
    <2>13. CASE DrainUnlink \/ EndDrain
        BY <2>13 DEF DrainUnlink, EndDrain
    <2>14. CASE UNCHANGED vars
        BY <2>14 DEF vars
    <2>15. QED
        BY <2>1, <2>2, <2>3, <2>4, <2>5, <2>6, <2>7, <2>8, <2>9, <2>10, <2>11, <2>12,
           <2>13, <2>14 DEF Next, Client, Connection, Drain
<1>3. QED
    BY <1>1, <1>2, PTL DEF Spec

-------------------------------------------------------------------------------
(* How one step can change what the invariants look at.                    *)

(* The log only grows, by one row at a time.                               *)
LEMMA DbStep ==
    ASSUME TypeOK, [Next]_vars
    PROVE  db' = db \/ \E e \in Event, id \in Identities : Insert(e, id)
<1>1. CASE HandleInsert
    <2>1. Head(backlog) \in Event
        BY <1>1, PopShiftsBacklog DEF HandleInsert, TypeOK
    <2>2. QED
        BY <1>1, <2>1 DEF HandleInsert
<1>2. CASE \E e \in Event : DrainInsert(e)
    BY <1>2 DEF DrainInsert
<1>3. CASE db' = db
    BY <1>3
<1>4. QED
    BY <1>1, <1>2, <1>3 DEF Next, vars, Client, Connection, Drain, logVars, daemonVars,
       Log, LogOrBlock, GiveUp, CreateSpoolFile, WriteSpoolFile, FailToSpool, Kill, Tick,
       HandleRefuse, HandleAppend, HandleAppendFails, StartDrain, DrainTornFile,
       DrainAppend, DrainFails, DrainUnlink, EndDrain, Stop, Start

LEMMA RowsStay ==
    ASSUME TypeOK, [Next]_vars
    PROVE  /\ \A i \in DOMAIN db : i \in DOMAIN db' /\ db'[i] = db[i]
           /\ \A e : Recorded(e) => Recorded(e)'
<1>1. \A i \in DOMAIN db : i \in DOMAIN db' /\ db'[i] = db[i]
    BY DbStep, InsertAddsRow DEF TypeOK
<1>2. QED
    BY <1>1 DEF Recorded

LEMMA InsertRecords ==
    ASSUME TypeOK, NEW e \in Event, NEW id \in Identities, Insert(e, id)
    PROVE  Recorded(e)'
<1>1. db \in Seq(Row)
    BY DEF TypeOK
<1>2. DOMAIN db' = DOMAIN db \cup {Len(db) + 1} /\ db'[Len(db) + 1] = [ev |-> e, identity |-> id]
    BY <1>1, InsertAddsRow
<1>3. Len(db) + 1 \in DOMAIN db' /\ db'[Len(db) + 1].ev = e
    BY <1>2
<1>4. QED
    BY <1>3 DEF Recorded

-------------------------------------------------------------------------------
LEMMA StepInvStable ==
    ASSUME TypeOK, StepInv, FileInv, [Next]_vars
    PROVE  StepInv'
<1> USE DEF TypeOK, StepInv, clientVars, daemonVars, logVars, faultVars
<1>1. ASSUME NEW e \in Event, Client(e) PROVE StepInv'
    <2>1. UNCHANGED <<phase, job, torn>>
        BY <1>1 DEF Client, Log, LogOrBlock, GiveUp, CreateSpoolFile, WriteSpoolFile,
                    FailToSpool, Kill
    <2>2. \A f \in Event : spool[f] = "full" => spool'[f] = "full"
        BY <1>1 DEF Client, Log, LogOrBlock, GiveUp, CreateSpoolFile, WriteSpoolFile,
                    FailToSpool, Kill, FileInv
    <2>3. QED
        BY <2>1, <2>2, RowsStay
<1>2. CASE HandleInsert
    <2>1. Head(backlog) \in Event
        BY <1>2, PopShiftsBacklog DEF HandleInsert
    <2>2. QED
        BY <1>2, <2>1, InsertRecords DEF HandleInsert
<1>3. ASSUME NEW e \in Event, DrainInsert(e) PROVE StepInv'
    BY <1>3, InsertRecords DEF DrainInsert
<1>4. ASSUME NEW e \in Event, DrainTornFile(e) PROVE StepInv'
    BY <1>4 DEF DrainTornFile
<1>5. CASE DrainAppend
    <2>1. UNCHANGED <<job, spool, torn, db>> /\ phase = "dappend" /\ phase' = "dunlink"
        BY <1>5 DEF DrainAppend
    <2>2. QED
        BY <2>1, RowsStay
<1>6. CASE \/ HandleAppend \/ HandleAppendFails \/ StartDrain \/ DrainFails
           \/ DrainUnlink \/ EndDrain \/ Stop \/ Start
    BY <1>6 DEF HandleAppend, HandleAppendFails, StartDrain, DrainFails,
                DrainUnlink, EndDrain, Stop, Start
<1>7. CASE HandleRefuse \/ Tick \/ UNCHANGED vars
    <2>1. UNCHANGED <<phase, job, spool, torn>>
        BY <1>7 DEF HandleRefuse, Tick, vars
    <2>2. QED
        BY <2>1, RowsStay
<1>8. QED
    BY <1>1, <1>2, <1>3, <1>4, <1>5, <1>6, <1>7 DEF Next, Connection, Drain

LEMMA FileInvStable ==
    ASSUME TypeOK, StepInv, FileInv, [Next]_vars
    PROVE  FileInv'
<1> USE DEF TypeOK, FileInv, Wiped, clientVars, daemonVars, logVars, faultVars
<1>1. ASSUME NEW e \in Event, Log(e) \/ LogOrBlock(e) \/ GiveUp(e) \/ FailToSpool(e) \/ Kill(e)
      PROVE FileInv'
    BY <1>1 DEF Log, LogOrBlock, BuildEvent, SendToSocket, GiveUp, FailToSpool, Kill, InProgress
<1>2. ASSUME NEW e \in Event, CreateSpoolFile(e) \/ WriteSpoolFile(e) PROVE FileInv'
    BY <1>2 DEF CreateSpoolFile, WriteSpoolFile
<1>3. CASE HandleRefuse
    <2>1. Head(backlog) \in Event
        BY <1>3, PopShiftsBacklog DEF HandleRefuse
    <2>2. QED
        BY <1>3, <2>1 DEF HandleRefuse, Respond
<1>4. CASE HandleAppend
    BY <1>4 DEF HandleAppend, Respond
<1>5. CASE Stop
    BY <1>5 DEF Stop
<1>6. CASE DrainUnlink
    BY <1>6 DEF DrainUnlink, StepInv
<1>7. ASSUME NEW e \in Event, DrainTornFile(e) PROVE FileInv'
    BY <1>7 DEF DrainTornFile
<1>8. CASE UNCHANGED <<stage, spool, torn, stops>>
    BY <1>8
<1>9. QED
    BY <1>1, <1>2, <1>3, <1>4, <1>5, <1>6, <1>7, <1>8 DEF Next, Client, Connection, Drain, vars,
       Tick, HandleInsert, HandleAppendFails, StartDrain, DrainInsert, DrainAppend,
       DrainFails, EndDrain, Start

(* Which calls a step can move, and from where.                            *)
LEMMA StageStep ==
    ASSUME TypeOK, [Next]_vars, NEW e \in Event
    PROVE  /\ stage[e] # "new" => stage'[e] # "new"
           /\ stage[e] = "spooled" => stage'[e] = "spooled"
           /\ stage[e] # "refused" /\ stage'[e] = "refused"
                => HandleRefuse /\ e = Head(backlog) /\ stage[e] = "waiting"
<1> USE DEF TypeOK, clientVars, daemonVars, logVars, faultVars, InProgress
<1>1. ASSUME NEW f \in Event, Client(f)
      PROVE  /\ stage[e] # "new" => stage'[e] # "new"
             /\ stage[e] = "spooled" => stage'[e] = "spooled"
             /\ stage[e] # "refused" => stage'[e] # "refused"
    BY <1>1 DEF Client, Log, LogOrBlock, BuildEvent, GiveUp, CreateSpoolFile, WriteSpoolFile,
                FailToSpool, Kill
<1>2. CASE HandleRefuse
    BY <1>2 DEF HandleRefuse, Respond
<1>3. CASE HandleAppend
    BY <1>3 DEF HandleAppend, Respond
<1>4. CASE UNCHANGED stage
    BY <1>4
<1>5. QED
    BY <1>1, <1>2, <1>3, <1>4 DEF Next, Connection, Drain, vars, Tick, HandleInsert,
       HandleAppendFails, StartDrain, DrainInsert, DrainTornFile, DrainAppend,
       DrainFails, DrainUnlink, EndDrain, Stop, Start

(* A row that the step adds, as the invariants see it.                     *)
LEMMA RowsAfterInsert ==
    ASSUME TypeOK, NEW e \in Event, NEW id \in Identities, Insert(e, id)
    PROVE  /\ Rows(e, id)' = Rows(e, id) \cup {Len(db) + 1}
           /\ Len(db) + 1 \notin Rows(e, id)
           /\ \A f, other : f # e \/ other # id => Rows(f, other)' = Rows(f, other)
<1> HIDE DEF Row, Identities
<1>1. db \in Seq(Row)
    BY DEF TypeOK
<1>2. /\ DOMAIN db' = DOMAIN db \cup {Len(db) + 1}
      /\ Len(db) + 1 \notin DOMAIN db
      /\ \A i \in DOMAIN db : db'[i] = db[i]
      /\ db'[Len(db) + 1] = [ev |-> e, identity |-> id]
    BY <1>1, InsertAddsRow
<1>3. db'[Len(db) + 1].ev = e /\ db'[Len(db) + 1].identity = id
    BY <1>2
<1>4. QED
    BY <1>2, <1>3 DEF Rows

LEMMA QueueInvStable ==
    ASSUME TypeOK, QueueInv, RowInv, [Next]_vars
    PROVE  QueueInv'
<1> USE DEF TypeOK, QueueInv, clientVars, daemonVars, logVars, faultVars
<1> DEFINE Queued(i) == /\ stage[backlog[i]] \notin {"new", "refused"}
                        /\ Rows(backlog[i], "peercred") = {}
<1>0. \A i \in DOMAIN backlog : backlog[i] \in Event
    BY ElementOfSeq, LenProperties
<1>1. ASSUME NEW e \in Event, Log(e) \/ LogOrBlock(e), SendToSocket(e) PROVE QueueInv'
    <2>1. stage[e] = "new" /\ db' = db /\ stage' = [stage EXCEPT ![e] = stage'[e]]
          /\ stage'[e] \in {"sent", "waiting"}
        BY <1>1 DEF Log, LogOrBlock, BuildEvent, SendToSocket
    <2>2. /\ DOMAIN backlog' = DOMAIN backlog \cup {Len(backlog) + 1}
          /\ Len(backlog) + 1 \notin DOMAIN backlog
          /\ \A i \in DOMAIN backlog : backlog'[i] = backlog[i]
          /\ backlog'[Len(backlog) + 1] = e
        BY <1>1, SendExtendsBacklog DEF SendToSocket
    <2>3. \A i \in DOMAIN backlog : backlog[i] # e
        BY <2>1
    <2>4. Rows(e, "peercred") = {}
        BY <2>1 DEF RowInv, Rows
    <2>5. \A f : Rows(f, "peercred")' = Rows(f, "peercred")
        BY <2>1 DEF Rows
    <2>6. \A i \in DOMAIN backlog : stage'[backlog[i]] = stage[backlog[i]]
        BY <2>1, <2>3, <1>0
    <2>7. QED
        BY <2>1, <2>2, <2>3, <2>4, <2>5, <2>6
<1>2. CASE HandleRefuse \/ HandleInsert
    <2>1. /\ backlog # <<>> /\ backlog' = Tail(backlog)
        BY <1>2 DEF HandleRefuse, HandleInsert
    <2>2. /\ Head(backlog) = backlog[1] /\ 1 \in DOMAIN backlog
          /\ \A i \in DOMAIN backlog' :
                i + 1 \in DOMAIN backlog /\ i \in Nat \ {0} /\ backlog'[i] = backlog[i + 1]
        BY <2>1, PopShiftsBacklog
    <2>3. \A i \in DOMAIN backlog' : backlog'[i] # Head(backlog) /\ backlog'[i] \in Event
        BY <2>2, <1>0
    <2>4. \A i \in DOMAIN backlog' : stage'[backlog'[i]] \notin {"new", "refused"}
        BY <2>2, <2>3, StageStep
    <2>5. \A i \in DOMAIN backlog' : Rows(backlog[i], "peercred")' = {}
        <3>1. CASE HandleRefuse
            <4>1. db' = db
                BY <3>1 DEF HandleRefuse
            <4>2. QED
                BY <4>1, <2>2 DEF Rows
        <3>2. CASE HandleInsert
            <4>1. Insert(Head(backlog), "peercred") /\ Head(backlog) \in Event
                BY <3>2, <2>2, <1>0 DEF HandleInsert
            <4>2. \A f : f # Head(backlog) => Rows(f, "peercred")' = Rows(f, "peercred")
                BY <4>1, RowsAfterInsert
            <4>3. QED
                BY <4>2, <2>2, <2>3
        <3>3. QED
            BY <3>1, <3>2, <1>2
    <2>6. \A i, j \in DOMAIN backlog' : backlog'[i] = backlog'[j] => i = j
        <3>1. ASSUME NEW i \in DOMAIN backlog', NEW j \in DOMAIN backlog', backlog'[i] = backlog'[j]
              PROVE  i = j
            <4>1. backlog[i + 1] = backlog[j + 1] /\ i + 1 \in DOMAIN backlog /\ j + 1 \in DOMAIN backlog
                BY <3>1, <2>2
            <4>2. i + 1 = j + 1 /\ i \in Nat /\ j \in Nat
                BY <4>1, <3>1, <2>2
            <4>3. QED
                BY <4>2
        <3>2. QED
            BY <3>1
    <2>7. QED
        BY <2>4, <2>5, <2>6
<1>3. CASE Stop
    BY <1>3, EmptySeq DEF Stop
<1>4. ASSUME backlog' = backlog, ~HandleRefuse,
             \A f : Rows(f, "peercred")' = Rows(f, "peercred")
      PROVE  QueueInv'
    BY <1>4, <1>0, StageStep
<1>5. ASSUME NEW e \in Event, DrainInsert(e) PROVE QueueInv'
    <2>1. \A f : Rows(f, "peercred")' = Rows(f, "peercred")
        BY <1>5, RowsAfterInsert DEF DrainInsert
    <2>2. phase # "select" /\ backlog' = backlog
        BY <1>5 DEF DrainInsert
    <2>3. QED
        BY <2>1, <2>2, <1>4 DEF HandleRefuse
<1>6. ASSUME UNCHANGED <<backlog, db>>, ~HandleRefuse PROVE QueueInv'
    BY <1>6, <1>4 DEF Rows
<1>7. CASE HandleAppend \/ HandleAppendFails
    BY <1>7, <1>6 DEF HandleAppend, HandleAppendFails, HandleRefuse
<1>8. ASSUME NEW e \in Event, Client(e), ~SendToSocket(e) PROVE QueueInv'
    <2>1. UNCHANGED <<backlog, db>>
        BY <1>8 DEF Client, Log, LogOrBlock, GiveUp, CreateSpoolFile, WriteSpoolFile,
                    FailToSpool, Kill
    <2>2. CASE HandleRefuse
        BY <2>2, <1>2
    <2>3. QED
        BY <2>1, <2>2, <1>6
<1>9. ASSUME NEW e \in Event, Client(e), SendToSocket(e) PROVE QueueInv'
    <2>1. CASE Log(e) \/ LogOrBlock(e)
        BY <2>1, <1>9, <1>1
    <2>2. CASE ~(Log(e) \/ LogOrBlock(e))
        <3>1. UNCHANGED <<backlog, db>>
            BY <2>2, <1>9 DEF Client, GiveUp, CreateSpoolFile, WriteSpoolFile, FailToSpool, Kill
        <3>2. QED
            BY <3>1, <1>2, <1>6
    <2>3. QED
        BY <2>1, <2>2
<1>10. ASSUME UNCHANGED <<backlog, db>> PROVE QueueInv'
    BY <1>10, <1>2, <1>6
<1>11. QED
    BY <1>2, <1>3, <1>5, <1>7, <1>8, <1>9, <1>10 DEF Next, Connection, Drain, vars, Tick,
       StartDrain, DrainTornFile, DrainAppend, DrainFails, DrainUnlink, EndDrain, Start

LEMMA RowInvStable ==
    ASSUME TypeOK, FileInv, QueueInv, RowInv, [Next]_vars
    PROVE  RowInv'
<1> USE DEF RowInv, clientVars, daemonVars, logVars, faultVars
<1> HIDE DEF Row, Identities
<1>0. /\ db \in Seq(Row)
      /\ backlog \in Seq(Event)
      /\ \A i \in DOMAIN db : db[i] \in Row
    BY ElementOfSeq, LenProperties DEF TypeOK
<1>1. ASSUME NEW e \in Event, NEW id \in Identities, Insert(e, id), stage' = stage,
             stage[e] \notin {"new", "refused"},
             id = "spooled" => stage[e] = "spooled",
             id = "peercred" => Rows(e, "peercred") = {}
      PROVE  RowInv'
    <2>1. /\ DOMAIN db' = DOMAIN db \cup {Len(db) + 1}
          /\ Len(db) + 1 \notin DOMAIN db
          /\ \A i \in DOMAIN db : db'[i] = db[i]
          /\ db'[Len(db) + 1] = [ev |-> e, identity |-> id]
        BY <1>0, <1>1, InsertAddsRow
    <2>2. db'[Len(db) + 1].ev = e /\ db'[Len(db) + 1].identity = id
        BY <2>1
    <2>3. \A i \in DOMAIN db : db[i] = db'[Len(db) + 1] => id # "peercred"
        BY <2>2, <1>1 DEF Rows
    <2>4. \A i \in DOMAIN db' :
             /\ stage'[db'[i].ev] \notin {"new", "refused"}
             /\ db'[i].identity = "spooled" => stage'[db'[i].ev] = "spooled"
        BY <1>1, <2>1, <2>2
    <2>5. \A i, j \in DOMAIN db' :
             db'[i] = db'[j] /\ db'[i].identity = "peercred" => i = j
        BY <2>1, <2>2, <2>3
    <2>6. QED
        BY <2>4, <2>5
<1>2. CASE HandleInsert
    <2>1. Insert(Head(backlog), "peercred") /\ stage' = stage /\ backlog # <<>>
          /\ backlog' = Tail(backlog)
        BY <1>2 DEF HandleInsert
    <2>2. Head(backlog) \in Event /\ Head(backlog) = backlog[1] /\ 1 \in DOMAIN backlog
        BY <2>1, <1>0, PopShiftsBacklog
    <2>3. stage[Head(backlog)] \notin {"new", "refused"} /\ Rows(Head(backlog), "peercred") = {}
        BY <2>2 DEF QueueInv
    <2>4. QED
        BY <2>1, <2>2, <2>3, <1>1 DEF Identities
<1>3. ASSUME NEW e \in Event, DrainInsert(e) PROVE RowInv'
    <2>1. Insert(e, "spooled") /\ stage' = stage /\ stage[e] = "spooled"
        BY <1>3 DEF DrainInsert, FileInv
    <2>2. QED
        BY <2>1, <1>1 DEF Identities
<1>4. ASSUME db' = db PROVE RowInv'
    <2>1. ASSUME NEW i \in DOMAIN db
          PROVE  /\ stage'[db[i].ev] \notin {"new", "refused"}
                 /\ db[i].identity = "spooled" => stage'[db[i].ev] = "spooled"
        <3>1. db[i].ev \in Event /\ db[i].identity \in {"peercred", "spooled"}
            BY <1>0, <2>1 DEF Row, Identities
        <3>2. ~(HandleRefuse /\ db[i].ev = Head(backlog) /\ stage[db[i].ev] = "waiting")
            <4> SUFFICES ASSUME HandleRefuse, db[i].ev = Head(backlog), stage[db[i].ev] = "waiting"
                         PROVE  FALSE
                OBVIOUS
            <4>1. db[i].identity = "peercred"
                BY <3>1, <2>1
            <4>2. Head(backlog) = backlog[1] /\ 1 \in DOMAIN backlog
                BY <1>0, PopShiftsBacklog DEF HandleRefuse
            <4>3. Rows(db[i].ev, "peercred") = {}
                BY <4>2 DEF QueueInv
            <4>4. QED
                BY <4>1, <4>3, <2>1 DEF Rows
        <3>3. QED
            BY <3>1, <3>2, <2>1, StageStep
    <2>2. QED
        BY <2>1, <1>4
<1>5. QED
    BY <1>2, <1>3, <1>4 DEF Next, vars, Client, Connection, Drain,
       Log, LogOrBlock, GiveUp, CreateSpoolFile, WriteSpoolFile, FailToSpool, Kill, Tick,
       HandleRefuse, HandleAppend, HandleAppendFails, StartDrain, DrainTornFile,
       DrainAppend, DrainFails, DrainUnlink, EndDrain, Stop, Start

-------------------------------------------------------------------------------
LEMMA RowsFinite ==
    ASSUME TypeOK, NEW e, NEW id
    PROVE  IsFiniteSet(Rows(e, id)) /\ Cardinality(Rows(e, id)) \in Nat
<1>1. Len(db) \in Nat /\ DOMAIN db = 1..Len(db)
    BY LenProperties DEF TypeOK
<1>2. IsFiniteSet(1..Len(db))
    BY <1>1, FS_Interval
<1>3. Rows(e, id) \subseteq 1..Len(db)
    BY <1>1 DEF Rows
<1>4. QED
    BY <1>2, <1>3, FS_Subset, FS_CardinalityType

Retries(e) == stops + faults + IF spool[e] = "full" /\ ~BeingDrained(e) THEN 0 ELSE 1

LEMMA RetryInvStable ==
    ASSUME TypeOK, StepInv, FileInv, RowInv, RetryInv, [Next]_vars
    PROVE  RetryInv'
<1> USE DEF TypeOK, clientVars, daemonVars, logVars, faultVars
<1>1. SUFFICES ASSUME NEW e \in Event PROVE Cardinality(Rows(e, "spooled"))' <= Retries(e)'
    BY DEF RetryInv, Retries
<1>2. /\ Cardinality(Rows(e, "spooled")) \in Nat
      /\ Cardinality(Rows(e, "spooled")) <= Retries(e)
      /\ stops \in Nat /\ faults \in Nat
    BY RowsFinite, NumberAssumption DEF RetryInv, Retries
<1>3. ASSUME Rows(e, "spooled")' = Rows(e, "spooled"), UNCHANGED <<stops, faults>>,
             spool'[e] = "full" /\ ~BeingDrained(e)' => spool[e] = "full" /\ ~BeingDrained(e)
      PROVE  Cardinality(Rows(e, "spooled"))' <= Retries(e)'
    BY <1>2, <1>3 DEF Retries
<1>4. CASE HandleInsert
    <2>1. Insert(Head(backlog), "peercred") /\ Head(backlog) \in Event
        BY <1>4, PopShiftsBacklog DEF HandleInsert
    <2>2. Rows(e, "spooled")' = Rows(e, "spooled")
        BY <2>1, RowsAfterInsert
    <2>3. QED
        BY <1>4, <2>2, <1>3 DEF HandleInsert, BeingDrained
<1>5. ASSUME NEW f \in Event, DrainInsert(f)
      PROVE  Cardinality(Rows(e, "spooled"))' <= Retries(e)'
    <2>1. CASE f = e
        <3>1. Rows(e, "spooled")' = Rows(e, "spooled") \cup {Len(db) + 1}
              /\ Len(db) + 1 \notin Rows(e, "spooled")
            BY <1>5, <2>1, RowsAfterInsert DEF DrainInsert
        <3>2. Cardinality(Rows(e, "spooled"))' = Cardinality(Rows(e, "spooled")) + 1
            BY <3>1, RowsFinite, FS_AddElement
        <3>3. Retries(e) = stops + faults /\ Retries(e)' = stops + faults + 1
            BY <1>5, <2>1, <1>2 DEF DrainInsert, Retries, BeingDrained
        <3>4. QED
            BY <3>2, <3>3, <1>2
    <2>2. CASE f # e
        <3>1. Rows(e, "spooled")' = Rows(e, "spooled")
            BY <1>5, <2>2, RowsAfterInsert DEF DrainInsert
        <3>2. QED
            BY <1>5, <3>1, <1>3 DEF DrainInsert, BeingDrained
    <2>3. QED
        BY <2>1, <2>2
<1>6. CASE HandleAppendFails \/ DrainFails \/ Stop
    <2>1. Rows(e, "spooled")' = Rows(e, "spooled")
        BY <1>6 DEF HandleAppendFails, DrainFails, Stop, Rows
    <2>2. stops' + faults' = stops + faults + 1
        BY <1>6, <1>2 DEF HandleAppendFails, DrainFails, Stop
    <2>3. stops' \in Nat /\ faults' \in Nat
        BY <1>6, <1>2 DEF HandleAppendFails, DrainFails, Stop
    <2>4. Cardinality(Rows(e, "spooled"))' = Cardinality(Rows(e, "spooled"))
        BY <2>1
    <2>5. Retries(e) <= stops + faults + 1 /\ Retries(e) \in Nat
        BY <1>2 DEF Retries
    <2>6. Retries(e)' \in {stops' + faults', stops' + faults' + 1}
        BY <2>3 DEF Retries
    <2>7. Cardinality(Rows(e, "spooled"))' <= stops' + faults'
        BY <2>2, <2>4, <2>5, <1>2
    <2>8. QED
        BY <2>3, <2>4, <2>6, <2>7, <1>2
<1>7. ASSUME NEW f \in Event, WriteSpoolFile(f)
      PROVE  Cardinality(Rows(e, "spooled"))' <= Retries(e)'
    <2>1. CASE f = e
        <3>1. stage[e] # "spooled"
            BY <1>7, <2>1 DEF WriteSpoolFile
        <3>2. Rows(e, "spooled") = {} /\ Rows(e, "spooled")' = Rows(e, "spooled")
            BY <1>7, <3>1 DEF WriteSpoolFile, RowInv, Rows
        <3>3. Cardinality(Rows(e, "spooled"))' = 0
            BY <3>2, FS_EmptySet
        <3>4. QED
            BY <3>3, <1>2, <1>7 DEF WriteSpoolFile, Retries
    <2>2. CASE f # e
        BY <1>7, <2>2, <1>3 DEF WriteSpoolFile, Rows, BeingDrained
    <2>3. QED
        BY <2>1, <2>2
<1>8. ASSUME NEW f \in Event, DrainTornFile(f)
      PROVE  Cardinality(Rows(e, "spooled"))' <= Retries(e)'
    BY <1>8, <1>3 DEF DrainTornFile, Rows, BeingDrained
<1>9. CASE DrainUnlink
    BY <1>9, <1>3 DEF DrainUnlink, Rows, BeingDrained
<1>10. ASSUME NEW f \in Event, Client(f), ~WriteSpoolFile(f)
       PROVE  Cardinality(Rows(e, "spooled"))' <= Retries(e)'
    BY <1>10, <1>3 DEF Client, Log, LogOrBlock, GiveUp, CreateSpoolFile, FailToSpool, Kill,
                       Rows, BeingDrained
<1>11. CASE \/ HandleRefuse \/ HandleAppend \/ StartDrain \/ DrainAppend
            \/ EndDrain \/ Start \/ Tick \/ UNCHANGED vars
    BY <1>11, <1>3 DEF HandleRefuse, HandleAppend, StartDrain, DrainAppend, EndDrain, Start,
                       Tick, vars, Rows, BeingDrained
<1>12. QED
    BY <1>4, <1>5, <1>6, <1>7, <1>8, <1>9, <1>10, <1>11 DEF Next, Connection, Drain

-------------------------------------------------------------------------------
(* The inductive invariant.                                                *)
THEOREM Invariance == Spec => []IInv
<1>1. Init => IInv
    <2> SUFFICES ASSUME Init PROVE IInv
        OBVIOUS
    <2>1. TypeOK
        BY NumberAssumption, EmptySeq DEF Init, TypeOK, Stages
    <2>2. StepInv /\ FileInv
        BY DEF Init, StepInv, FileInv
    <2>3. DOMAIN db = {} /\ DOMAIN backlog = {}
        BY EmptySeq, LenProperties DEF Init
    <2>4. QueueInv /\ RowInv
        BY <2>3 DEF QueueInv, RowInv
    <2>5. RetryInv
        <3>1. \A e \in Event : Rows(e, "spooled") = {}
            BY <2>3 DEF Rows
        <3>2. \A e \in Event : Cardinality(Rows(e, "spooled")) = 0
            BY <3>1, FS_EmptySet
        <3>3. QED
            BY <3>2 DEF Init, RetryInv
    <2>6. QED
        BY <2>1, <2>2, <2>4, <2>5 DEF IInv
<1>2. IInv /\ TypeOK' /\ [Next]_vars => IInv'
    BY StepInvStable, FileInvStable, QueueInvStable, RowInvStable, RetryInvStable DEF IInv
<1>3. QED
    BY <1>1, <1>2, TypeCorrect, PTL DEF Spec

(* audit.db holds an event once from its connection, and from its spool    *)
(* file no more than once for each stop and each failed append, plus one.  *)
THEOREM Duplicates == Spec => []DuplicatesAreAccounted
<1>1. IInv => DuplicatesAreAccounted
    <2> SUFFICES ASSUME IInv, NEW e \in Event
                 PROVE  /\ Cardinality(Rows(e, "peercred")) <= 1
                        /\ Cardinality(Rows(e, "spooled")) <= 1 + stops + faults
        BY DEF DuplicatesAreAccounted
    <2> USE DEF IInv
    <2>1. Cardinality(Rows(e, "peercred")) <= 1
        <3>1. CASE Rows(e, "peercred") = {}
            BY <3>1, FS_EmptySet
        <3>2. CASE Rows(e, "peercred") # {}
            <4>1. PICK i \in Rows(e, "peercred") : TRUE
                BY <3>2
            <4> HIDE DEF Row, Identities
            <4>2. \A j \in DOMAIN db : db[j] \in Row
                BY ElementOfSeq, LenProperties DEF TypeOK
            <4>3. \A j \in Rows(e, "peercred") : db[j] = [ev |-> e, identity |-> "peercred"]
                <5>1. ASSUME NEW j \in Rows(e, "peercred")
                      PROVE  db[j] = [ev |-> e, identity |-> "peercred"]
                    <6>1. db[j] \in Row /\ db[j].ev = e /\ db[j].identity = "peercred"
                        BY <4>2, <5>1 DEF Rows
                    <6>2. QED
                        BY <6>1 DEF Row
                <5>2. QED
                    BY <5>1
            <4>4. Rows(e, "peercred") = {i}
                BY <4>1, <4>3 DEF Rows, RowInv
            <4>5. QED
                BY <4>4, FS_Singleton
        <3>3. QED
            BY <3>1, <3>2
    <2>2. Cardinality(Rows(e, "spooled")) <= 1 + stops + faults
        <3>1. /\ Cardinality(Rows(e, "spooled")) \in Nat
              /\ Cardinality(Rows(e, "spooled")) <= Retries(e)
              /\ stops \in Nat /\ faults \in Nat
            BY RowsFinite, NumberAssumption DEF RetryInv, Retries, TypeOK
        <3>2. QED
            BY <3>1 DEF Retries
    <2>3. QED
        BY <2>1, <2>2
<1>2. QED
    BY <1>1, Invariance, PTL

(* An acknowledged event is in audit.db and in audit.jsonl, for good.      *)
THEOREM Acknowledged == Spec => []AckedIsInBoth
<1>1. Init => AckedIsInBoth
    BY DEF Init, AckedIsInBoth
<1>2. IInv /\ AckedIsInBoth /\ [Next]_vars => AckedIsInBoth'
    <2> SUFFICES ASSUME IInv, AckedIsInBoth, [Next]_vars, NEW e \in Event, stage'[e] = "acked"
                 PROVE  Recorded(e)' /\ Written(e)'
        BY DEF AckedIsInBoth
    <2> USE DEF IInv
    <2>1. Recorded(e) => Recorded(e)'
        BY RowsStay
    <2>2. ASSUME NEW f \in Event, jsonl' = Append(jsonl, f)
          PROVE  Written(f)' /\ (Written(e) => Written(e)')
        <3>1. /\ DOMAIN jsonl' = DOMAIN jsonl \cup {Len(jsonl) + 1}
              /\ \A i \in DOMAIN jsonl : jsonl'[i] = jsonl[i]
              /\ jsonl'[Len(jsonl) + 1] = f
            BY <2>2, AppendFacts DEF TypeOK
        <3>2. QED
            BY <3>1 DEF Written
    <2>3. CASE HandleAppend
        <3>1. job \in Event /\ jsonl' = Append(jsonl, job) /\ db' = db /\ Recorded(job)
            BY <2>3 DEF HandleAppend, TypeOK, StepInv
        <3>2. e = job \/ stage[e] = "acked"
            BY <2>3 DEF HandleAppend, Respond, TypeOK
        <3>3. CASE e = job
            BY <3>1, <3>3, <2>1, <2>2
        <3>4. CASE stage[e] = "acked"
            BY <3>1, <3>4, <2>1, <2>2 DEF AckedIsInBoth
        <3>5. QED
            BY <3>2, <3>3, <3>4
    <2>4. CASE DrainAppend
        <3>1. job \in Event /\ jsonl' = Append(jsonl, job) /\ stage' = stage
            BY <2>4 DEF DrainAppend, TypeOK
        <3>2. QED
            BY <3>1, <2>1, <2>2 DEF AckedIsInBoth
    <2>5. ASSUME stage[e] = "acked", jsonl' = jsonl PROVE Recorded(e)' /\ Written(e)'
        BY <2>5, <2>1 DEF AckedIsInBoth, Written
    <2>6. CASE HandleRefuse
        BY <2>6, <2>5 DEF HandleRefuse, Respond, TypeOK, logVars
    <2>7. ASSUME NEW f \in Event, Client(f) PROVE Recorded(e)' /\ Written(e)'
        BY <2>7, <2>5 DEF Client, Log, LogOrBlock, GiveUp, CreateSpoolFile, WriteSpoolFile,
                          FailToSpool, Kill, TypeOK, logVars
    <2>8. ASSUME UNCHANGED <<stage, jsonl>> PROVE Recorded(e)' /\ Written(e)'
        BY <2>8, <2>5
    <2>9. QED
        BY <2>3, <2>4, <2>6, <2>7, <2>8 DEF Next, vars, Connection, Drain, Tick, logVars,
           HandleInsert, HandleAppendFails, StartDrain, DrainInsert, DrainTornFile,
           DrainFails, DrainUnlink, EndDrain, Stop, Start
<1>3. QED
    BY <1>1, <1>2, Invariance, PTL DEF Spec

(* A spooled event is kept until it is recorded, but for the two named     *)
(* ways out.                                                               *)
THEOREM SpoolKeeps == Spec => []SpooledIsNotLost
<1>1. Init => SpooledIsNotLost
    BY DEF Init, SpooledIsNotLost
<1>2. IInv /\ SpooledIsNotLost /\ [Next]_vars => SpooledIsNotLost'
    <2> SUFFICES ASSUME IInv, SpooledIsNotLost, [Next]_vars, NEW e \in Event,
                        stage'[e] = "spooled", e \notin torn', ~Wiped'
                 PROVE  Recorded(e)' \/ spool'[e] = "full"
        BY DEF SpooledIsNotLost
    <2> USE DEF IInv, TypeOK, Wiped, clientVars, daemonVars, logVars, faultVars
    <2>1. Recorded(e) => Recorded(e)'
        BY RowsStay
    <2>2. ASSUME stage[e] = "spooled", e \notin torn, ~Wiped, spool[e] = "full" => spool'[e] = "full"
          PROVE  Recorded(e)' \/ spool'[e] = "full"
        BY <2>1, <2>2 DEF SpooledIsNotLost
    <2>3. ASSUME NEW f \in Event, WriteSpoolFile(f)
          PROVE  Recorded(e)' \/ spool'[e] = "full"
        BY <2>3, <2>2 DEF WriteSpoolFile, FileInv
    <2>4. ASSUME NEW f \in Event, Client(f), ~WriteSpoolFile(f)
          PROVE  Recorded(e)' \/ spool'[e] = "full"
        BY <2>4, <2>2 DEF Client, Log, LogOrBlock, GiveUp, CreateSpoolFile, FailToSpool, Kill
    <2>5. CASE HandleRefuse \/ HandleAppend
        BY <2>5, <2>2 DEF HandleRefuse, HandleAppend, Respond
    <2>6. CASE DrainUnlink
        <3>1. CASE e = job
            BY <3>1, <2>6, <2>1 DEF DrainUnlink, StepInv
        <3>2. CASE e # job
            BY <3>2, <2>6, <2>2 DEF DrainUnlink
        <3>3. QED
            BY <3>1, <3>2
    <2>7. CASE Stop
        BY <2>7, <2>2 DEF Stop
    <2>8. ASSUME NEW f \in Event, DrainTornFile(f)
          PROVE  Recorded(e)' \/ spool'[e] = "full"
        BY <2>8, <2>2 DEF DrainTornFile
    <2>9. CASE UNCHANGED <<stage, torn, stops, spool>>
        BY <2>9, <2>2
    <2>10. QED
        BY <2>3, <2>4, <2>5, <2>6, <2>7, <2>8, <2>9 DEF Next, vars, Connection, Drain, Tick,
           HandleInsert, HandleAppendFails, StartDrain, DrainInsert, DrainAppend,
           DrainFails, EndDrain, Start
<1>3. QED
    BY <1>1, <1>2, Invariance, PTL DEF Spec

(* audit.jsonl is never ahead of audit.db, and behind it by the append     *)
(* under way and those that a stop or an I/O error prevented.              *)
THEOREM JsonlLags == Spec => []JsonlFollowsDb
<1> DEFINE pending == IF phase \in {"append", "dappend"} THEN 1 ELSE 0
<1>1. Init => JsonlFollowsDb
    BY EmptySeq DEF Init, JsonlFollowsDb
<1>2. IInv /\ JsonlFollowsDb /\ [Next]_vars => JsonlFollowsDb'
    <2> SUFFICES ASSUME IInv, JsonlFollowsDb, [Next]_vars PROVE JsonlFollowsDb'
        OBVIOUS
    <2>1. /\ Len(db) \in Nat /\ Len(jsonl) \in Nat /\ stops \in Nat /\ faults \in Nat
          /\ pending \in {0, 1}
          /\ Len(jsonl) + pending <= Len(db)
          /\ Len(db) <= Len(jsonl) + pending + stops + faults
        BY LenProperties, NumberAssumption DEF IInv, TypeOK, JsonlFollowsDb
    <2> USE DEF clientVars, daemonVars, logVars, faultVars
    <2>2. CASE HandleInsert \/ \E e \in Event : DrainInsert(e)
        <3>1. Len(db') = Len(db) + 1
            <4>1. PICK e \in Event, id \in Identities : Insert(e, id)
                BY <2>2, PopShiftsBacklog DEF HandleInsert, DrainInsert, IInv, TypeOK
            <4>2. QED
                BY <4>1, InsertAddsRow DEF IInv, TypeOK
        <3>2. /\ pending = 0 /\ pending' = 1
              /\ UNCHANGED <<jsonl, stops, faults>>
            BY <2>2 DEF HandleInsert, DrainInsert
        <3>3. QED
            BY <3>1, <3>2, <2>1 DEF JsonlFollowsDb
    <2>3. CASE HandleAppend \/ DrainAppend
        <3>1. Len(jsonl') = Len(jsonl) + 1
            BY <2>3, AppendFacts DEF HandleAppend, DrainAppend, IInv, TypeOK
        <3>2. /\ pending = 1 /\ pending' = 0
              /\ UNCHANGED <<db, stops, faults>>
            BY <2>3 DEF HandleAppend, DrainAppend
        <3>3. QED
            BY <3>1, <3>2, <2>1 DEF JsonlFollowsDb
    <2>4. CASE HandleAppendFails \/ DrainFails \/ Stop
        <3>1. /\ pending' = 0
              /\ UNCHANGED <<db, jsonl>>
              /\ \/ stops' = stops /\ faults' = faults + 1
                 \/ stops' = stops + 1 /\ faults' = faults
            BY <2>4 DEF HandleAppendFails, DrainFails, Stop
        <3> HIDE DEF pending
        <3>2. /\ Len(jsonl') + pending' <= Len(db')
              /\ Len(db') <= Len(jsonl') + pending' + stops' + faults'
            BY <3>1, <2>1
        <3>3. QED
            BY <3>2 DEF JsonlFollowsDb, pending
    <2>5. ASSUME pending' = pending, UNCHANGED <<db, jsonl, stops, faults>>
          PROVE  JsonlFollowsDb'
        BY <2>1, <2>5 DEF JsonlFollowsDb
    <2>6. ASSUME NEW e \in Event, Client(e) PROVE JsonlFollowsDb'
        BY <2>6, <2>5 DEF Client, Log, LogOrBlock, GiveUp, CreateSpoolFile, WriteSpoolFile,
                          FailToSpool, Kill
    <2>7. CASE HandleRefuse \/ StartDrain \/ EndDrain \/ DrainUnlink \/ Start \/ Tick
               \/ (\E e \in Event : DrainTornFile(e)) \/ UNCHANGED vars
        <3>1. pending' = pending /\ UNCHANGED <<db, jsonl, stops, faults>>
            BY <2>7 DEF HandleRefuse, StartDrain, EndDrain, DrainUnlink, Start, Tick,
                        DrainTornFile, vars
        <3>2. QED
            BY <3>1, <2>5
    <2>8. QED
        BY <2>2, <2>3, <2>4, <2>6, <2>7 DEF Next, Connection, Drain
<1>3. QED
    BY <1>1, <1>2, Invariance, PTL DEF Spec

-------------------------------------------------------------------------------
(* The rate limit.                                                         *)

LEMMA LiveFinite ==
    ASSUME TypeOK, NEW u
    PROVE  /\ LiveSubmissions(u) \subseteq RecentSubmissions(u)
           /\ IsFiniteSet(RecentSubmissions(u))
           /\ IsFiniteSet(LiveSubmissions(u))
           /\ Cardinality(LiveSubmissions(u)) \in Nat
           /\ Cardinality(RecentSubmissions(u)) \in Nat
           /\ Cardinality(LiveSubmissions(u)) <= Cardinality(RecentSubmissions(u))
<1>1. Len(db) \in Nat /\ DOMAIN db = 1..Len(db)
    BY LenProperties DEF TypeOK
<1>2. IsFiniteSet(1..Len(db))
    BY <1>1, FS_Interval
<1>3. RecentSubmissions(u) \subseteq 1..Len(db) /\ LiveSubmissions(u) \subseteq RecentSubmissions(u)
    BY <1>1 DEF RecentSubmissions, LiveSubmissions
<1>4. QED
    BY <1>2, <1>3, FS_Subset, FS_CardinalityType

(* A step that inserts no row leaves no more submissions in the window:    *)
(* the clock only moves on, and a row's ts does not change.                *)
LEMMA WindowShrinks ==
    ASSUME IInv, [Next]_vars, db' = db, NEW u
    PROVE  LiveSubmissions(u)' \subseteq LiveSubmissions(u)
<1> SUFFICES ASSUME NEW i \in DOMAIN db, Recent(db[i].ev)' PROVE Recent(db[i].ev)
    BY DEF LiveSubmissions, RecentSubmissions
<1> DEFINE e == db[i].ev
<1>1. e \in Event /\ stage[e] # "new"
    <2> HIDE DEF Row
    <2>1. db[i] \in Row
        BY ElementOfSeq, LenProperties DEF IInv, TypeOK
    <2>2. db[i].ev \in Event
        BY <2>1 DEF Row
    <2>3. QED
        BY <2>2 DEF IInv, RowInv
<1>2. clock' >= clock /\ clock \in Nat /\ clock' \in Nat
    BY NumberAssumption DEF IInv, TypeOK, Next, vars, clientVars, Client, Connection, Drain, Tick,
       Log, LogOrBlock, BuildEvent, GiveUp, CreateSpoolFile, WriteSpoolFile, FailToSpool, Kill,
       HandleRefuse, HandleInsert, HandleAppend, HandleAppendFails, StartDrain, DrainTornFile,
       DrainInsert, DrainAppend, DrainFails, DrainUnlink, EndDrain, Stop, Start
<1> HIDE DEF e
<1>3. ts'[e] = ts[e] /\ ts[e] \in Nat
    <2>1. ts \in [Event -> Nat]
        BY NumberAssumption DEF IInv, TypeOK
    <2>2. ASSUME NEW f \in Event, BuildEvent(f) PROVE ts'[e] = ts[e]
        BY <1>1, <2>1, <2>2 DEF BuildEvent
    <2>3. CASE ts' = ts
        BY <1>1, <2>1, <2>3
    <2>4. QED
        BY <1>1, <2>1, <2>2, <2>3 DEF Next, vars, clientVars, Client, Connection, Drain,
           Tick, Log, LogOrBlock, GiveUp, CreateSpoolFile, WriteSpoolFile, FailToSpool, Kill,
           HandleRefuse, HandleInsert, HandleAppend, HandleAppendFails, StartDrain, DrainTornFile,
           DrainInsert, DrainAppend, DrainFails, DrainUnlink, EndDrain, Stop, Start
<1>4. QED
    BY <1>2, <1>3, NumberAssumption DEF Recent, e

(* At most JobRateLimit submissions of a user in the window are let in by  *)
(* the daemon.                                                             *)
THEOREM RateLimited == Spec => []LiveWithinLimit
<1> DEFINE Live(u) == LiveSubmissions(u)
<1>1. Init => LiveWithinLimit
    <2> SUFFICES ASSUME Init, NEW e \in JobSubmit
                 PROVE  Cardinality(LiveSubmissions(UserOf[SessionOf[e]])) <= JobRateLimit
        BY DEF LiveWithinLimit
    <2>1. DOMAIN db = {}
        BY EmptySeq, LenProperties DEF Init
    <2>2. LiveSubmissions(UserOf[SessionOf[e]]) = {}
        BY <2>1 DEF LiveSubmissions, RecentSubmissions
    <2>3. QED
        BY <2>2, FS_EmptySet, NumberAssumption
<1>2. IInv /\ IInv' /\ LiveWithinLimit /\ [Next]_vars => LiveWithinLimit'
    <2> SUFFICES ASSUME IInv, IInv', LiveWithinLimit, [Next]_vars, NEW s \in JobSubmit, JobRateLimit > 0
                 PROVE  Cardinality(LiveSubmissions(UserOf[SessionOf[s]]))' <= JobRateLimit
        BY DEF LiveWithinLimit
    <2> DEFINE u == UserOf[SessionOf[s]]
    <2>1. /\ Cardinality(LiveSubmissions(u)) <= JobRateLimit
          /\ Cardinality(LiveSubmissions(u)) \in Nat /\ IsFiniteSet(LiveSubmissions(u))
          /\ JobRateLimit \in Nat
        BY LiveFinite, NumberAssumption DEF LiveWithinLimit, IInv
    <2>2. ASSUME NEW S, S = LiveSubmissions(u)', S \subseteq LiveSubmissions(u)
          PROVE  Cardinality(S) <= JobRateLimit
        <3>1. Cardinality(S) <= Cardinality(LiveSubmissions(u)) /\ Cardinality(S) \in Nat
            BY <2>1, <2>2, FS_Subset, FS_CardinalityType
        <3>2. QED
            BY <3>1, <2>1
    <2>3. CASE db' = db
        BY <2>3, <2>2, WindowShrinks
    <2>4. ASSUME NEW e \in Event, NEW id \in Identities, Insert(e, id), UNCHANGED clientVars
          PROVE  /\ LiveSubmissions(u)' \subseteq LiveSubmissions(u) \cup {Len(db) + 1}
                 /\ Len(db) + 1 \notin LiveSubmissions(u)
                 /\ id = "spooled" \/ e \notin JobSubmit \/ UserOf[SessionOf[e]] # u
                        => LiveSubmissions(u)' \subseteq LiveSubmissions(u)
        <3>1. /\ DOMAIN db' = DOMAIN db \cup {Len(db) + 1}
              /\ Len(db) + 1 \notin DOMAIN db
              /\ \A i \in DOMAIN db : db'[i] = db[i]
              /\ db'[Len(db) + 1] = [ev |-> e, identity |-> id]
            BY <2>4, InsertAddsRow DEF IInv, TypeOK
        <3>2. db'[Len(db) + 1].ev = e /\ db'[Len(db) + 1].identity = id
            BY <3>1
        <3>3. \A f : Recent(f)' <=> Recent(f)
            BY <2>4 DEF Recent, clientVars
        <3> HIDE DEF u
        <3>4. QED
            BY <3>1, <3>2, <3>3 DEF LiveSubmissions, RecentSubmissions
    <2>5. CASE HandleInsert
        <3> DEFINE e == Head(backlog)
        <3>1. e \in Event /\ Insert(e, "peercred") /\ UNCHANGED clientVars /\ ~OverLimit(e)
            BY <2>5, PopShiftsBacklog DEF HandleInsert, IInv, TypeOK
        <3> HIDE DEF e
        <3>2. CASE e \notin JobSubmit \/ UserOf[SessionOf[e]] # u
            BY <3>1, <3>2, <2>4, <2>2
        <3>3. CASE e \in JobSubmit /\ UserOf[SessionOf[e]] = u
            <4>1. Cardinality(RecentSubmissions(u)) < JobRateLimit
                BY <3>1, <3>3, LiveFinite, <2>1 DEF OverLimit, IInv
            <4>2. Cardinality(LiveSubmissions(u)) + 1 <= JobRateLimit
                BY <4>1, <2>1, LiveFinite DEF IInv
            <4>3. Cardinality(LiveSubmissions(u) \cup {Len(db) + 1}) = Cardinality(LiveSubmissions(u)) + 1
                  /\ IsFiniteSet(LiveSubmissions(u) \cup {Len(db) + 1})
                BY <3>1, <2>1, <2>4, FS_AddElement
            <4>4. LiveSubmissions(u)' \subseteq LiveSubmissions(u) \cup {Len(db) + 1}
                BY <3>1, <2>4
            <4>5. Cardinality(LiveSubmissions(u))' <= Cardinality(LiveSubmissions(u) \cup {Len(db) + 1})
                BY <4>3, <4>4, FS_Subset
            <4>6. Cardinality(LiveSubmissions(u))' \in Nat
                BY <4>3, <4>4, FS_Subset, FS_CardinalityType
            <4>7. QED
                BY <4>2, <4>3, <4>5, <4>6, <2>1
        <3>4. QED
            BY <3>2, <3>3
    <2>6. ASSUME NEW e \in Event, DrainInsert(e)
          PROVE  Cardinality(LiveSubmissions(u))' <= JobRateLimit
        <3>1. LiveSubmissions(u)' \subseteq LiveSubmissions(u)
            BY <2>6, <2>4 DEF DrainInsert
        <3>2. QED
            BY <3>1, <2>2
    <2>7. QED
        BY <2>3, <2>5, <2>6 DEF Next, vars, Client, Connection, Drain, logVars, daemonVars,
           Log, LogOrBlock, GiveUp, CreateSpoolFile, WriteSpoolFile, FailToSpool, Kill, Tick,
           HandleRefuse, HandleAppend, HandleAppendFails, StartDrain, DrainTornFile,
           DrainAppend, DrainFails, DrainUnlink, EndDrain, Stop, Start
<1>3. QED
    BY <1>1, <1>2, Invariance, PTL DEF Spec

-------------------------------------------------------------------------------
(* AuditPipeline implements AuditTrail: each step of the sessions and of   *)
(* the daemon is a step of the abstract audit trail, or changes nothing of *)
(* it.                                                                     *)

Asked == {e \in Event : stage[e] # "new"}
Answered == [e \in Event |-> AnswerOf(e)]
Recordings == {e \in Event : Recorded(e)}

(* The mapped state is made of three sets of events, so a step is told by  *)
(* what it does to the stage and to the rows of single events.             *)
LEMMA MappedInit == Init => Trail!TrailInit
<1> SUFFICES ASSUME Init PROVE Trail!TrailInit
    OBVIOUS
<1>1. DOMAIN db = {}
    BY EmptySeq, LenProperties DEF Init
<1>2. \A e \in Event : stage[e] = "new" /\ ~Recorded(e)
    BY <1>1 DEF Init, Recorded
<1>3. QED
    BY <1>2 DEF Trail!TrailInit, AnswerOf

(* A step that leaves the rows and every answer alone.                     *)
LEMMA MappedStutter ==
    ASSUME TypeOK, db' = db,
           \A e \in Event : /\ stage[e] = "new" <=> stage'[e] = "new"
                            /\ AnswerOf(e)' = AnswerOf(e)
    PROVE  UNCHANGED Trail!trailVars
<1>1. Asked' = Asked
    BY DEF Asked
<1>2. Answered' = Answered
    BY DEF Answered
<1>3. Recordings' = Recordings
    BY DEF Recordings, Recorded
<1>4. QED
    BY <1>1, <1>2, <1>3 DEF Trail!trailVars, Asked, Answered, Recordings

(* A step that answers one call, and leaves the rows alone.                *)
LEMMA MappedAnswer ==
    ASSUME TypeOK, db' = db, NEW e \in Event, NEW s \in Stages,
           stage[e] = "waiting",
           stage' = [stage EXCEPT ![e] = s],
           s \notin {"new", "waiting"},
           s = "acked" => Recorded(e),
           s = "refused" => ~Recorded(e)
    PROVE  Trail!TrailNext
<1> DEFINE a == AnswerOf(e)'
<1>1. stage'[e] = s /\ \A f \in Event \ {e} : stage'[f] = stage[f]
    BY DEF TypeOK
<1>2. /\ a \in {"recorded", "refused", "open"}
      /\ a = "recorded" => s = "acked"
      /\ a = "refused" => s = "refused"
    BY <1>1 DEF AnswerOf
<1>3. AnswerOf(e) = "none" /\ \A f \in Event \ {e} : AnswerOf(f)' = AnswerOf(f)
    BY <1>1 DEF AnswerOf
<1>4. Answered' = [Answered EXCEPT ![e] = a]
    BY <1>3 DEF Answered
<1>5. Asked' = Asked /\ e \in Asked
    BY <1>1 DEF Asked
<1>6. Recordings' = Recordings /\ (e \in Recordings <=> Recorded(e))
    BY DEF Recordings, Recorded
<1>7. Answered[e] = "none"
    BY <1>3 DEF Answered
<1> HIDE DEF a
<1>8. Trail!Answer(e, a)
    BY <1>2, <1>4, <1>5, <1>6, <1>7 DEF Trail!Answer, Asked, Answered, Recordings
<1>9. a \in Trail!Answers \ {"none"}
    BY <1>2 DEF Trail!Answers
<1>10. QED
    BY <1>8, <1>9 DEF Trail!TrailNext

(* A step that commits a row of a call that was made and not refused.      *)
LEMMA MappedRecord ==
    ASSUME TypeOK, NEW e \in Event, NEW id \in Identities, Insert(e, id),
           stage' = stage,
           stage[e] \notin {"new", "refused"}
    PROVE  Trail!TrailNext
<1>1. Asked' = Asked /\ e \in Asked
    BY DEF Asked
<1>2. Answered' = Answered /\ Answered[e] # "refused"
    BY DEF Answered, AnswerOf
<1>3. Recordings' = Recordings \cup {e}
    <2> HIDE DEF Row, Identities
    <2>1. /\ DOMAIN db' = DOMAIN db \cup {Len(db) + 1}
          /\ \A i \in DOMAIN db : db'[i] = db[i]
          /\ db'[Len(db) + 1] = [ev |-> e, identity |-> id]
        BY InsertAddsRow DEF TypeOK
    <2>2. db'[Len(db) + 1].ev = e
        BY <2>1
    <2>3. \A f \in Event : Recorded(f)' <=> Recorded(f) \/ f = e
        BY <2>1, <2>2 DEF Recorded
    <2>4. QED
        BY <2>3 DEF Recordings
<1>4. Trail!Record(e)
    BY <1>1, <1>2, <1>3 DEF Trail!Record, Asked, Answered, Recordings
<1>5. QED
    BY <1>4 DEF Trail!TrailNext

(* The first step of a call.                                               *)
LEMMA MappedAsk ==
    ASSUME TypeOK, db' = db, NEW e \in Event, NEW s \in {"sent", "waiting", "spooling"},
           stage[e] = "new",
           stage' = [stage EXCEPT ![e] = s]
    PROVE  Trail!TrailNext
<1>1. stage'[e] = s /\ \A f \in Event \ {e} : stage'[f] = stage[f]
    BY DEF TypeOK
<1>2. Asked' = Asked \cup {e} /\ e \notin Asked
    BY <1>1 DEF Asked
<1>3. AnswerOf(e) = "none" /\ AnswerOf(e)' \in {"none", "open"}
    BY <1>1 DEF AnswerOf
<1>4. \A f \in Event \ {e} : AnswerOf(f)' = AnswerOf(f)
    BY <1>1 DEF AnswerOf
<1>5. Answered' \in {Answered, [Answered EXCEPT ![e] = "open"]}
    BY <1>3, <1>4 DEF Answered
<1>6. Recordings' = Recordings
    BY DEF Recordings, Recorded
<1>7. Trail!Ask(e)
    BY <1>2, <1>5, <1>6 DEF Trail!Ask, Asked, Answered, Recordings
<1>8. QED
    BY <1>7 DEF Trail!TrailNext

(* The audit pipeline keeps the promises of the abstract audit trail: one  *)
(* answer per call, "recorded" only of a committed row, "refused" only of  *)
(* an event that has no row then or later, and a log that only grows.      *)
THEOREM Refinement == Spec => ImplementsTrail
<1>1. IInv /\ [Next]_vars => [Trail!TrailNext]_(Trail!trailVars)
    <2> SUFFICES ASSUME IInv, [Next]_vars
                 PROVE  Trail!TrailNext \/ UNCHANGED Trail!trailVars
        OBVIOUS
    <2>0. TypeOK
        BY DEF IInv
    <2> USE DEF clientVars, daemonVars, logVars, faultVars
    <2>1. ASSUME NEW e \in Event, Log(e) \/ LogOrBlock(e) PROVE Trail!TrailNext
        BY <2>0, <2>1, MappedAsk DEF Log, LogOrBlock, BuildEvent
    <2>2. ASSUME NEW e \in Event, GiveUp(e) PROVE Trail!TrailNext
        <3>1. /\ stage[e] = "waiting" /\ db' = db
              /\ stage' = [stage EXCEPT ![e] = "spooling"]
            BY <2>2 DEF GiveUp
        <3>2. "spooling" \in Stages
            BY DEF Stages, InProgress
        <3>3. QED
            BY <2>0, <3>1, <3>2, MappedAnswer
    <2>3. ASSUME NEW e \in Event, Kill(e)
          PROVE  Trail!TrailNext \/ UNCHANGED Trail!trailVars
        <3>1. CASE stage[e] = "waiting"
            <4>1. stage' = [stage EXCEPT ![e] = "killed"] /\ db' = db
                BY <2>3 DEF Kill
            <4>2. "killed" \in Stages
                BY DEF Stages, Returned
            <4>3. QED
                BY <2>0, <3>1, <4>1, <4>2, MappedAnswer
        <3>2. CASE stage[e] # "waiting"
            <4>1. /\ stage[e] \in {"spooling", "writing"}
                  /\ stage' = [stage EXCEPT ![e] = "killed"] /\ db' = db
                BY <2>3, <3>2 DEF Kill, InProgress
            <4>2. QED
                BY <2>0, <4>1, MappedStutter DEF TypeOK, AnswerOf
        <3>3. QED
            BY <3>1, <3>2
    <2>4. ASSUME NEW e \in Event, CreateSpoolFile(e) \/ WriteSpoolFile(e) \/ FailToSpool(e)
          PROVE  UNCHANGED Trail!trailVars
        BY <2>0, <2>4, MappedStutter DEF CreateSpoolFile, WriteSpoolFile, FailToSpool, TypeOK,
           AnswerOf
    <2>5. CASE HandleRefuse
        <3> DEFINE e == Head(backlog)
        <3>1. e \in Event /\ e = backlog[1] /\ 1 \in DOMAIN backlog /\ db' = db
            BY <2>0, <2>5, PopShiftsBacklog DEF TypeOK, HandleRefuse
        <3>2. CASE stage[e] = "waiting"
            <4>1. stage' = [stage EXCEPT ![e] = "refused"]
                BY <2>5, <3>2 DEF HandleRefuse, Respond
            <4>2. \A i \in DOMAIN db : db[i].ev # e
                <5> HIDE DEF Row, Identities
                <5> SUFFICES ASSUME NEW i \in DOMAIN db, db[i].ev = e PROVE FALSE
                    OBVIOUS
                <5>1. db[i] \in Row
                    BY <2>0, ElementOfSeq, LenProperties DEF TypeOK
                <5>2. db[i].identity \in {"peercred", "spooled"}
                    BY <5>1 DEF Row, Identities
                <5>3. db[i].identity # "peercred"
                    BY <3>1 DEF IInv, QueueInv, Rows
                <5>4. db[i].identity # "spooled"
                    BY <3>2 DEF IInv, RowInv
                <5>5. QED
                    BY <5>2, <5>3, <5>4
            <4>3. ~Recorded(e)
                BY <4>2 DEF Recorded
            <4>4. "refused" \in Stages
                BY DEF Stages, Returned
            <4> HIDE DEF e
            <4>5. QED
                BY <2>0, <3>1, <3>2, <4>1, <4>3, <4>4, MappedAnswer
        <3>3. CASE stage[e] # "waiting"
            <4>1. stage' = stage
                BY <2>5, <3>3 DEF HandleRefuse, Respond
            <4>2. QED
                BY <2>0, <3>1, <4>1, MappedStutter DEF AnswerOf
        <3>4. QED
            BY <3>2, <3>3
    <2>6. CASE HandleInsert
        <3> DEFINE e == Head(backlog)
        <3>1. e \in Event /\ e = backlog[1] /\ 1 \in DOMAIN backlog
            BY <2>0, <2>6, PopShiftsBacklog DEF TypeOK, HandleInsert
        <3>2. stage[e] \notin {"new", "refused"} /\ stage' = stage /\ Insert(e, "peercred")
            BY <2>6, <3>1 DEF HandleInsert, IInv, QueueInv
        <3>3. "peercred" \in Identities
            BY DEF Identities
        <3> HIDE DEF e, Identities
        <3>4. QED
            BY <2>0, <3>1, <3>2, <3>3, MappedRecord
    <2>7. ASSUME NEW e \in Event, DrainInsert(e) PROVE Trail!TrailNext
        <3>1. stage[e] = "spooled" /\ stage' = stage /\ Insert(e, "spooled")
            BY <2>7 DEF DrainInsert, IInv, FileInv
        <3>2. "spooled" \in Identities
            BY DEF Identities
        <3> HIDE DEF Identities
        <3>3. QED
            BY <2>0, <3>1, <3>2, MappedRecord
    <2>8. CASE HandleAppend
        <3>1. job \in Event /\ Recorded(job) /\ db' = db
            BY <2>8 DEF HandleAppend, IInv, TypeOK, StepInv
        <3>2. CASE stage[job] = "waiting"
            <4>1. stage' = [stage EXCEPT ![job] = "acked"]
                BY <2>8, <3>2 DEF HandleAppend, Respond
            <4>2. "acked" \in Stages
                BY DEF Stages, Returned
            <4>3. QED
                BY <2>0, <3>1, <3>2, <4>1, <4>2, MappedAnswer
        <3>3. CASE stage[job] # "waiting"
            <4>1. stage' = stage
                BY <2>8, <3>3 DEF HandleAppend, Respond
            <4>2. QED
                BY <2>0, <3>1, <4>1, MappedStutter DEF AnswerOf
        <3>4. QED
            BY <3>2, <3>3
    <2>9. CASE UNCHANGED <<stage, db>>
        BY <2>0, <2>9, MappedStutter DEF AnswerOf
    <2>10. QED
        BY <2>1, <2>2, <2>3, <2>4, <2>5, <2>6, <2>7, <2>8, <2>9 DEF Next, vars, Client,
           Connection, Drain, HandleAppendFails, StartDrain, DrainTornFile, DrainAppend,
           DrainFails, DrainUnlink, EndDrain, Stop, Start, Tick
<1>2. QED
    BY <1>1, MappedInit, Invariance, PTL DEF Spec, ImplementsTrail, Trail!TrailSpec
===============================================================================
