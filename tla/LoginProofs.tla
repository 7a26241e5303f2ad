------------------------------ MODULE LoginProofs ------------------------------
(***************************************************************************)
(* The inductive invariants of Login and what follows from them, for every *)
(* number of sessions, addresses, logins and people who get the name.      *)
(***************************************************************************)
EXTENDS Login, TLAPS

(* The flag of the row stands for an initial password, unless it never got *)
(* there, and is cleared by those who have changed theirs.                 *)
FlagInv ==
    /\ password = "initial" /\ row.active => row.mustChange \/ tenant \in unflagged
    /\ \A s \in Session : at[s] = "clear" => password = "own"

(* last_seen_ip is an address somebody was mailed about, or was to be.     *)
SeenInv == row.lastSeen # NoAddress =>
    \E p \in 1..people : <<p, row.lastSeen>> \in mailed \cup unsent

(* What a session entered under a notice it entered from a menu that was   *)
(* drawn before, and it has not drawn another, unless the file was torn.   *)
NoticeInv(s) ==
    /\ entered[s] # 0 => notice \in {"on", "rewritten"}
    /\ \/ s \in torn \/ entered[s] = 0
       \/ entered[s] = 1 /\ at[s] \in {"inside", "look", "out"}

LoginInv == IInv /\ FlagInv

LEMMA Bounds ==
    /\ MaxTenants \in Nat /\ MaxLogins \in Nat /\ MaxFaults \in Nat
    /\ NoAddress \notin Address
BY LoginAssumption DEF LoginAssumption

LEMMA InitInv == Init => LoginInv
<1> SUFFICES ASSUME Init PROVE LoginInv
    OBVIOUS
<1> USE Bounds
<1>1. TypeOK
    <2>1. /\ tenant \in Person \cup {0} /\ people \in Person \cup {0}
          /\ logins \in 0..MaxLogins /\ faults \in 0..MaxFaults
        BY DEF Init
    <2>2. row \in [of : Person \cup {0}, active : BOOLEAN, mustChange : BOOLEAN,
                   lastSeen : Address \cup {NoAddress}]
        BY DEF Init
    <2>3. mailOff \in BOOLEAN
        BY DEF Init
    <2>4. /\ at \in [Session -> Stages] /\ mail \in [Session -> MailStages]
          /\ address \in [Session -> Address \cup {NoAddress}]
          /\ entered \in [Session -> 0..2]
        BY DEF Init, Stages, InMenu, MailStages
    <2>5. /\ password \in {"none", "initial", "own"}
          /\ notice \in {"none", "truncated", "on", "rewritten"}
          /\ unasked \subseteq Session /\ torn \subseteq Session /\ unflagged \subseteq Person
          /\ mailed \subseteq Person \X Address /\ unsent \subseteq Person \X Address
          /\ known \subseteq Person \X Address
        BY DEF Init
    <2>6. QED
        BY <2>1, <2>2, <2>3, <2>4, <2>5 DEF TypeOK
<1>2. OnlyWithAccount /\ OffTogether /\ InitialPasswordIsChanged /\ FlagInv
    BY DEF Init, OnlyWithAccount, OffTogether, InitialPasswordIsChanged, InMenu, FlagInv
<1>3. PeopleThereWere
    BY DEF Init, PeopleThereWere
<1>4. QED
    BY <1>1, <1>2, <1>3 DEF LoginInv, IInv

-------------------------------------------------------------------------------
(* Type correctness.                                                       *)

Row == [of : Person \cup {0}, active : BOOLEAN, mustChange : BOOLEAN,
        lastSeen : Address \cup {NoAddress}]

LEMMA RowFields ==
    ASSUME NEW r \in Row, NEW n \in Person \cup {0}, NEW b \in BOOLEAN, NEW c \in BOOLEAN,
           NEW x \in Address \cup {NoAddress}
    PROVE  /\ [r EXCEPT !.mustChange = c] \in Row
           /\ [r EXCEPT !.active = b] \in Row
           /\ [r EXCEPT !.lastSeen = x] \in Row
           /\ [r EXCEPT !.of = n, !.active = b, !.mustChange = c] \in Row
BY DEF Row

(* A request that is on its way is a session's, so of a person's.          *)
LEMMA MailHasOwner ==
    ASSUME IInv, NEW s \in Session, mail[s] # "off"
    PROVE  /\ tenant \in Person /\ tenant = people /\ address[s] \in Address
           /\ <<tenant, address[s]>> \in Person \X Address
BY DEF IInv, TypeOK, OnlyWithAccount, PeopleThereWere, OffTogether

LEMMA AtMostTwo == ASSUME NEW n \in Nat PROVE Min({n, 2}) = IF n <= 2 THEN n ELSE 2
<1> DEFINE P(m) == m \in {n, 2} /\ \A y \in {n, 2} : m <= y
<1>1. \A m : P(m) <=> m = IF n <= 2 THEN n ELSE 2
    OBVIOUS
<1>2. Min({n, 2}) = CHOOSE m : P(m)
    BY DEF Min
<1>3. P(CHOOSE m : P(m))
    BY <1>1
<1>4. QED
    BY <1>1, <1>2, <1>3

LEMMA SessionType ==
    ASSUME IInv, NEW s \in Session, SessionStep(s)
    PROVE  TypeOK'
<1>0. TypeOK
    BY DEF IInv
<1> USE Bounds DEF TypeOK, Stages, InMenu, MailStages, Goes, MailGoes, Fault, userVars,
        mailVars, noticeVars
<1>1. ASSUME NEW x \in Address, Begin(s, x) PROVE TypeOK'
    BY <1>0, <1>1 DEF Begin
<1>2. CASE Check(s)
    <2>1. at' \in [Session -> Stages]
        BY <1>0, <1>2 DEF Check
    <2>2. faults' \in 0..MaxFaults /\ unasked' \subseteq Session
        BY <1>0, <1>2 DEF Check
    <2>3. QED
        BY <1>0, <1>2, <2>1, <2>2 DEF Check
<1>3. CASE ChangePassword(s)
    BY <1>0, <1>3 DEF ChangePassword
<1>4. CASE ClearFlag(s)
    <2>1. row' \in Row
        <3>1. row' = row \/ row' = [row EXCEPT !.mustChange = FALSE]
            BY <1>4 DEF ClearFlag
        <3>2. row \in Row
            BY <1>0 DEF Row
        <3>3. QED
            BY <3>1, <3>2, RowFields
    <2>2. faults' \in 0..MaxFaults
        BY <1>0, <1>4 DEF ClearFlag
    <2>3. QED
        BY <1>0, <1>4, <2>1, <2>2 DEF ClearFlag, Row
<1>5. CASE AskForMail(s)
    <2>1. mail' \in [Session -> MailStages]
        BY <1>0, <1>5 DEF AskForMail
    <2>2. faults' \in 0..MaxFaults
        BY <1>0, <1>5 DEF AskForMail
    <2>3. QED
        BY <1>0, <1>5, <2>1, <2>2 DEF AskForMail
<1>6. CASE HandleMail(s)
    <2>1. <<tenant, address[s]>> \in Person \X Address /\ address[s] \in Address
        BY <1>6, MailHasOwner DEF HandleMail
    <2>2. row' \in Row
        <3>1. row' = row \/ row' = [row EXCEPT !.lastSeen = address[s]]
            BY <1>6 DEF HandleMail, Deliver
        <3>2. row \in Row
            BY <1>0 DEF Row
        <3>3. QED
            BY <2>1, <3>1, <3>2, RowFields
    <2>3. /\ mailed' \subseteq Person \X Address /\ unsent' \subseteq Person \X Address
          /\ known' \subseteq Person \X Address
        BY <1>0, <1>6, <2>1 DEF HandleMail, Deliver
    <2>4. faults' \in 0..MaxFaults /\ mail' \in [Session -> MailStages]
        BY <1>0, <1>6 DEF HandleMail, Deliver
    <2>5. QED
        BY <1>0, <1>6, <2>2, <2>3, <2>4 DEF HandleMail, Row
<1>7. CASE Look(s)
    BY <1>0, <1>7 DEF Look
<1>8. CASE Enter(s)
    <2>1. entered[s] + 1 \in Nat
        BY <1>0
    <2>2. Min({entered[s] + 1, 2}) \in 0..2
        BY <2>1, AtMostTwo
    <2>3. entered' \in [Session -> 0..2]
        BY <1>0, <1>8, <2>1, <2>2 DEF Enter
    <2>4. QED
        BY <1>0, <1>8, <2>3 DEF Enter
<1>9. CASE Leave(s)
    BY <1>0, <1>9 DEF Leave
<1>10. CASE End(s)
    BY <1>0, <1>10 DEF End
<1>11. QED
    BY <1>1, <1>2, <1>3, <1>4, <1>5, <1>6, <1>7, <1>8, <1>9, <1>10 DEF SessionStep

LEMMA AdminType ==
    ASSUME IInv, AdminStep
    PROVE  TypeOK'
<1>0. TypeOK /\ row \in Row
    BY DEF IInv, TypeOK, Row
<1> USE Bounds DEF TypeOK, Stages, MailStages, Fault, userVars, mailVars, noticeVars
<1>1. CASE Provision
    <2>1. people + 1 \in Person
        BY <1>0, <1>1 DEF Provision, Person
    <2>2. row' \in Row
        <3>1. CASE row' = [row EXCEPT !.of = people + 1, !.active = TRUE,
                                      !.mustChange = (password' = "initial")]
            <4>1. (password' = "initial") \in BOOLEAN
                OBVIOUS
            <4>2. QED
                BY <1>0, <2>1, <3>1, <4>1, RowFields
        <3>2. CASE row' = row
            BY <1>0, <3>2
        <3>3. QED
            BY <1>1, <3>1, <3>2 DEF Provision
    <2>3. unflagged' \subseteq Person
        BY <1>0, <1>1, <2>1 DEF Provision
    <2>4. QED
        BY <1>0, <1>1, <2>1, <2>2, <2>3 DEF Provision, Row
<1>2. CASE SetPassword
    BY <1>0, <1>2 DEF SetPassword
<1>3. CASE Offboard
    <2>1. row' \in Row
        <3>1. row' = row \/ row' = [row EXCEPT !.active = FALSE]
            BY <1>3 DEF Offboard
        <3>2. QED
            BY <1>0, <3>1, RowFields
    <2>2. faults' \in 0..MaxFaults
        BY <1>0, <1>3 DEF Offboard
    <2>3. QED
        BY <1>0, <1>3, <2>1, <2>2 DEF Offboard, Row
<1>4. CASE TruncateNotice
    BY <1>0, <1>4 DEF TruncateNotice
<1>5. CASE DumpNotice
    BY <1>0, <1>5 DEF DumpNotice
<1>6. CASE ClearNotice
    BY <1>0, <1>6 DEF ClearNotice
<1>7. CASE SwitchMail
    BY <1>0, <1>7 DEF SwitchMail
<1>8. QED
    BY <1>1, <1>2, <1>3, <1>4, <1>5, <1>6, <1>7 DEF AdminStep

LEMMA TypeStep == IInv /\ [Next]_vars => TypeOK'
<1>1. IInv /\ UNCHANGED vars => TypeOK'
    BY DEF IInv, TypeOK, vars, userVars, mailVars, noticeVars
<1>2. QED
    BY <1>1, SessionType, AdminType DEF Next

-------------------------------------------------------------------------------
(* Sessions, people and the account.                                       *)

LEMMA AccountStep == IInv /\ [Next]_vars => OnlyWithAccount'
<1> SUFFICES ASSUME IInv, [Next]_vars PROVE OnlyWithAccount'
    OBVIOUS
<1>1. TypeOK /\ OnlyWithAccount
    BY DEF IInv
<1> USE DEF OnlyWithAccount, TypeOK, Goes, userVars
<1>2. ASSUME NEW s \in Session, SessionStep(s) PROVE OnlyWithAccount'
    <2>1. tenant' = tenant
        BY <1>2 DEF SessionStep, Begin, Check, ChangePassword, ClearFlag, AskForMail,
           HandleMail, Look, Enter, Leave, End
    <2>2. SUFFICES ASSUME tenant = 0 PROVE password' = "none" /\ at' = at
        BY <1>1, <2>1
    <2>3. password = "none" /\ \A t \in Session : at[t] = "off"
        BY <1>1, <2>2
    <2>4. QED
        BY <1>2, <2>3 DEF SessionStep, Begin, Check, ChangePassword, ClearFlag, AskForMail,
           HandleMail, Look, Enter, Leave, End
<1>3. CASE Provision
    BY <1>1, <1>3 DEF Provision, Person
<1>4. CASE Offboard
    BY <1>1, <1>4 DEF Offboard
<1>5. CASE AdminStep /\ ~Provision /\ ~Offboard
    BY <1>1, <1>5 DEF AdminStep, SetPassword, TruncateNotice, DumpNotice, ClearNotice, SwitchMail
<1>6. CASE UNCHANGED vars
    BY <1>1, <1>6 DEF vars
<1>7. QED
    BY <1>2, <1>3, <1>4, <1>5, <1>6 DEF Next, AdminStep

LEMMA PeopleStep == IInv /\ [Next]_vars => PeopleThereWere'
<1> SUFFICES ASSUME IInv, [Next]_vars PROVE PeopleThereWere'
    OBVIOUS
<1>1. TypeOK /\ PeopleThereWere /\ people \in Nat
    BY Bounds DEF IInv, TypeOK, Person
<1> USE DEF PeopleThereWere, userVars, mailVars
<1>2. ASSUME NEW s \in Session, SessionStep(s) PROVE PeopleThereWere'
    <2>1. CASE HandleMail(s)
        <3>1. tenant = people /\ tenant \in Nat
            BY <1>1, <2>1, MailHasOwner DEF HandleMail, MailGoes
        <3>2. \A w \in mailed' \cup unsent' \cup known' :
                  w \in mailed \cup unsent \cup known \cup {<<tenant, address[s]>>}
            BY <2>1 DEF HandleMail, Deliver
        <3>3. tenant' = tenant /\ people' = people /\ row'.of = row.of
              /\ row'.active = row.active /\ (row' = row \/ row.active)
            BY <1>1, <2>1 DEF HandleMail, Deliver, TypeOK
        <3>4. QED
            BY <1>1, <3>1, <3>2, <3>3
    <2>2. CASE ClearFlag(s)
        <3>1. /\ row'.of = row.of /\ row'.active = row.active /\ row'.lastSeen = row.lastSeen
              /\ UNCHANGED <<tenant, people, mailed, unsent, known>>
            BY <1>1, <2>2 DEF ClearFlag, TypeOK
        <3>2. QED
            BY <1>1, <3>1
    <2>3. CASE ~HandleMail(s) /\ ~ClearFlag(s)
        <3>1. UNCHANGED <<tenant, people, row, mailed, unsent, known>>
            BY <1>2, <2>3 DEF SessionStep, Begin, Check, ChangePassword, AskForMail, Look, Enter,
               Leave, End
        <3>2. QED
            BY <1>1, <3>1
    <2>4. QED
        BY <2>1, <2>2, <2>3
<1>3. CASE Provision
    <2>1. /\ people' = people + 1 /\ tenant' = people + 1
          /\ UNCHANGED <<mailed, unsent, known>>
        BY <1>3 DEF Provision
    <2>2. row' = row \/ row'.of = people + 1
        BY <1>1, <1>3 DEF Provision, TypeOK
    <2>3. row.of \in Nat
        BY <1>1, Bounds DEF TypeOK, Person
    <2>4. \A w \in mailed \cup unsent \cup known : w[1] \in Nat
        BY <1>1, Bounds DEF TypeOK, Person
    <2>5. QED
        BY <1>1, <2>1, <2>2, <2>3, <2>4
<1>4. CASE Offboard
    <2>1. /\ tenant' = 0 /\ row'.of = row.of /\ row'.lastSeen = row.lastSeen
          /\ row'.active => row.active
          /\ UNCHANGED <<people, mailed, unsent, known>>
        BY <1>1, <1>4 DEF Offboard, TypeOK
    <2>2. QED
        BY <1>1, <2>1
<1>5. CASE (AdminStep /\ ~Provision /\ ~Offboard) \/ UNCHANGED vars
    <2>1. UNCHANGED <<tenant, people, row, mailed, unsent, known>>
        BY <1>5 DEF vars, AdminStep, SetPassword, TruncateNotice, DumpNotice, ClearNotice,
           SwitchMail
    <2>2. QED
        BY <1>1, <2>1
<1>6. QED
    BY <1>2, <1>3, <1>4, <1>5 DEF Next, AdminStep

LEMMA OffStep == IInv /\ [Next]_vars => OffTogether'
<1> SUFFICES ASSUME IInv, [Next]_vars PROVE OffTogether'
    OBVIOUS
<1>1. TypeOK /\ OffTogether
    BY DEF IInv
<1> USE DEF OffTogether, TypeOK, Goes, MailGoes, mailVars
<1>2. ASSUME NEW s \in Session, SessionStep(s) PROVE OffTogether'
    <2>1. ASSUME NEW x \in Address, Begin(s, x) PROVE OffTogether'
        BY <1>1, <2>1, Bounds DEF Begin
    <2>2. CASE End(s)
        BY <1>1, <2>2 DEF End
    <2>3. CASE AskForMail(s) \/ HandleMail(s)
        <3>1. UNCHANGED <<at, address>> /\ mail[s] # "off"
            BY <2>3 DEF AskForMail, HandleMail
        <3>2. mail'[s] # "off" /\ \A t \in Session : t # s => mail'[t] = mail[t]
            BY <1>1, <2>3 DEF AskForMail, HandleMail
        <3>3. QED
            BY <1>1, <3>1, <3>2
    <2>4. CASE Check(s) \/ ChangePassword(s) \/ ClearFlag(s) \/ Look(s) \/ Enter(s) \/ Leave(s)
        <3>1. UNCHANGED <<mail, address>> /\ at[s] # "off"
            BY <2>4 DEF Check, ChangePassword, ClearFlag, Look, Enter, Leave
        <3>2. at'[s] # "off" /\ \A t \in Session : t # s => at'[t] = at[t]
            BY <1>1, <2>4 DEF Check, ChangePassword, ClearFlag, Look, Enter, Leave
        <3>3. QED
            BY <1>1, <3>1, <3>2
    <2>5. QED
        BY <1>2, <2>1, <2>2, <2>3, <2>4 DEF SessionStep
<1>3. CASE Offboard
    BY <1>3 DEF Offboard
<1>4. CASE (AdminStep /\ ~Offboard) \/ UNCHANGED vars
    <2>1. UNCHANGED <<at, address, mail>>
        BY <1>4 DEF vars, AdminStep, Provision, SetPassword, TruncateNotice, DumpNotice,
           ClearNotice, SwitchMail
    <2>2. QED
        BY <1>1, <2>1
<1>5. QED
    BY <1>2, <1>3, <1>4 DEF Next

-------------------------------------------------------------------------------
(* The gate.                                                               *)

LEMMA GateStep == LoginInv /\ [Next]_vars => FlagInv' /\ InitialPasswordIsChanged'
<1> SUFFICES ASSUME LoginInv, [Next]_vars PROVE FlagInv' /\ InitialPasswordIsChanged'
    OBVIOUS
<1>1. TypeOK /\ OnlyWithAccount /\ FlagInv /\ InitialPasswordIsChanged
    BY DEF LoginInv, IInv
<1> USE DEF FlagInv, InitialPasswordIsChanged, TypeOK, Goes, userVars, InMenu
<1>2. ASSUME NEW s \in Session, SessionStep(s)
      PROVE  FlagInv' /\ InitialPasswordIsChanged'
    <2>1. ASSUME NEW x \in Address, Begin(s, x) PROVE FlagInv' /\ InitialPasswordIsChanged'
        BY <1>1, <2>1 DEF Begin
    <2>2. CASE Check(s)
        <3>1. UNCHANGED <<tenant, password, row, unflagged>> /\ unasked \subseteq unasked'
            BY <2>2 DEF Check
        <3>2. /\ at'[s] \in {"passwd", "look"} /\ \A t \in Session : t # s => at'[t] = at[t]
              /\ at'[s] = "look" => s \in unasked' \/ (row.active /\ ~row.mustChange)
            BY <1>1, <2>2 DEF Check
        <3>3. QED
            BY <1>1, <3>1, <3>2
    <2>3. CASE ChangePassword(s)
        <3>1. UNCHANGED <<tenant, row, unflagged, unasked>>
            BY <2>3 DEF ChangePassword
        <3>2. /\ \A t \in Session : t # s => at'[t] = at[t]
              /\ \/ at'[s] = "clear" /\ password' = "own"
                 \/ at'[s] = "out" /\ password' = password
            BY <1>1, <2>3 DEF ChangePassword
        <3>3. QED
            BY <1>1, <3>1, <3>2
    <2>4. CASE ClearFlag(s)
        <3>1. password = "own" /\ UNCHANGED <<password, unasked, unflagged, tenant>>
            BY <1>1, <2>4 DEF ClearFlag
        <3>2. QED
            BY <3>1
    <2>5. CASE HandleMail(s)
        <3>1. UNCHANGED <<tenant, password, unflagged, at, unasked>>
            BY <2>5 DEF HandleMail
        <3>2. row'.active = row.active /\ row'.mustChange = row.mustChange
            BY <1>1, <2>5 DEF HandleMail, Deliver
        <3>3. QED
            BY <1>1, <3>1, <3>2
    <2>6. CASE AskForMail(s)
        BY <1>1, <2>6 DEF AskForMail
    <2>7. CASE Look(s) \/ Enter(s) \/ Leave(s)
        <3>1. /\ UNCHANGED <<tenant, password, row, unflagged, unasked>>
              /\ at[s] \in InMenu /\ at'[s] # "clear"
              /\ \A t \in Session : t # s => at'[t] = at[t]
            BY <1>1, <2>7 DEF Look, Enter, Leave
        <3>2. QED
            BY <1>1, <3>1
    <2>8. CASE End(s)
        <3>1. /\ UNCHANGED <<tenant, password, row, unflagged>> /\ unasked' = unasked \ {s}
              /\ at'[s] = "off" /\ \A t \in Session : t # s => at'[t] = at[t]
            BY <1>1, <2>8 DEF End
        <3>2. QED
            BY <1>1, <3>1
    <2>9. QED
        BY <1>2, <2>1, <2>2, <2>3, <2>4, <2>5, <2>6, <2>7, <2>8 DEF SessionStep
<1>3. CASE Provision
    <2>1. \A s \in Session : at'[s] = "off"
        BY <1>1, <1>3 DEF Provision, OnlyWithAccount
    <2>2. CASE unflagged' = unflagged \cup {people + 1}
        BY <1>3, <2>1, <2>2 DEF Provision
    <2>3. CASE row' = [row EXCEPT !.of = people + 1, !.active = TRUE,
                                  !.mustChange = (password' = "initial")]
        <3>1. row'.mustChange = (password' = "initial")
            BY <1>1, <2>3
        <3>2. QED
            BY <2>1, <3>1
    <2>4. QED
        BY <1>3, <2>2, <2>3 DEF Provision
<1>4. CASE SetPassword
    <2>1. tenant' \in unflagged' /\ at' = at /\ password = "none"
        BY <1>4 DEF SetPassword
    <2>2. \A s \in Session : at[s] # "clear"
        BY <1>1, <2>1
    <2>3. QED
        BY <2>1, <2>2
<1>5. CASE Offboard
    BY <1>5 DEF Offboard
<1>6. CASE (AdminStep /\ ~Provision /\ ~SetPassword /\ ~Offboard) \/ UNCHANGED vars
    <2>1. UNCHANGED <<tenant, password, row, unflagged, at, unasked>>
        BY <1>6 DEF vars, AdminStep, TruncateNotice, DumpNotice, ClearNotice, SwitchMail
    <2>2. QED
        BY <1>1, <2>1
<1>7. QED
    BY <1>2, <1>3, <1>4, <1>5, <1>6 DEF Next

LEMMA LoginStep == LoginInv /\ [Next]_vars => LoginInv'
BY TypeStep, AccountStep, PeopleStep, OffStep, GateStep DEF LoginInv, IInv

(* Everything the invariant names holds in every state: the types, that    *)
(* sessions belong to an account, and that nobody who is past the gate     *)
(* (main) has the initial password, but for the exceptions it names.       *)
THEOREM Sessions == Spec => []IInv
<1>1. Spec => []LoginInv
    BY InitInv, LoginStep, PTL DEF Spec
<1>2. LoginInv => IInv
    BY DEF LoginInv
<1>3. QED
    BY <1>1, <1>2, PTL

-------------------------------------------------------------------------------
(* The login mail.                                                         *)

MailInv == SeenInv /\ KnownIsMailed

LEMMA MailStep == IInv /\ MailInv /\ [Next]_vars => MailInv'
<1> SUFFICES ASSUME IInv, MailInv, [Next]_vars PROVE MailInv'
    OBVIOUS
<1>1. TypeOK /\ SeenInv /\ KnownIsMailed
    BY DEF IInv, MailInv
<1> USE DEF MailInv, SeenInv, KnownIsMailed
<1>2. ASSUME people' \in Nat, people <= people', row'.lastSeen = row.lastSeen, people \in Nat,
             UNCHANGED <<mailed, unsent, known>>
      PROVE  MailInv'
    BY <1>1, <1>2
<1>3. ASSUME NEW s \in Session, HandleMail(s) PROVE MailInv'
    <2>1. /\ tenant \in Person /\ tenant = people /\ address[s] \in Address
          /\ people \in Nat \ {0}
        <3>1. tenant \in Person /\ tenant = people /\ address[s] \in Address
            BY <1>3, MailHasOwner DEF HandleMail, MailGoes
        <3>2. QED
            BY <3>1, Bounds DEF Person
    <2>2. people' = people
        BY <1>3 DEF HandleMail
    <2>3. CASE Deliver(s) /\ known' = known
        <3>1. row'.lastSeen = address[s] /\ <<tenant, address[s]>> \in mailed' \cup unsent'
            BY <1>1, <2>3 DEF Deliver, TypeOK
        <3>2. mailed \subseteq mailed' /\ unsent \subseteq unsent'
            BY <2>3 DEF Deliver
        <3>3. SeenInv'
            BY <2>1, <2>2, <3>1
        <3>4. KnownIsMailed'
            BY <1>1, <2>3, <3>2
        <3>5. QED
            BY <3>3, <3>4
    <2>4. CASE row.lastSeen = address[s] /\ known' = known \cup {<<tenant, address[s]>>}
               /\ UNCHANGED <<row, mailed, unsent>>
        <3>1. PICK p \in 1..people : <<p, address[s]>> \in mailed \cup unsent
            BY <1>1, <2>1, <2>4, Bounds
        <3>2. p = tenant \/ p \in 1..(tenant - 1)
            BY <2>1, <3>1
        <3>3. KnownIsMailed'
            BY <1>1, <2>4, <3>1, <3>2
        <3>4. QED
            BY <1>1, <2>2, <2>4, <3>3
    <2>5. CASE UNCHANGED <<row, mailed, unsent, known>>
        BY <1>1, <2>2, <2>5
    <2>6. QED
        BY <1>3, <2>3, <2>4, <2>5 DEF HandleMail, Deliver
<1>4. CASE Provision
    <2>1. row'.lastSeen = row.lastSeen
        BY <1>1, <1>4 DEF Provision, TypeOK
    <2>2. people' = people + 1 /\ people \in Nat
        BY <1>1, <1>4, Bounds DEF Provision, TypeOK, Person
    <2>3. QED
        BY <1>2, <1>4, <2>1, <2>2 DEF Provision, mailVars
<1>5. CASE (AdminStep /\ ~Provision) \/ UNCHANGED vars \/ \E s \in Session : SessionStep(s) /\ ~HandleMail(s)
    <2>1. row'.lastSeen = row.lastSeen
        BY <1>1, <1>5 DEF vars, userVars, AdminStep, SetPassword, Offboard, TruncateNotice, DumpNotice,
           ClearNotice, SwitchMail, SessionStep, Begin, Check, ChangePassword, ClearFlag,
           AskForMail, Look, Enter, Leave, End, TypeOK
    <2>2. UNCHANGED <<people, mailed, unsent, known>>
        BY <1>5 DEF vars, userVars, mailVars, AdminStep, SetPassword, Offboard, TruncateNotice,
           DumpNotice, ClearNotice, SwitchMail, SessionStep, Begin, Check, ChangePassword,
           ClearFlag, AskForMail, Look, Enter, Leave, End
    <2>3. people \in Nat
        BY <1>1, Bounds DEF TypeOK, Person
    <2>4. QED
        BY <1>2, <2>1, <2>2, <2>3
<1>6. QED
    BY <1>3, <1>4, <1>5 DEF Next

(* The daemon takes an address for known (_h_mail_send) only if a mail     *)
(* about it was sent or failed, to this person or an earlier owner of the  *)
(* name, in whatever order sessions, mails and offboardings come.          *)
THEOREM KnownAddresses == Spec => []KnownIsMailed
<1>1. Init => MailInv
    BY DEF Init, MailInv, SeenInv, KnownIsMailed
<1>2. MailInv => KnownIsMailed
    BY DEF MailInv
<1>3. QED
    BY <1>1, <1>2, Sessions, MailStep, PTL DEF Spec

-------------------------------------------------------------------------------
(* The maintenance notice.                                                 *)

UnderNotice == \A s \in Session : NoticeInv(s)

LEMMA NoticeStep == IInv /\ UnderNotice /\ [Next]_vars => UnderNotice'
<1> SUFFICES ASSUME IInv, UnderNotice, [Next]_vars, NEW t \in Session PROVE NoticeInv(t)'
    BY DEF UnderNotice
<1>1. TypeOK /\ NoticeInv(t)
    BY DEF IInv, UnderNotice
<1> USE DEF NoticeInv, TypeOK, Goes, noticeVars
<1>2. CASE AdminStep
    <2>1. CASE Offboard
        BY <2>1 DEF Offboard
    <2>2. CASE ClearNotice
        BY <2>2 DEF ClearNotice
    <2>3. CASE TruncateNotice \/ DumpNotice
        BY <1>1, <2>3 DEF TruncateNotice, DumpNotice
    <2>4. CASE Provision \/ SetPassword \/ SwitchMail
        BY <1>1, <2>4 DEF Provision, SetPassword, SwitchMail
    <2>5. QED
        BY <1>2, <2>1, <2>2, <2>3, <2>4 DEF AdminStep
<1>3. ASSUME NEW s \in Session, SessionStep(s) PROVE NoticeInv(t)'
    <2>1. CASE s # t
        <3>1. at'[t] = at[t] /\ entered'[t] = entered[t] /\ (t \in torn' <=> t \in torn)
              /\ notice' = notice
            BY <1>1, <1>3, <2>1 DEF SessionStep, Begin, Check, ChangePassword, ClearFlag,
               AskForMail, HandleMail, Look, Enter, Leave, End
        <3>2. QED
            BY <1>1, <3>1
    <2>2. CASE s = t /\ Enter(t)
        <3>1. at[t] = "menu" /\ at'[t] = "inside" /\ UNCHANGED <<notice, torn>>
            BY <1>1, <2>2 DEF Enter
        <3>2. t \in torn \/ entered[t] = 0
            BY <1>1, <3>1
        <3>3. CASE notice \in {"on", "rewritten"}
            <4>1. entered'[t] = Min({entered[t] + 1, 2})
                BY <1>1, <2>2, <3>3 DEF Enter
            <4>2. entered[t] = 0 => entered'[t] = 1
                BY <4>1, AtMostTwo
            <4>3. QED
                BY <3>1, <3>2, <3>3, <4>2
        <3>4. CASE notice \notin {"on", "rewritten"}
            BY <1>1, <2>2, <3>1, <3>2, <3>4 DEF Enter
        <3>5. QED
            BY <3>3, <3>4
    <2>3. CASE s = t /\ Look(t)
        BY <1>1, <2>3 DEF Look
    <2>4. CASE s = t /\ End(t)
        BY <1>1, <2>4 DEF End
    <2>5. CASE s = t /\ ~Enter(t) /\ ~Look(t) /\ ~End(t)
        <3>1. UNCHANGED <<notice, entered, torn>>
            BY <1>3, <2>5 DEF SessionStep, Begin, Check, ChangePassword, ClearFlag, AskForMail,
               HandleMail, Leave
        <3>2. at'[t] = at[t] \/ at[t] \notin {"inside", "look", "out"} \/ at'[t] = "look"
            BY <1>1, <1>3, <2>5 DEF SessionStep, Begin, Check, ChangePassword, ClearFlag,
               AskForMail, HandleMail, Leave
        <3>3. QED
            BY <1>1, <3>1, <3>2
    <2>6. QED
        BY <2>1, <2>2, <2>3, <2>4, <2>5
<1>4. CASE UNCHANGED vars
    BY <1>1, <1>4 DEF vars
<1>5. QED
    BY <1>2, <1>3, <1>4 DEF Next

(* However the notice is put up, rewritten and cleared, a session enters   *)
(* at most one more thing under it from a menu it has drawn before         *)
(* (run_menu), unless it read the file while it was rewritten.             *)
THEOREM Maintenance == Spec => []OneMoreUnderNotice
<1>1. Init => UnderNotice
    BY DEF Init, UnderNotice, NoticeInv
<1>2. UnderNotice => OneMoreUnderNotice
    BY DEF UnderNotice, NoticeInv, OneMoreUnderNotice
<1>3. QED
    BY <1>1, <1>2, Sessions, NoticeStep, PTL DEF Spec
===============================================================================
