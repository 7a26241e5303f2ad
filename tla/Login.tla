--------------------------------- MODULE Login ---------------------------------
(***************************************************************************)
(* Sessions of one user name, from ssh to the main menu.  main() asks the  *)
(* daemon whether the password must be changed while a thread of its own   *)
(* has the daemon mail the user about a login from a new address; run_menu *)
(* looks at the maintenance notice before it draws the menu.  The daemon   *)
(* keeps the user's row of users.db and serves one request at a time;      *)
(* admins give the account to a person and take it away (Accounts has the  *)
(* scripts), put the notice up and switch mail off.                        *)
(***************************************************************************)
EXTENDS Naturals, FiniteSets, FiniteSetsExt

CONSTANTS
    Session,        \* ssh connections
    Address,        \* where they come from
    NoAddress,
    MaxTenants,     \* bound on the people who get the name
    MaxLogins,      \* bound on the logins
    MaxFaults       \* bound on requests and mails that fail

ASSUME LoginAssumption ==
    /\ NoAddress \notin Address
    /\ MaxTenants \in Nat
    /\ MaxLogins \in Nat
    /\ MaxFaults \in Nat

VARIABLES
    tenant,     \* who has the account, 0 when it does not exist
    password,   \* "none", the "initial" one, or their "own"
    row,        \* the row in users.db
    mailOff,    \* the file .mail-disabled is there
    notice,     \* .maintenance.json: absent, truncated for a first or another
                \* notice, or complete
    at,         \* where each session is
    address,    \* where it comes from
    mail,       \* its login notification
    people,     \* how many have had the account
    logins,     \* logins so far
    faults,     \* failures so far
    unasked,    \* history: sessions to which the daemon did not say whether
                \* the password must be changed
    unflagged,  \* history: people whose row does not hold their flag
    mailed,     \* history: <<person, address>> of the login mails sent
    unsent,     \* history: those whose sending failed
    known,      \* history: those the daemon answered "known ip"
    entered,    \* history: what a session has entered under the notice
    torn        \* history: sessions that read a truncated notice

userVars == <<tenant, password, row, people, unflagged>>
mailVars == <<mail, mailed, unsent, known>>
noticeVars == <<notice, entered, torn>>
vars == <<userVars, mailVars, noticeVars, mailOff, at, address, logins, faults, unasked>>

-------------------------------------------------------------------------------
Person == 1..MaxTenants
InMenu == {"look", "menu", "inside"}
Stages == InMenu \cup {"off", "check", "passwd", "clear", "out"}
MailStages == {"off", "ask", "request", "done"}

TypeOK ==
    /\ tenant \in Person \cup {0}
    /\ password \in {"none", "initial", "own"}
    /\ row \in [of : Person \cup {0}, active : BOOLEAN, mustChange : BOOLEAN,
                lastSeen : Address \cup {NoAddress}]
    /\ mailOff \in BOOLEAN
    /\ notice \in {"none", "truncated", "on", "rewritten"}
    /\ at \in [Session -> Stages]
    /\ address \in [Session -> Address \cup {NoAddress}]
    /\ mail \in [Session -> MailStages]
    /\ people \in Person \cup {0}
    /\ logins \in 0..MaxLogins
    /\ faults \in 0..MaxFaults
    /\ unasked \subseteq Session /\ torn \subseteq Session
    /\ unflagged \subseteq Person
    /\ mailed \subseteq Person \X Address
    /\ unsent \subseteq Person \X Address
    /\ known \subseteq Person \X Address
    /\ entered \in [Session -> 0..2]

Init ==
    /\ tenant = 0 /\ people = 0 /\ password = "none"
    /\ row = [of |-> 0, active |-> FALSE, mustChange |-> FALSE, lastSeen |-> NoAddress]
    /\ mailOff = FALSE
    /\ notice = "none"
    /\ at = [s \in Session |-> "off"]
    /\ address = [s \in Session |-> NoAddress]
    /\ mail = [s \in Session |-> "off"]
    /\ logins = 0 /\ faults = 0
    /\ unasked = {} /\ torn = {} /\ unflagged = {}
    /\ mailed = {} /\ unsent = {} /\ known = {}
    /\ entered = [s \in Session |-> 0]

-------------------------------------------------------------------------------
Goes(s, from, to) == at[s] = from /\ at' = [at EXCEPT ![s] = to]
Fault == faults < MaxFaults /\ faults' = faults + 1

(* ssh: whoever has a password gets in, and both threads start.            *)
Begin(s, x) ==
    /\ password # "none" /\ logins < MaxLogins
    /\ logins' = logins + 1
    /\ Goes(s, "off", "check")
    /\ address' = [address EXCEPT ![s] = x]
    /\ mail' = [mail EXCEPT ![s] = "ask"]
    /\ UNCHANGED <<userVars, noticeVars, mailed, unsent, known, mailOff, faults, unasked>>

-------------------------------------------------------------------------------
(* The first-login gate.  Any failure, and a missing row, is a "no".       *)
\* Mutant: the flag is cleared before passwd is run.
BadCheck(s) ==
    /\ row' = [row EXCEPT !.mustChange = FALSE]
    /\ \/ row.active /\ UNCHANGED <<faults, unasked>>
             /\ Goes(s, "check", IF row.mustChange THEN "passwd" ELSE "look")
       \/ ~row.active /\ UNCHANGED faults
             /\ Goes(s, "check", "look") /\ unasked' = unasked \cup {s}
    /\ UNCHANGED <<tenant, password, people, unflagged, mailVars, noticeVars, mailOff, address, logins>>
Check(s) ==
    /\ \/ row.active /\ UNCHANGED <<faults, unasked>>
             /\ Goes(s, "check", IF row.mustChange THEN "passwd" ELSE "look")
       \/ ~row.active /\ UNCHANGED faults
             /\ Goes(s, "check", "look") /\ unasked' = unasked \cup {s}
       \/ Fault /\ Goes(s, "check", "look") /\ unasked' = unasked \cup {s}
    /\ UNCHANGED <<userVars, mailVars, noticeVars, mailOff, address, logins>>

(* passwd(1) succeeds, or is cancelled or times out.                       *)
ChangePassword(s) ==
    /\ \/ Goes(s, "passwd", "clear") /\ password' = "own"
       \/ Goes(s, "passwd", "out") /\ UNCHANGED password
    /\ UNCHANGED <<tenant, row, people, unflagged, mailVars, noticeVars, mailOff, address, logins, faults, unasked>>

(* The answer of clear_must_change_pw is not looked at.                    *)
ClearFlag(s) ==
    /\ Goes(s, "clear", "look")
    /\ \/ row' = [row EXCEPT !.mustChange = FALSE] /\ UNCHANGED faults
       \/ Fault /\ UNCHANGED row
    /\ UNCHANGED <<tenant, password, people, unflagged, mailVars, noticeVars, mailOff, address, logins, unasked>>

-------------------------------------------------------------------------------
(* The login notification.                                                 *)

MailGoes(s, from, to) == mail[s] = from /\ mail' = [mail EXCEPT ![s] = to]

(* email_for, and _daemon_mail in a third thread.                          *)
AskForMail(s) ==
    /\ \/ MailGoes(s, "ask", IF row.active /\ ~mailOff THEN "request" ELSE "done")
          /\ UNCHANGED faults
       \/ Fault /\ MailGoes(s, "ask", "done")
    /\ UNCHANGED <<userVars, noticeVars, mailed, unsent, known, mailOff, at, address, logins, unasked>>

(* _h_mail_send: the switch, the row, the address, and only then the mail, *)
(* whose failure does not take the address back.                           *)
Deliver(s) ==
    LET sighting == <<tenant, address[s]>> IN
    /\ row' = [row EXCEPT !.lastSeen = address[s]]
    /\ \/ mailed' = mailed \cup {sighting} /\ UNCHANGED <<unsent, faults>>
       \/ Fault /\ unsent' = unsent \cup {sighting} /\ UNCHANGED mailed
\* Mutant: the address is noted before the switch is looked at.
BadHandleMail(s) ==
    /\ MailGoes(s, "request", "done")
    /\ IF row.active /\ row.lastSeen # address[s] /\ ~mailOff
          THEN Deliver(s) /\ UNCHANGED known
          ELSE /\ known' = IF row.lastSeen = address[s]
                              THEN known \cup {<<tenant, address[s]>>} ELSE known
               /\ row' = [row EXCEPT !.lastSeen = address[s]]
               /\ UNCHANGED <<mailed, unsent, faults>>
    /\ UNCHANGED <<tenant, password, people, unflagged, noticeVars, mailOff, at, address, logins, unasked>>
HandleMail(s) ==
    /\ MailGoes(s, "request", "done")
    /\ IF ~mailOff /\ row.active /\ row.lastSeen # address[s]
          THEN Deliver(s) /\ UNCHANGED known
          ELSE /\ known' = IF ~mailOff /\ row.active
                              THEN known \cup {<<tenant, address[s]>>} ELSE known
               /\ UNCHANGED <<row, mailed, unsent, faults>>
    /\ UNCHANGED <<tenant, password, people, unflagged, noticeVars, mailOff, at, address, logins, unasked>>

-------------------------------------------------------------------------------
(* run_menu.  A truncated notice does not parse and counts as none; what   *)
(* is entered from the menu (wizard, workspace, jobs) does not look again. *)

\* Mutant: the notice is looked at once, before the loop.
BadLeave(s) == Goes(s, "inside", "menu") /\ UNCHANGED <<userVars, mailVars, noticeVars, mailOff, address, logins, faults, unasked>>
Look(s) ==
    /\ Goes(s, "look", IF notice = "on" THEN "out" ELSE "menu")
    /\ torn' = IF notice = "rewritten" THEN torn \cup {s} ELSE torn
    /\ UNCHANGED <<userVars, mailVars, notice, entered, mailOff, address, logins, faults, unasked>>

Enter(s) ==
    /\ Goes(s, "menu", "inside")
    /\ entered' = IF notice \in {"on", "rewritten"}
                     THEN [entered EXCEPT ![s] = Min({@ + 1, 2})] ELSE entered
    /\ UNCHANGED <<userVars, mailVars, notice, torn, mailOff, address, logins, faults, unasked>>

Leave(s) ==
    /\ Goes(s, "inside", "look")
    /\ UNCHANGED <<userVars, mailVars, noticeVars, mailOff, address, logins, faults, unasked>>

(* Quit, or the connection is lost, at any point.  A request that reached  *)
(* the daemon is served all the same, here before the end.                 *)
End(s) ==
    /\ at[s] # "off"
    /\ mail[s] # "request"
    /\ at' = [at EXCEPT ![s] = "off"]
    /\ mail' = [mail EXCEPT ![s] = "off"]
    /\ address' = [address EXCEPT ![s] = NoAddress]
    /\ entered' = [entered EXCEPT ![s] = 0]
    /\ torn' = torn \ {s} /\ unasked' = unasked \ {s}
    /\ UNCHANGED <<userVars, mailed, unsent, known, notice, mailOff, logins, faults>>

-------------------------------------------------------------------------------
(* What admins do.                                                         *)

(* provision_user: the flag is in the row if there is an email, the daemon *)
(* answers, and the name has no active row.  An old row keeps last_seen_ip.*)
Provision ==
    /\ tenant = 0 /\ people < MaxTenants
    /\ people' = people + 1 /\ tenant' = people + 1
    /\ password' \in {"none", "initial"}
    /\ \/ /\ ~row.active
          /\ row' = [row EXCEPT !.of = people + 1, !.active = TRUE,
                                !.mustChange = (password' = "initial")]
          /\ UNCHANGED unflagged
       \/ unflagged' = unflagged \cup {people + 1} /\ UNCHANGED row
    /\ UNCHANGED <<mailVars, noticeVars, mailOff, at, address, logins, faults, unasked>>

(* "Set a password: sudo passwd", when the panel did not set one.          *)
SetPassword ==
    /\ tenant # 0 /\ password = "none"
    /\ password' = "initial"
    /\ unflagged' = unflagged \cup {tenant}
    /\ UNCHANGED <<tenant, row, people, mailVars, noticeVars, mailOff, at, address, logins, faults, unasked>>

\* Mutant: the account is removed with its sessions still running.
BadOffboard ==
    /\ tenant # 0
    /\ tenant' = 0 /\ password' = "none"
    /\ row' = [row EXCEPT !.active = FALSE]
    /\ UNCHANGED <<people, unflagged, mailVars, noticeVars, mailOff, at, address, logins, faults, unasked>>
(* offboard_user: deluser kills every process of the account.              *)
Offboard ==
    /\ tenant # 0
    /\ tenant' = 0 /\ password' = "none"
    /\ \/ row' = [row EXCEPT !.active = FALSE] /\ UNCHANGED faults
       \/ Fault /\ UNCHANGED row
    /\ at' = [s \in Session |-> "off"]
    /\ mail' = [s \in Session |-> "off"]
    /\ address' = [s \in Session |-> NoAddress]
    /\ entered' = [s \in Session |-> 0]
    /\ torn' = {} /\ unasked' = {}
    /\ UNCHANGED <<people, unflagged, mailed, unsent, known, notice, mailOff, logins>>

(* set_maintenance opens the file for writing and dumps into it.           *)
TruncateNotice ==
    /\ notice \in {"none", "on"}
    /\ notice' = IF notice = "none" THEN "truncated" ELSE "rewritten"
    /\ UNCHANGED <<userVars, mailVars, entered, torn, mailOff, at, address, logins, faults, unasked>>

DumpNotice ==
    /\ notice \in {"truncated", "rewritten"}
    /\ notice' = "on"
    /\ UNCHANGED <<userVars, mailVars, entered, torn, mailOff, at, address, logins, faults, unasked>>

ClearNotice ==
    /\ notice = "on"
    /\ notice' = "none"
    /\ entered' = [s \in Session |-> 0]
    /\ torn' = {}
    /\ UNCHANGED <<userVars, mailVars, mailOff, at, address, logins, faults, unasked>>

SwitchMail ==
    /\ mailOff' = ~mailOff
    /\ UNCHANGED <<userVars, mailVars, noticeVars, at, address, logins, faults, unasked>>

AdminStep ==
    \/ Provision \/ SetPassword \/ Offboard
    \/ TruncateNotice \/ DumpNotice \/ ClearNotice \/ SwitchMail

SessionStep(s) ==
    \/ \E x \in Address : Begin(s, x)
    \/ Check(s) \/ ChangePassword(s) \/ ClearFlag(s)
    \/ AskForMail(s) \/ HandleMail(s)
    \/ Look(s) \/ Enter(s) \/ Leave(s) \/ End(s)

Next == AdminStep \/ \E s \in Session : SessionStep(s)

Spec == Init /\ [][Next]_vars

-------------------------------------------------------------------------------
(* Who is past the gate (main) no longer has the initial password, unless  *)
(* the daemon did not answer the session, or the flag of this person never *)
(* got into the row: no email, no answer, a row that was active already,   *)
(* or a password set by hand.                                              *)
InitialPasswordIsChanged ==
    \A s \in Session : at[s] \in InMenu /\ password = "initial"
        => s \in unasked \/ tenant \in unflagged

(* Sessions and passwords exist only with the account.                     *)
OnlyWithAccount == tenant = 0 => password = "none" /\ \A s \in Session : at[s] = "off"

(* What the row and the histories name are people there have been.         *)
PeopleThereWere ==
    /\ tenant \in {0, people} /\ row.of <= people
    /\ row.active \/ row.lastSeen # NoAddress => row.of # 0
    /\ \A w \in mailed \cup unsent \cup known : w[1] <= people

(* A session, its address and its login mail begin and end together.       *)
OffTogether == \A s \in Session :
    /\ at[s] = "off" <=> address[s] = NoAddress
    /\ at[s] = "off" <=> mail[s] = "off"

(* The types, what sessions, rows and histories rest on, and the gate.     *)
IInv ==
    /\ TypeOK /\ OnlyWithAccount /\ PeopleThereWere /\ OffTogether
    /\ InitialPasswordIsChanged

(* When the daemon takes an address for known (_h_mail_send), this person  *)
(* was mailed about it, unless that mail failed or an earlier owner of the *)
(* name was seen there: users.create keeps last_seen_ip.                   *)
KnownIsMailed ==
    \A w \in known :
        \/ w \in mailed \cup unsent
        \/ \E p \in 1..w[1] - 1 : <<p, w[2]>> \in mailed \cup unsent

(* Under a maintenance notice a session that is not an admin's enters at   *)
(* most one more thing from a menu that was already drawn (run_menu),      *)
(* unless it read the notice while another was written over it.            *)
OneMoreUnderNotice == \A s \in Session : entered[s] > 1 => s \in torn
===============================================================================
