------------------------------ MODULE AuditTrail ------------------------------
(***************************************************************************)
(* What the audit pipeline promises its callers, with no socket, no spool  *)
(* and no daemon.  A gateway session asks for an event to be logged; the   *)
(* call is answered once, with one of                                      *)
(*                                                                         *)
(*   "recorded"  the event is in the audit log (log_or_block returned True *)
(*               on the daemon's ok)                                       *)
(*   "refused"   the event was blocked and never enters the log            *)
(*               (log_or_block returned False)                             *)
(*   "open"      the caller goes on; the event may or may not get there    *)
(*               (fire-and-forget log(), and both calls' fail-open path).  *)
(*                                                                         *)
(* The log only grows.  AuditPipeline implements this specification.       *)
(***************************************************************************)

CONSTANT Event      \* the audit events that may be logged, each built once

VARIABLES
    asked,      \* events some caller has asked to have logged
    answer,     \* what the caller was told about each event
    trail       \* the events that are in the audit log

trailVars == <<asked, answer, trail>>

Answers == {"none", "recorded", "refused", "open"}

TrailTypeOK ==
    /\ asked \subseteq Event
    /\ answer \in [Event -> Answers]
    /\ trail \subseteq asked

TrailInit ==
    /\ asked = {}
    /\ answer = [e \in Event |-> "none"]
    /\ trail = {}

(* A caller builds an event and may be told at once that the call is open. *)
Ask(e) ==
    /\ e \notin asked
    /\ asked' = asked \cup {e}
    /\ answer' \in {answer, [answer EXCEPT ![e] = "open"]}
    /\ UNCHANGED trail

(* The event enters the log: early, late, but never once it was refused.   *)
Record(e) ==
    /\ e \in asked
    /\ answer[e] # "refused"
    /\ trail' = trail \cup {e}
    /\ UNCHANGED <<asked, answer>>

(* The caller is answered, once, and only truthfully.                      *)
Answer(e, a) ==
    /\ e \in asked
    /\ answer[e] = "none"
    /\ a = "recorded" => e \in trail
    /\ a = "refused" => e \notin trail
    /\ answer' = [answer EXCEPT ![e] = a]
    /\ UNCHANGED <<asked, trail>>

TrailNext ==
    \E e \in Event :
        \/ Ask(e)
        \/ Record(e)
        \/ \E a \in Answers \ {"none"} : Answer(e, a)

TrailSpec == TrailInit /\ [][TrailNext]_trailVars
===============================================================================
