--------------------------- MODULE ReminderLedger ---------------------------
(***************************************************************************)
(* What the SLA worker promises about reminders, whatever the number of    *)
(* processes that sweep the queue and wherever they stop: a milestone of a *)
(* deadline of a case is acted on at most once, and acting on it is        *)
(* indivisible - it is recorded as fired, gets one audit event, and at     *)
(* most one notification, together.                                        *)
(***************************************************************************)
EXTENDS Naturals

CONSTANT Key        \* <<application, deadline kind, milestone>>

VARIABLES
    fired,          \* the milestones acted on
    logged,         \* audit events written for each
    told            \* notifications sent for each

vars == <<fired, logged, told>>

Init ==
    /\ fired = {}
    /\ logged = [k \in Key |-> 0]
    /\ told = [k \in Key |-> 0]

Fire(k) ==
    /\ k \notin fired
    /\ fired' = fired \cup {k}
    /\ logged' = [logged EXCEPT ![k] = @ + 1]
    /\ \/ told' = [told EXCEPT ![k] = @ + 1]
       \/ UNCHANGED told

Next == \E k \in Key : Fire(k)

Spec == Init /\ [][Next]_vars
=============================================================================
