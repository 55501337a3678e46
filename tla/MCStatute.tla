------------------------------ MODULE MCStatute ------------------------------
(***************************************************************************)
(* The statutory rules, each over a life of its own: a case watched day by *)
(* day, the advice to a debtor whose circumstances are revised, the        *)
(* registers searched for an applicant, the calendar behind the windows,   *)
(* and the contribution of a debtor.  They share no state, and the modules *)
(* are checked together: a behaviour moves the one `focus` names, and the  *)
(* others rest in an initial state of theirs.                              *)
(***************************************************************************)
EXTENDS Focus, WatchedCase, MCSystemChecks, Calendar, Cft

CONSTANTS rent, food        \* categories of expenditure

\* There is a place for each module to rest in.
ASSUME RestAssumption == Enquired # {} /\ Applicants # {} /\ Amount # {}

Figures == (food :> 300) @@ (rent :> 250)

\* The module in focus starts anywhere in S, a resting one in some one place.
StartsIn(S, name) == IF focus = name THEN S ELSE {CHOOSE x \in S : TRUE}

StatutePart == {"case", "advice", "checks", "calendar", "budget"}

StatuteBegins ==
    /\ rawProduct \in StartsIn(RawProduct, "case")
    /\ submittedOn \in StartsIn({FirstDay, FirstDay + 3}, "case")
    /\ WatchInit
    /\ circumstances \in IF focus = "advice" THEN Circumstances
                        ELSE StartsIn(Enquired, "checks")
    /\ applicant \in StartsIn(Applicants, "checks")
    /\ NothingChecked
    /\ CalendarInit
    /\ statement \in StartsIn(Statement, "budget")

StatuteInit == focus \in StatutePart /\ StatuteBegins

statuteVars == <<watchVars, checksVars, submitted, statement>>

Watching == WatchNext /\ UNCHANGED <<checksVars, submitted, statement>>

Revising ==
    /\ Revise
    /\ UNCHANGED <<watchVars, submitted, statement>>
    /\ UNCHANGED <<applicant, job, results, asked, simulated, credit, advice>>

Checking == ChecksNext /\ UNCHANGED <<watchVars, submitted, statement>>

Counting == DayLater /\ UNCHANGED <<watchVars, checksVars, statement>>

Budgeting == ReviseStatement /\ UNCHANGED <<watchVars, checksVars, submitted>>

StatuteNext ==
    /\ \/ focus = "case" /\ Watching
       \/ focus = "advice" /\ Revising
       \/ focus = "checks" /\ Checking
       \/ focus = "calendar" /\ Counting
       \/ focus = "budget" /\ Budgeting
    /\ UNCHANGED focus

StatuteSpec == StatuteInit /\ [][StatuteNext]_<<focus, statuteVars>>

\* Every state of every module has its type.
StatuteTypeOK ==
    WatchTypeOK /\ AdviceTypeOK /\ ChecksTypeOK /\ CalendarTypeOK /\ CftTypeOK
=============================================================================
