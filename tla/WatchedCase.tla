---------------------------- MODULE WatchedCase ----------------------------
(***************************************************************************)
(* One submitted case watched day by day, to check the pure engine's       *)
(* operators against each other over whole lifetimes of every product.     *)
(***************************************************************************)
EXTENDS StatutoryClocks, FiniteSets

CONSTANTS FirstDay, LastDay     \* the days the case is watched

ASSUME WatchAssumption ==
    FirstDay \in Int /\ LastDay \in Int /\ FirstDay + 3 <= LastDay

VARIABLES
    rawProduct,     \* the product string on the recommendation
    submittedOn,
    watchedOn,
    fired           \* the ledger's pairs for this case

watchVars == <<rawProduct, submittedOn, watchedOn, fired>>

RawProduct == UNION {ProductForms(p) : p \in CaseProduct}
                \cup {"dpp", "signposting", "debt_arrangement_scheme"}

WatchedProduct == NormaliseProduct(rawProduct)

WatchInit ==
    /\ rawProduct \in RawProduct
    /\ submittedOn \in {FirstDay, FirstDay + 3}      \* watched from its submission
    /\ watchedOn = submittedOn
    /\ fired = {}

\* A sweep of the worker over the case on the day it is watched.
Sweep ==
    /\ WatchedProduct # NoProduct
    /\ fired' = fired \cup {<<e.kind, e.milestone>> :
                    e \in EvaluateCase(WatchedProduct, submittedOn, watchedOn, fired)}
    /\ UNCHANGED <<rawProduct, submittedOn, watchedOn>>

\* A day passes only after the worker has swept it.
NextDay ==
    /\ watchedOn < LastDay
    /\ WatchedProduct # NoProduct =>
            EvaluateCase(WatchedProduct, submittedOn, watchedOn, fired) = {}
    /\ watchedOn' = watchedOn + 1
    /\ UNCHANGED <<rawProduct, submittedOn, fired>>

WatchNext == Sweep \/ NextDay

WatchSpec == WatchInit /\ [][WatchNext]_watchVars

WatchTypeOK ==
    /\ rawProduct \in RawProduct
    /\ submittedOn \in Int /\ watchedOn \in FirstDay..LastDay
    /\ fired \subseteq DeadlineKind \X Milestone

Posture == PostureOf(WatchedProduct, submittedOn, watchedOn)

(***************************************************************************)
(* The queue badge and the worker agree: once the day has been swept, the  *)
(* badge is overdue exactly when some clock of the case has been reported  *)
(* breached, and a badge that is on track means nothing was ever reported. *)
(***************************************************************************)
BadgeAgreesWithWorker ==
    (/\ WatchedProduct # NoProduct
     /\ EvaluateCase(WatchedProduct, submittedOn, watchedOn, fired) = {}) =>
        /\ (Posture = "overdue") <=> (\E f \in fired : f[2] = "breached")
        /\ (Posture = "on_track") => (fired = {})

(***************************************************************************)
(* The deadline shown on the badge explains the posture: an at-risk case   *)
(* shows an imminent clock, and a case showing an expired clock has no     *)
(* clock left running.                                                     *)
(***************************************************************************)
ShownDeadlineExplainsPosture ==
    WatchedProduct # NoProduct =>
        LET shown == NextDeadline(WatchedProduct, submittedOn, watchedOn) IN
        /\ Posture = "at_risk" => Imminent(shown.due, watchedOn)
        /\ Expired(shown.due, watchedOn) =>
                \A c \in CaseClocks(WatchedProduct, submittedOn) : Expired(c.due, watchedOn)
=============================================================================
