-------------------------- MODULE StatutoryClocks --------------------------
(***************************************************************************)
(* The pure statutory engine shared by the SLA worker, the staff queue and *)
(* the case screen: which clocks run on a case (packages/statutory/src/    *)
(* caseClocks.ts, clocks.ts) and where each stands on a given day          *)
(* (services/api-gateway/src/sla/engine.ts).  Days are integers: the code  *)
(* compares deadlines at day granularity.  The length of each statutory    *)
(* window is a constant; a window the code counts in months is given its   *)
(* length in days.                                                         *)
(***************************************************************************)
EXTENDS Integers

CONSTANTS
    DasObjectionDays,       \* 21 in the code
    PtdObjectionDays,       \* 35
    MapDischargeDays,       \* 6 months
    DischargeDays,          \* 12 months
    ProposalsDays,          \* 84
    ClaimsDays,             \* 120
    PeriodDays,             \* 12 months
    LateClaimDays,          \* 56, counted back from the end of the period
    ImminentDays,           \* 7
    NoProduct               \* the null of normaliseProduct

ASSUME WindowsAssumption ==
    /\ DasObjectionDays \in Nat /\ PtdObjectionDays \in Nat
    /\ MapDischargeDays \in Nat /\ DischargeDays \in Nat
    /\ ProposalsDays \in Nat /\ ClaimsDays \in Nat
    /\ PeriodDays \in Nat /\ LateClaimDays \in 0..PeriodDays
    /\ ImminentDays \in Nat \ {0}
    /\ NoProduct \notin {"das", "map", "ptd", "sequestration"}

CaseProduct == {"das", "map", "ptd", "sequestration"}

DeadlineKind == {"creditor_objection", "discharge", "creditor_claims",
    "trustee_proposals", "accounting_period_end", "late_claims_cutoff"}

Milestone == {"approaching", "due_today", "breached"}

SlaPosture == {"on_track", "at_risk", "overdue"}

(***************************************************************************)
(* A stored product, already trimmed and lower-cased, in the two forms the *)
(* lookup knows.  Anything else (DPP, signposting, the rules engine's own  *)
(* identifiers) has no modelled clock.                                     *)
(***************************************************************************)
ProductForms(product) ==
    CASE product = "das" -> {"das", "debt arrangement scheme (das)"}
      [] product = "map" -> {"map", "minimal asset process (map)"}
      [] product = "ptd" -> {"ptd", "protected trust deed (ptd)"}
      [] product = "sequestration" ->
            {"sequestration", "sequestration (bankruptcy)"}

NormaliseProduct(raw) ==
    IF \E p \in CaseProduct : raw \in ProductForms(p)
    THEN CHOOSE p \in CaseProduct : raw \in ProductForms(p)
    ELSE NoProduct

(***************************************************************************)
(* The windows that run on a product, each from the application date.  A   *)
(* minimal asset process has no creditor-claims window.                    *)
(***************************************************************************)
Windows(product) ==
    CASE product = "das" ->
            {[kind |-> "creditor_objection", days |-> DasObjectionDays]}
      [] product = "ptd" ->
            {[kind |-> "creditor_objection", days |-> PtdObjectionDays]}
      [] product = "map" ->
            {[kind |-> "discharge", days |-> MapDischargeDays]}
      [] product = "sequestration" ->
            {[kind |-> "discharge", days |-> DischargeDays],
             [kind |-> "creditor_claims", days |-> ClaimsDays],
             [kind |-> "trustee_proposals", days |-> ProposalsDays],
             [kind |-> "accounting_period_end", days |-> PeriodDays],
             [kind |-> "late_claims_cutoff", days |-> PeriodDays - LateClaimDays]}

CaseClocks(product, submittedOn) ==
    {[kind |-> w.kind, due |-> submittedOn + w.days] : w \in Windows(product)}

-----------------------------------------------------------------------------
DaysRemaining(due, now) == due - now

Expired(due, now) == DaysRemaining(due, now) < 0

Imminent(due, now) == DaysRemaining(due, now) \in 0..ImminentDays

\* A mutant: the last day of a window counts as a breach.
MilestonesBreachedEarly(due, now) ==
    {m \in Milestone :
        CASE m = "breached" -> DaysRemaining(due, now) <= 0
          [] m = "due_today" -> FALSE
          [] m = "approaching" -> DaysRemaining(due, now) \in 1..ImminentDays}

\* The milestones a deadline sits at: one, or none while it is further off.
MilestonesOf(due, now) ==
    {m \in Milestone :
        CASE m = "breached" -> Expired(due, now)
          [] m = "due_today" -> DaysRemaining(due, now) = 0
          [] m = "approaching" ->
                Imminent(due, now) /\ DaysRemaining(due, now) \in 1..ImminentDays}

(***************************************************************************)
(* The reminders due on a case and not yet fired.  "fired" is the set of   *)
(* <<kind, milestone>> pairs already in the ledger for the application.    *)
(***************************************************************************)
EvaluateCase(product, submittedOn, now, fired) ==
    UNION {{[kind |-> c.kind, milestone |-> m, due |-> c.due] :
                m \in {x \in MilestonesOf(c.due, now) : <<c.kind, x>> \notin fired}} :
           c \in CaseClocks(product, submittedOn)}

\* A mutant: a clock is overdue on its last day.
PostureOverdueEarly(product, submittedOn, now) ==
    LET clocks == CaseClocks(product, submittedOn) IN
    IF \E c \in clocks : DaysRemaining(c.due, now) <= 0 THEN "overdue"
    ELSE IF \E c \in clocks : Imminent(c.due, now) THEN "at_risk"
    ELSE "on_track"

\* A mutant: the earliest deadline, expired or not.
EarliestDeadline(product, submittedOn, now) ==
    LET clocks == CaseClocks(product, submittedOn)
    IN  CHOOSE c \in clocks : \A d \in clocks : c.due <= d.due

(***************************************************************************)
(* The posture on the staff queue, and the deadline it surfaces: the       *)
(* soonest clock still running, or the earliest when all have expired.     *)
(***************************************************************************)
PostureOf(product, submittedOn, now) ==
    LET clocks == CaseClocks(product, submittedOn) IN
    IF \E c \in clocks : Expired(c.due, now) THEN "overdue"
    ELSE IF \E c \in clocks : Imminent(c.due, now) THEN "at_risk"
    ELSE "on_track"

NextDeadline(product, submittedOn, now) ==
    LET clocks  == CaseClocks(product, submittedOn)
        running == {c \in clocks : ~Expired(c.due, now)}
        shown   == IF running # {} THEN running ELSE clocks
    IN  CHOOSE c \in shown : \A d \in shown : c.due <= d.due
=============================================================================
