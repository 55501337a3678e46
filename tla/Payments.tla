------------------------------ MODULE Payments ------------------------------
(***************************************************************************)
(* The fee of an application                                               *)
(* (services/payment-service/src/routes/payments.ts).  A payment is        *)
(* initiated, paid by Apple Pay, Google Pay or card - three handlers that  *)
(* change the row alike - and refunded by staff.  The simulated provider   *)
(* approves or declines each attempt.  Handlers are synchronous; each      *)
(* commits its UPDATEs one by one.                                         *)
(*                                                                         *)
(* approvals and refunds count what the provider was asked for in earnest; *)
(* the code keeps no such counters.  The reference of the k-th approval of *)
(* a payment is written k: references are random and never repeat.         *)
(***************************************************************************)
EXTENDS SqlNull, Naturals

CONSTANTS
    Payment,        \* payment ids
    CutShort,       \* payments whose handlers may stop between two writes
    MaxApprovals    \* approvals per payment, to keep the model finite

ASSUME PaymentAssumption ==
    CutShort \subseteq Payment /\ MaxApprovals \in Nat

PaymentStatus == {"pending", "completed", "failed", "refunded"}

PaymentRow == [status : PaymentStatus, providerRef : 1..MaxApprovals \cup {Null}]

ASSUME PaymentNullAssumption == Null \notin PaymentRow /\ Null \notin Nat

VARIABLES
    payment,        \* rows of `payments`, Null before they are initiated
    approvals,      \* attempts the provider approved
    refunds         \* refunds granted

paymentVars == <<payment, approvals, refunds>>

PaymentTypeOK ==
    /\ payment \in [Payment -> PaymentRow \cup {Null}]
    /\ approvals \in [Payment -> 0..MaxApprovals]
    /\ refunds \in [Payment -> 0..MaxApprovals]

PaymentInit ==
    /\ payment = [p \in Payment |-> Null]
    /\ approvals = [p \in Payment |-> 0]
    /\ refunds = [p \in Payment |-> 0]

\* How many of the k writes of a handler are made.
WritesOf(p, k) == IF p \in CutShort THEN 1..k ELSE {k}

\* POST /initiate
Initiate(p) ==
    /\ payment[p] = Null
    /\ payment' = [payment EXCEPT ![p] = [status |-> "pending", providerRef |-> Null]]
    /\ UNCHANGED <<approvals, refunds>>

\* A mutant: the reference is stored when there is none yet.
ApproveKeepRef(p) ==
    \E n \in WritesOf(p, 2) :
        /\ payment[p] # Null
        /\ approvals[p] < MaxApprovals
        /\ approvals' = [approvals EXCEPT ![p] = @ + 1]
        /\ payment' = [payment EXCEPT
                ![p].status = "completed",
                ![p].providerRef = IF n = 2 /\ @ = Null THEN approvals'[p] ELSE @]
        /\ UNCHANGED refunds

(***************************************************************************)
(* POST /apple-pay, /google-pay, /card, approved: the status, then the     *)
(* provider's reference.  No handler looks at the status it finds.         *)
(***************************************************************************)
Approve(p) ==
    \E n \in WritesOf(p, 2) :
        /\ payment[p] # Null
        /\ approvals[p] < MaxApprovals
        /\ approvals' = [approvals EXCEPT ![p] = @ + 1]
        /\ payment' = [payment EXCEPT
                ![p].status = "completed",
                ![p].providerRef = IF n = 2 THEN approvals'[p] ELSE @]
        /\ UNCHANGED refunds

\* The same handlers, declined: the reference is left as it was.
Decline(p) ==
    /\ payment[p] # Null
    /\ payment' = [payment EXCEPT ![p].status = "failed"]
    /\ UNCHANGED <<approvals, refunds>>

\* A mutant: whatever has been paid once can be refunded.
RefundAgain(p) ==
    /\ payment[p] # Null
    /\ payment[p].status \in {"completed", "refunded"}
    /\ payment' = [payment EXCEPT ![p].status = "refunded"]
    /\ refunds' = [refunds EXCEPT ![p] = @ + 1]
    /\ UNCHANGED approvals

\* POST /:id/refund
Refund(p) ==
    /\ payment[p] # Null
    /\ payment[p].status = "completed"
    /\ payment' = [payment EXCEPT ![p].status = "refunded"]
    /\ refunds' = [refunds EXCEPT ![p] = @ + 1]
    /\ UNCHANGED approvals

PaymentNext ==
    \E p \in Payment : Initiate(p) \/ Approve(p) \/ Decline(p) \/ Refund(p)

PaymentSpec == PaymentInit /\ [][PaymentNext]_paymentVars

-----------------------------------------------------------------------------
(***************************************************************************)
(* No more is paid back than came in: every refund has an approval of its  *)
(* own, and a payment that shows completed has one more, in whatever order *)
(* attempts, retries and refunds come and wherever a handler stops.        *)
(***************************************************************************)
Spent(p) == IF payment[p] # Null /\ payment[p].status = "completed" THEN 1 ELSE 0

RefundsAreCovered ==
    \A p \in Payment : refunds[p] + Spent(p) <= approvals[p]

(***************************************************************************)
(* "Given payment succeeds, when confirmed, then a receipt reference is    *)
(* stored against the application" (docs/user-stories.md:389): a payment   *)
(* shown as paid or refunded holds the reference of its latest approval,   *)
(* not of an earlier one, when none of its handlers is cut short.          *)
(***************************************************************************)
ReceiptIsTheLatest ==
    \A p \in Payment \ CutShort : payment[p] # Null =>
        /\ payment[p].status \in {"completed", "refunded"} =>
                payment[p].providerRef = approvals[p]
        /\ payment[p].providerRef = Null <=> approvals[p] = 0
=============================================================================
