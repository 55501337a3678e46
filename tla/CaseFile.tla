------------------------------ MODULE CaseFile ------------------------------
(***************************************************************************)
(* The API gateway's case handlers in full: each changes the rows of       *)
(* CaseRecords, then writes its audit event, then tells the person         *)
(* concerned (services/api-gateway/src/routes/applications.ts).            *)
(*                                                                         *)
(* A handler stops where its first failing write is: writes are made in    *)
(* the order rows, audit event, notification.  Only the notification is    *)
(* allowed to fail without the handler failing (`notify` swallows it).     *)
(* Who may call a handler is not modelled: each action stands for the      *)
(* requests of the callers its permission and ownership checks let in.     *)
(***************************************************************************)
EXTENDS CaseRecords, Sequences

CONSTANT MaxTrail       \* audit events per case, to keep the model finite

ASSUME MaxTrailAssumption == MaxTrail \in Nat

VARIABLES
    trail,      \* audit_events of each case, oldest first
    inbox       \* notifications about each case, with their place in the trail

vars == <<app, rec, today, trail, inbox>>

(***************************************************************************)
(* An audit event: what happened, with the value its details record as     *)
(* previous and the value it establishes.  A status change is what the     *)
(* code names status_changed_to_<is>.                                      *)
(***************************************************************************)
AuditAction == {"created", "updated", "submitted", "status_changed",
                "assigned", "overridden", "note_added", "claim_submitted",
                "message_sent"}

\* Who a message is from.
Direction == {"staff", "applicant"}

AuditValue == Status \cup Officer \cup Product \cup Direction \cup {Null}

AuditEvent == [action : AuditAction, was : AuditValue, is : AuditValue]

\* A notification: its reader, its subject, and the audit events before it.
Notice == [to : Owner \cup Officer, subject : Status \cup {"assigned", "message"},
           at : 0..MaxTrail]

TypeOK ==
    /\ RecordsTypeOK
    /\ trail \in [App -> Seq(AuditEvent)]
    /\ \A a \in App : Len(trail[a]) <= MaxTrail
    /\ inbox \in [App -> SUBSET Notice]

Audit(a, action, was, is) ==
    trail' = [trail EXCEPT ![a] =
                Append(@, [action |-> action, was |-> was, is |-> is])]

\* The notification, written unless there is nobody to tell or it fails.
Notify(a, to, subject) ==
    \/ UNCHANGED inbox
    \/ /\ to # Null
       /\ inbox' = [inbox EXCEPT ![a] = @ \cup
                        {[to |-> to, subject |-> subject, at |-> Len(trail'[a])]}]

HasRoom(a) == Len(trail[a]) < MaxTrail

Quiet == UNCHANGED <<trail, inbox>>

Init ==
    /\ InitRecords
    /\ trail = [a \in App |-> <<>>]
    /\ inbox = [a \in App |-> {}]

Create(a) ==
    \E row \in AppRow, n \in Made(2) :
        /\ HasRoom(a)
        /\ CreateRow(a, row)
        /\ IF n = 2 THEN Audit(a, "created", Null, "draft") ELSE UNCHANGED trail
        /\ UNCHANGED inbox

Edit(a) ==
    \E row \in AppRow, n \in Made(2) :
        /\ HasRoom(a)
        /\ EditRow(a, row)
        /\ IF n = 2 THEN Audit(a, "updated", Null, Null) ELSE UNCHANGED trail
        /\ UNCHANGED inbox

Submit(a) ==
    \E n \in Made(3) :
        /\ HasRoom(a)
        /\ SubmitRow(a, n)
        /\ IF n = 3
           THEN /\ Audit(a, "submitted", Null, "submitted")
                /\ Notify(a, app[a].owner, "submitted")
           ELSE Quiet

\* A mutant: the previous status is read after it was overwritten.
ChangeStatusReadLate(a) ==
    \E status \in Status, n \in Made(2) :
        /\ HasRoom(a)
        /\ StatusRow(a, status)
        /\ IF n = 2
           THEN /\ Audit(a, "status_changed", app'[a].status, status)
                /\ Notify(a, app[a].owner, status)
           ELSE Quiet

\* A mutant: the owner is told before the audit event is written.
ChangeStatusTellFirst(a) ==
    \E status \in Status, n \in Made(3) :
        /\ HasRoom(a)
        /\ StatusRow(a, status)
        /\ IF n = 3 THEN Audit(a, "status_changed", app[a].status, status)
           ELSE UNCHANGED trail
        /\ IF n >= 2 THEN Notify(a, app[a].owner, status) ELSE UNCHANGED inbox

ChangeStatus(a) ==
    \E status \in Status, n \in Made(2) :
        /\ HasRoom(a)
        /\ StatusRow(a, status)
        /\ IF n = 2
           THEN /\ Audit(a, "status_changed", app[a].status, status)
                /\ Notify(a, app[a].owner, status)
           ELSE Quiet

Assign(a) ==
    \E officer \in Officer \cup {Null}, n \in Made(2) :
        /\ HasRoom(a)
        /\ AssignRow(a, officer)
        /\ IF n = 2
           THEN /\ Audit(a, "assigned", app[a].assignedTo, officer)
                /\ Notify(a, officer, "assigned")
           ELSE Quiet

\* The recommendation service writes no audit event.
Recommend(a) ==
    \E product \in EngineProduct, n \in Made(2) :
        RecommendRow(a, product, n) /\ Quiet

Override(a) ==
    \E product \in EngineProduct, n \in Made(2) :
        /\ HasRoom(a)
        /\ OverrideRow(a, product)
        /\ IF n = 2
           THEN Audit(a, "overridden", rec[a].product, product)
           ELSE UNCHANGED trail
        /\ UNCHANGED inbox

(***************************************************************************)
(* POST /applications/:id/notes and /claims: the note or claim is a row of *)
(* its own, which no other handler reads, so the model keeps its event.    *)
(***************************************************************************)
AddEntry(a) ==
    \E action \in {"note_added", "claim_submitted"}, n \in Made(2) :
        /\ HasRoom(a) /\ Exists(a)
        /\ IF n = 2 THEN Audit(a, action, Null, Null) ELSE UNCHANGED trail
        /\ UNCHANGED <<app, rec, today, inbox>>

\* POST /applications/:id/messages: the other side is told, if there is one.
SendMessage(a) ==
    \E from \in Direction, n \in Made(2) :
        /\ HasRoom(a) /\ Exists(a)
        /\ IF n = 2
           THEN /\ Audit(a, "message_sent", Null, from)
                /\ Notify(a, IF from = "staff" THEN app[a].owner
                             ELSE app[a].assignedTo, "message")
           ELSE Quiet
        /\ UNCHANGED <<app, rec, today>>

Handler(a) ==
    \/ Create(a) \/ Edit(a) \/ Submit(a) \/ ChangeStatus(a)
    \/ Assign(a) \/ Recommend(a) \/ Override(a)
    \/ AddEntry(a) \/ SendMessage(a)

Next ==
    \/ \E a \in App : Handler(a)
    \/ NewDay /\ Quiet

Spec == Init /\ [][Next]_vars

-----------------------------------------------------------------------------
StatusActions == {"created", "submitted", "status_changed"}

\* Event i of a trail is the last one whose action is one of these.
IsLastOf(events, i, actions) ==
    /\ i \in 1..Len(events)
    /\ events[i].action \in actions
    /\ \A j \in i + 1..Len(events) : events[j].action \notin actions

\* Events i and j are consecutive among those whose action is one of these.
IsNextOf(events, i, j, actions) ==
    /\ i \in 1..Len(events) /\ j \in i + 1..Len(events)
    /\ events[i].action \in actions
    /\ \A k \in i + 1..j - 1 : events[k].action \notin actions

\* The events of the handlers whose body may write the column: what they leave
\* in it they do not record.
Unrecorded(column) == IF column \in BodyCarries THEN {"created", "updated"} ELSE {}

\* Each recorded previous value is what the recorded event before it left, and
\* the last recorded value is the current one, unless an unrecorded write came
\* in between.
Replays(events, recorded, unrecorded, chained, current) ==
    LET writes == recorded \cup unrecorded
    IN  /\ \A i \in 1..Len(events) :
            IsLastOf(events, i, writes) /\ events[i].action \notin unrecorded =>
                events[i].is = current
        /\ \A i, j \in 1..Len(events) :
            (/\ IsNextOf(events, i, j, writes)
             /\ events[i].action \notin unrecorded /\ events[j].action \in chained) =>
                events[j].was = events[i].is

(***************************************************************************)
(* The audit trail of a case replays to its current state, for its status  *)
(* and its assignment (applications.ts:515, 634: the previous value is     *)
(* read before the update).  Holds of handlers that are not cut short; a   *)
(* form whose body carries the column breaks the chain where it is stored, *)
(* and the chain holds again from the next recorded event on.              *)
(***************************************************************************)
TrailReplays ==
    \A a \in App : Exists(a) =>
        /\ Replays(trail[a], StatusActions, Unrecorded("status"),
                   {"status_changed"}, app[a].status)
        /\ Replays(trail[a], {"assigned"}, Unrecorded("assignedTo"),
                   {"assigned"}, app[a].assignedTo)

(***************************************************************************)
(* Nobody is told of something the trail does not record: the audit event  *)
(* a notification is about comes just before it, names the same status (or *)
(* the reader as the new assignee), even when handlers are cut short; and  *)
(* nobody is told of a message by his own side.                            *)
(***************************************************************************)
Backed(a, notice) ==
    /\ notice.at \in 1..Len(trail[a])
    /\ LET event == trail[a][notice.at] IN
        IF notice.subject = "assigned"
        THEN event.action = "assigned" /\ event.is = notice.to
        ELSE IF notice.subject = "message"
        THEN /\ event.action = "message_sent"
             /\ event.is = "staff" => notice.to = app[a].owner
             /\ event.is = "applicant" => notice.to \in Officer
        ELSE /\ event.action \in {"submitted", "status_changed"}
             /\ event.is = notice.subject
             /\ notice.to = app[a].owner

NoticesAreBacked == \A a \in App : \A notice \in inbox[a] : Backed(a, notice)

(***************************************************************************)
(* A standing override is explained by the trail: the last override on     *)
(* record chose that product, over the engine's product the row still      *)
(* holds.  A regenerated recommendation may not carry the old override.    *)
(***************************************************************************)
OverrideIsExplained ==
    \A a \in App :
        rec[a] # Null /\ rec[a].override # Null =>
            \E i \in 1..Len(trail[a]) :
                /\ IsLastOf(trail[a], i, {"overridden"})
                /\ trail[a][i].is = rec[a].override
                /\ trail[a][i].was = rec[a].product

(***************************************************************************)
(* A case staff are working on has the submission date its statutory       *)
(* clocks run from; a draft has none.                                      *)
(***************************************************************************)
DatedWhenSubmitted ==
    \A a \in App : Exists(a) =>
        (app[a].status = "draft" <=> app[a].submittedAt = Null)

(***************************************************************************)
(* A decided case leaves its decision only by being submitted again, which *)
(* also restarts its clocks unless the handler was cut short: no staff     *)
(* transition and no edit leads out of a decision.                         *)
(***************************************************************************)
DecisionStandsUntilResubmitted ==
    [][\A a \in App :
        (/\ Exists(a) /\ app[a].status \in Decided
         /\ app'[a].status # app[a].status) =>
            /\ app'[a].status = "submitted"
            /\ Interruptible \/ app'[a].submittedAt = today
            /\ rec'[a] = rec[a] /\ app'[a].assignedTo = app[a].assignedTo]_vars
=============================================================================
