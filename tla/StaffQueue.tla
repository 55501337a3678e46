----------------------------- MODULE StaffQueue -----------------------------
(***************************************************************************)
(* The officers' dashboard (AibDashboard of apps/web/src/app/dashboard/    *)
(* page.tsx) on the records of the gateway: the queue each officer's tab   *)
(* polls for while it is visible, and the panel with which an officer      *)
(* decides a case from it.                                                 *)
(*                                                                         *)
(* Polls overlap, are lost, and arrive in any order.  A reply carries the  *)
(* queue as the server had it; of a row the model keeps the status.  The   *)
(* panel holds a copy of its row, which no poll refreshes, and displays    *)
(* the credit check of it: an officer reads a status in the queue, and in  *)
(* the alert that answers a press that failed.                             *)
(***************************************************************************)
EXTENDS CaseRecords, FiniteSets

CONSTANTS
    Desk,           \* dashboards open, one tab each
    Offered,        \* the decisions among the panel's three buttons considered
    Elsewhere,      \* the statuses other screens set, of those considered
    MaxPolls        \* polls of a tab on their way at once

ASSUME QueueAssumption ==
    /\ Offered \subseteq {"approved", "rejected", "additional_info_required"}
    /\ Elsewhere \subseteq Status
    /\ MaxPolls \in Nat \ {0}

VARIABLES
    decisions,      \* the decisions each case has had so far (history)
    visible,        \* tabs their officer looks at
    interval,       \* tabs whose poll runs every 30 seconds
    polls,          \* polls on their way
    queue,          \* liveApps
    panel,          \* selectedApp: a copy of its row
    press,          \* the panel's update, on its way
    alert           \* the last 'Status updated (demo)', of the row pressed

queueVars ==
    <<app, rec, today, decisions, visible, interval, polls, queue, panel, press,
      alert>>

records == <<app, rec, today, decisions>>

Queue == [App -> Status \cup {Null}]

Row == [app : App, status : Status]

QueuePoll == [desk : Desk, rows : Queue \cup {Null}]

QueueTypeOK ==
    /\ RecordsTypeOK
    /\ decisions \in [App -> SUBSET Decided]
    /\ visible \subseteq Desk /\ interval \subseteq Desk
    /\ polls \subseteq QueuePoll
    /\ queue \in [Desk -> Queue]
    /\ panel \in [Desk -> Row \cup {Null}]
    /\ press \in [Desk -> [row : Row, answer : {"none", "done", "failed"}] \cup {Null}]
    /\ alert \in [Desk -> Row \cup {Null}]

RowStatus(a) == IF Exists(a) THEN app[a].status ELSE Null

Empty == [a \in App |-> Null]

QueueInit ==
    /\ InitRecords
    /\ decisions = [a \in App |->
            IF Exists(a) THEN {app[a].status} \cap Decided ELSE {}]
    /\ visible = Desk /\ interval = Desk
    /\ polls = {[desk |-> d, rows |-> Null] : d \in Desk}
    /\ queue = [d \in Desk |-> Empty]
    /\ panel = [d \in Desk |-> Null]
    /\ press = [d \in Desk |-> Null] /\ alert = [d \in Desk |-> Null]

Remember(a) ==
    decisions' = [decisions EXCEPT ![a] = @ \cup ({app'[a].status} \cap Decided)]

-----------------------------------------------------------------------------
\* The debtor submits, or another screen changes the status.
WorkElsewhere(a) ==
    /\ SubmitRow(a, 2) \/ (\E status \in Elsewhere : StatusRow(a, status))
    /\ Remember(a)
    /\ UNCHANGED <<visible, interval, polls, queue, panel, press, alert>>

\* fetchApps, up to its await.
Fetch(d) ==
    /\ Cardinality({p \in polls : p.desk = d}) < MaxPolls
    /\ polls' = polls \cup {[desk |-> d, rows |-> Null]}

PollAgain(d) ==
    /\ d \in interval
    /\ Fetch(d)
    /\ UNCHANGED <<records, visible, interval, queue, panel, press, alert>>

\* GET /applications
ServePoll(d) ==
    /\ [desk |-> d, rows |-> Null] \in polls
    /\ polls' = (polls \ {[desk |-> d, rows |-> Null]}) \cup
            {[desk |-> d, rows |-> [a \in App |-> RowStatus(a)]]}
    /\ UNCHANGED <<records, visible, interval, queue, panel, press, alert>>

\* setLiveApps
ReceiveRows(d) ==
    \E p \in polls :
        /\ p.desk = d /\ p.rows # Null
        /\ polls' = polls \ {p}
        /\ queue' = [queue EXCEPT ![d] = p.rows]
        /\ UNCHANGED <<records, visible, interval, panel, press, alert>>

\* A poll fails: the rows stay.
LosePoll(d) ==
    \E p \in polls :
        /\ p.desk = d
        /\ polls' = polls \ {p}
        /\ UNCHANGED <<records, visible, interval, queue, panel, press, alert>>

\* onVisibilityChange
Hide(d) ==
    /\ d \in visible
    /\ visible' = visible \ {d}
    /\ interval' = interval \ {d}
    /\ UNCHANGED <<records, polls, queue, panel, press, alert>>

\* A mutant: the poll on return is the last one.
ShowOnce(d) ==
    /\ d \notin visible
    /\ visible' = visible \cup {d}
    /\ UNCHANGED interval
    /\ Fetch(d)
    /\ UNCHANGED <<records, queue, panel, press, alert>>

Show(d) ==
    /\ d \notin visible
    /\ visible' = visible \cup {d}
    /\ interval' = interval \cup {d}
    /\ Fetch(d)
    /\ UNCHANGED <<records, queue, panel, press, alert>>

-----------------------------------------------------------------------------
\* A row is clicked: its panel opens, or closes.
Select(d, a) ==
    /\ d \in visible /\ queue[d][a] # Null
    /\ panel' = [panel EXCEPT ![d] =
            IF @ # Null /\ @.app = a THEN Null ELSE [app |-> a, status |-> queue[d][a]]]
    /\ UNCHANGED <<records, visible, interval, polls, queue, press, alert>>

\* Approve, Reject or Request More Info: the row the press was made on goes
\* along.  One update of a panel is on its way at a time: a bound.
Press(d, status) ==
    /\ d \in visible /\ panel[d] # Null /\ press[d] = Null
    /\ press' = [press EXCEPT ![d] =
            [row |-> [app |-> panel[d].app, status |-> status], answer |-> "none"]]
    /\ alert' = [alert EXCEPT ![d] = Null]
    /\ UNCHANGED <<records, visible, interval, polls, queue, panel>>

\* PATCH /status makes the change, or not; its answer may be lost.
ServePress(d) ==
    /\ press[d] # Null /\ press[d].answer = "none"
    /\ \/ /\ StatusRow(press[d].row.app, press[d].row.status)
          /\ Remember(press[d].row.app)
          /\ \E answer \in {"done", "failed"} :
                press' = [press EXCEPT ![d].answer = answer]
       \/ /\ press' = [press EXCEPT ![d].answer = "failed"]
          /\ UNCHANGED records
    /\ UNCHANGED <<visible, interval, polls, queue, panel, alert>>

\* A mutant: the panel takes the new status whether or not it was made.
ReceivePressAnyway(d) ==
    /\ press[d] # Null /\ press[d].answer # "none"
    /\ panel' = [panel EXCEPT ![d] = press[d].row]
    /\ press' = [press EXCEPT ![d] = Null]
    /\ UNCHANGED <<records, visible, interval, polls, queue, alert>>

\* The answer: the panel takes the pressed row, or an alert speaks of it as
\* updated, although it was not, or may not have been.
ReceivePress(d) ==
    /\ press[d] # Null /\ press[d].answer # "none"
    /\ IF press[d].answer = "done"
       THEN /\ panel' = [panel EXCEPT ![d] = press[d].row]
            /\ UNCHANGED alert
       ELSE /\ alert' = [alert EXCEPT ![d] = press[d].row]
            /\ UNCHANGED panel
    /\ press' = [press EXCEPT ![d] = Null]
    /\ UNCHANGED <<records, visible, interval, polls, queue>>

QueueNext ==
    \/ \E a \in App : WorkElsewhere(a)
    \/ \E d \in Desk :
            \/ PollAgain(d) \/ ServePoll(d) \/ ReceiveRows(d) \/ LosePoll(d)
            \/ Hide(d) \/ Show(d)
            \/ (\E a \in App : Select(d, a))
            \/ (\E status \in Offered : Press(d, status))
            \/ ServePress(d) \/ ReceivePress(d)

QueueSpec == QueueInit /\ [][QueueNext]_queueVars

(***************************************************************************)
(* The interval of a visible tab fires every 30 seconds; the server serves *)
(* what reaches it, and is not out of reach for ever.                      *)
(***************************************************************************)
QueueFairness ==
    \A d \in Desk :
        /\ WF_queueVars(PollAgain(d))
        /\ SF_queueVars(ServePoll(d))
        /\ SF_queueVars(ReceiveRows(d))

-----------------------------------------------------------------------------
(***************************************************************************)
(* Once a case is left as it is, every queue that stays in view shows it   *)
(* so in the end, although replies may overtake one another, be lost, or   *)
(* come from before the tab was hidden (page.tsx:259-290).                 *)
(***************************************************************************)
QueueCatchesUp ==
    \A d \in Desk, a \in App :
        (<>[](d \in visible) /\ <>[][UNCHANGED app]_app)
            => <>[](queue[d][a] = RowStatus(a))

(***************************************************************************)
(* The rows a dashboard holds claim no decision that was not made: one     *)
(* that was refused, because another officer's came first, or that was     *)
(* lost enters neither the queue nor the panel.  What the officer is told  *)
(* at that moment is another matter: the alert of page.tsx:655-657 says    *)
(* "Status updated (demo)" of a stored case whose update failed, and the   *)
(* queue's badge alone contradicts it.                                     *)
(***************************************************************************)
NoPhantomDecision ==
    \A d \in Desk :
        /\ panel[d] # Null /\ panel[d].status \in Decided =>
                panel[d].status \in decisions[panel[d].app]
        /\ \A a \in App : queue[d][a] \in Decided => queue[d][a] \in decisions[a]
=============================================================================
