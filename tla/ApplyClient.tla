---------------------------- MODULE ApplyClient ----------------------------
(***************************************************************************)
(* The application form (apps/web/src/app/apply/page.tsx) at work on the   *)
(* records of the gateway: one browser tab that creates a draft at the     *)
(* first change, saves itself 1.5 s after the latest one, and submits.     *)
(* Requests of the form are answered, or lost before or after they were    *)
(* served; those on their way together arrive in any order.                *)
(*                                                                         *)
(* Leaving the form within the application (Leave) loses what the page     *)
(* holds, but the application's id, timers and calls in progress live on;  *)
(* loading a page anew (Reload) ends those too.  localStorage survives     *)
(* both.  The content of a form is the set of fields filled in.            *)
(*                                                                         *)
(* The last section, the payment, comes and goes within the page.  What a  *)
(* submission does when it ends, it does as the render that sent it: with  *)
(* the application's id and the status of the connection of that moment.   *)
(***************************************************************************)
EXTENDS CaseRecords, FiniteSets

CONSTANTS
    Field,
    Slot,           \* submissions on their way at once, at most
    MaxSaves,       \* saves on their way at once
    MaxLost,        \* requests or answers lost, and submissions timed out
    MaxVisits       \* times the form is left or loaded again

ASSUME ApplyAssumption ==
    MaxSaves \in Nat /\ MaxLost \in Nat /\ MaxVisits \in Nat

VARIABLES
    data,           \* what the server holds of each application's form
    form,           \* formData
    appId,          \* application.applicationId, in the context of all pages
    created,        \* the ref applicationCreated
    offline,        \* apiStatus = 'offline'
    timer,          \* saveTimeoutRef: what will be saved, and where to
    creations,      \* creations on their way, and who waits for them
    saves,          \* saves on their way
    submits,        \* submissions on their way, and who waits for them
    blob,           \* localStorage: the application of aib_pending_application
    paying,         \* the payment section is up
    submitting,     \* its button is disabled
    completed,      \* formData.payment.completed: the button is gone
    promised,       \* applications shown as saved locally
    aside,          \* those the blob has held so far (history)
    lost, visits    \* what the bounds count

server  == <<app, rec, today, data>>
section == <<paying, submitting, completed>>
page    == <<form, created, offline, timer, section>>
network == <<creations, saves, submits>>
counts  == <<lost, visits>>

pending == <<blob, promised, aside>>

applyVars == <<server, page, network, counts, appId, pending>>

Form == SUBSET Field

Timer == [data : Form, to : App \cup {Null}]

\* `by`: the page waits, it was left meanwhile, or nothing waits any more.
Creation == [app : App, done : BOOLEAN, by : {"here", "left", "gone"}]

Save == [app : App, data : Form]

\* `by`: the section that sent it is up, or only its page is, or none of them;
\* `id` and `offline` are those of the render that sent it.
Submission ==
    [slot : Slot, app : App, done : BOOLEAN, kind : {"press", "retry"},
     by : {"section", "page", "left", "gone"},
     id : App \cup {Null}, offline : BOOLEAN]

ApplyTypeOK ==
    /\ RecordsTypeOK
    /\ data \in [App -> Form]
    /\ form \in Form
    /\ appId \in App \cup {Null}
    /\ created \in BOOLEAN /\ offline \in BOOLEAN
    /\ timer \in Timer \cup {Null}
    /\ creations \subseteq Creation
    /\ saves \subseteq Save
    /\ submits \subseteq Submission
    /\ blob \in App \cup {Null}
    /\ paying \in BOOLEAN /\ submitting \in BOOLEAN /\ completed \in BOOLEAN
    /\ promised \subseteq App /\ aside \subseteq App
    /\ lost \in 0..MaxLost /\ visits \in 0..MaxVisits

ApplyInit ==
    /\ app = [a \in App |-> Null]
    /\ rec = [a \in App |-> Null]
    /\ today = BootDay
    /\ data = [a \in App |-> {}]
    /\ form = {} /\ created = FALSE /\ offline = FALSE /\ timer = Null
    /\ appId = Null
    /\ creations = {} /\ saves = {} /\ submits = {}
    /\ blob = Null
    /\ paying = FALSE /\ submitting = FALSE /\ completed = FALSE
    /\ promised = {} /\ aside = {}
    /\ lost = 0 /\ visits = 0

-----------------------------------------------------------------------------
\* A mutant: the guard against a second creation is set by the answer.
EnsureApplicationExistsLate(id) ==
    IF id # Null THEN UNCHANGED <<created, creations>>
    ELSE \E a \in App :
            /\ ~Exists(a) /\ a \notin {c.app : c \in creations}
            /\ creations' = creations \cup
                    {[app |-> a, done |-> FALSE, by |-> "here"]}
            /\ UNCHANGED created

\* ensureApplicationExists of a render that knows of application id, up to its
\* await; the server will give the new id a.
EnsureApplicationExists(id) ==
    IF id # Null \/ created THEN UNCHANGED <<created, creations>>
    ELSE \E a \in App :
            /\ ~Exists(a) /\ a \notin {c.app : c \in creations}
            /\ created' = TRUE
            /\ creations' = creations \cup
                    {[app |-> a, done |-> FALSE, by |-> "here"]}

\* updateField of such a render: the timer is set for the whole form as it is
\* now, and for that application, unless the render was offline.
UpdateField(filled, id, off) ==
    /\ form' = filled
    /\ EnsureApplicationExists(id)
    /\ timer' = [data |-> filled, to |-> IF off THEN Null ELSE id]

Edit(f) ==
    /\ f \notin form
    /\ UpdateField(form \cup {f}, appId, offline)
    /\ UNCHANGED <<server, counts, saves, submits, appId, offline, section, pending>>

\* What a timer that runs out sends: saveToBackend.
Sent(t) == IF t = Null \/ t.to = Null THEN {} ELSE {[app |-> t.to, data |-> t.data]}

FireTimer ==
    /\ timer # Null
    /\ timer' = Null
    /\ saves' = saves \cup Sent(timer)
    /\ Cardinality(saves') <= MaxSaves
    /\ UNCHANGED <<server, counts, creations, submits, form, created, offline,
                   section, appId, pending>>

Send(a, kind, by) ==
    \E slot \in Slot \ {m.slot : m \in submits} :
        submits' = submits \cup
            {[slot |-> slot, app |-> a, done |-> FALSE, kind |-> kind, by |-> by,
              id |-> appId, offline |-> offline]}

\* The button is there, and enabled.
CanPress == paying /\ ~completed /\ ~submitting

\* "Complete Payment & Submit": handleSubmit, up to its await.
Press ==
    /\ CanPress /\ appId # Null
    /\ submitting' = TRUE
    /\ Send(appId, "press", "section")
    /\ UNCHANGED <<server, form, created, offline, timer, paying, completed, counts,
                   creations, saves, appId, pending>>

\* The same without an application: a made-up reference, and nothing is sent.
PressOffline ==
    /\ CanPress /\ appId = Null
    /\ completed' = TRUE
    /\ UpdateField(form, appId, offline)
    /\ UNCHANGED <<server, counts, saves, submits, appId, offline, paying, submitting,
                   pending>>

\* The payment section is mounted: a pending submission is tried again.
OpenPayment ==
    /\ ~paying
    /\ paying' = TRUE
    /\ IF blob = Null THEN UNCHANGED submits ELSE Send(blob, "retry", "page")
    /\ UNCHANGED <<server, form, created, offline, timer, submitting, completed, counts,
                   creations, saves, appId, pending>>

\* Another section of the form: what the section knew, `submitting`, is lost.
ClosePayment ==
    /\ paying
    /\ paying' = FALSE /\ submitting' = FALSE
    /\ submits' = {[m EXCEPT !.by = IF @ = "section" THEN "page" ELSE @] :
                        m \in submits}
    /\ UNCHANGED <<server, form, created, offline, timer, completed, counts, creations,
                   saves, appId, pending>>

-----------------------------------------------------------------------------
\* The answer to a request, on its way if anything waits for it.
Answer(request) ==
    IF request.by = "gone" THEN {} ELSE {[request EXCEPT !.done = TRUE]}

CreationServed(c) ==
    /\ ~c.done
    /\ CreateRow(c.app, [status |-> "draft", submittedAt |-> Null,
                         owner |-> Null, assignedTo |-> Null])
    /\ creations' = (creations \ {c}) \cup Answer(c)
    /\ UNCHANGED <<data, page, saves, submits, counts, appId, pending>>

\* PUT /applications/:id stores the form, or refuses when EditRow does.
SaveServed(s) ==
    /\ saves' = saves \ {s}
    /\ \/ /\ EditRow(s.app, app[s.app])
          /\ data' = [data EXCEPT ![s.app] = s.data]
       \/ /\ app[s.app].status \notin {"draft", "additional_info_required"}
          /\ UNCHANGED server
    /\ UNCHANGED <<page, creations, submits, counts, appId, pending>>

SubmitServed(m) ==
    /\ ~m.done
    /\ SubmitRow(m.app, 2)
    /\ submits' = (submits \ {m}) \cup Answer(m)
    /\ UNCHANGED <<data, page, creations, saves, counts, appId, pending>>

-----------------------------------------------------------------------------
\* The creation's answer: the id goes to the context, whatever page is up.
CreationAnswered(c) ==
    /\ c.done
    /\ creations' = creations \ {c}
    /\ appId' = c.app
    /\ offline' = IF c.by = "here" THEN FALSE ELSE offline
    /\ UNCHANGED <<server, form, created, timer, section, saves, submits,
                   counts, pending>>

Lose == lost < MaxLost /\ lost' = lost + 1 /\ UNCHANGED visits

\* The catch block of ensureApplicationExists, of the page that waits.
CreationLost(c) ==
    /\ Lose
    /\ creations' = creations \ {c}
    /\ IF c.by = "here" THEN offline' = TRUE /\ created' = FALSE
       ELSE UNCHANGED <<offline, created>>
    /\ UNCHANGED <<server, form, timer, section, saves, submits, appId,
                   pending>>

SaveLost(s) ==
    /\ Lose
    /\ saves' = saves \ {s}
    /\ UNCHANGED <<server, page, creations, submits, appId, pending>>

\* updateField('payment', 'completed', true), if the page is still up.
Complete(m) ==
    IF m.by \in {"section", "page"}
    THEN /\ completed' = TRUE
         /\ UpdateField(form, m.id, m.offline)
    ELSE UNCHANGED <<completed, form, created, timer, creations>>

\* handleSubmit ends; setSubmitting(false) reaches the section that sent m.
EndSubmit(m) ==
    /\ Complete(m)
    /\ submitting' = (submitting /\ m.by # "section")

\* What is still waited for of submission m: nothing.
Unawaited(m) ==
    (submits \ {m}) \cup (IF m.done THEN {} ELSE {[m EXCEPT !.by = "gone"]})

SubmitAnswered(m) ==
    /\ m.done /\ m.kind = "press"
    /\ submits' = submits \ {m}
    /\ EndSubmit(m)
    /\ UNCHANGED <<server, saves, counts, appId, offline, paying, pending>>

\* "Your application has been saved locally", if its section is still up.
Promise(m) ==
    promised' = IF m.by = "section" THEN promised \cup {m.app} ELSE promised

\* A mutant: the pending submission is not kept.
SubmitFailedForget(m) ==
    /\ m.kind = "press" /\ m.by # "gone"
    /\ Lose
    /\ submits' \in {submits \ {m}, Unawaited(m)}
    /\ Promise(m)
    /\ EndSubmit(m)
    /\ UNCHANGED <<server, saves, appId, offline, paying, blob, aside>>

\* The submission fails, or 5 s pass before its answer, which may still be served.
SubmitFailed(m) ==
    /\ m.kind = "press" /\ m.by # "gone"
    /\ Lose
    /\ submits' \in {submits \ {m}, Unawaited(m)}
    /\ blob' = m.app /\ aside' = aside \cup {m.app}
    /\ Promise(m)
    /\ EndSubmit(m)
    /\ UNCHANGED <<server, saves, appId, offline, paying>>

\* A retry succeeds: whatever localStorage holds by now is removed.
RetryAnswered(m) ==
    /\ m.done /\ m.kind = "retry"
    /\ submits' = submits \ {m}
    /\ blob' = Null
    /\ Complete(m)
    /\ UNCHANGED <<server, saves, counts, appId, offline, paying, submitting, promised,
                   aside>>

\* Nothing comes of it: an error, or the answer of a page that is gone.
RetryLost(m) ==
    /\ m.kind = "retry" \/ m.by = "gone"
    /\ Lose
    /\ submits' = submits \ {m}
    /\ UNCHANGED <<server, page, creations, saves, appId, pending>>

-----------------------------------------------------------------------------
Fresh ==
    /\ visits < MaxVisits
    /\ visits' = visits + 1
    /\ form' = {} /\ created' = FALSE /\ offline' = FALSE /\ timer' = Null
    /\ paying' = FALSE /\ submitting' = FALSE /\ completed' = FALSE

\* Another page of the application, and back: a timer still runs out.
Leave ==
    /\ Fresh
    /\ saves' = saves \cup Sent(timer)
    /\ creations' = {[c EXCEPT !.by = IF @ = "here" THEN "left" ELSE @] :
                        c \in creations}
    /\ submits' = {[m EXCEPT !.by = IF @ = "gone" THEN @ ELSE "left"] : m \in submits}
    /\ UNCHANGED <<server, lost, appId, pending>>

\* The page is loaded anew: the context, timers and calls in progress end.
Reload ==
    /\ Fresh
    /\ appId' = Null
    /\ creations' = {[c EXCEPT !.by = "gone"] : c \in {d \in creations : ~d.done}}
    /\ submits' = {[m EXCEPT !.by = "gone"] : m \in {n \in submits : ~n.done}}
    /\ UNCHANGED <<server, lost, saves, pending>>

Serve ==
    \/ \E c \in creations : CreationServed(c)
    \/ \E s \in saves : SaveServed(s)
    \/ \E m \in submits : SubmitServed(m)

Receive ==
    \/ \E c \in creations : CreationAnswered(c) \/ CreationLost(c)
    \/ \E s \in saves : SaveLost(s)
    \/ \E m \in submits :
            SubmitAnswered(m) \/ SubmitFailed(m) \/ RetryAnswered(m) \/ RetryLost(m)

ApplyNext ==
    \/ \E f \in Field : Edit(f)
    \/ FireTimer \/ Press \/ PressOffline \/ OpenPayment \/ ClosePayment
    \/ Leave \/ Reload
    \/ Serve \/ Receive

ApplySpec == ApplyInit /\ [][ApplyNext]_applyVars

-----------------------------------------------------------------------------
(***************************************************************************)
(* The guard against a second creation holds across renders, failures and  *)
(* returns to the form: each visit leaves at most one application on the   *)
(* server, and one more for each answer that was lost.                     *)
(***************************************************************************)
OneDraftPerVisit ==
    Cardinality({a \in App : Exists(a)}) <= 1 + visits + lost

(***************************************************************************)
(* Saves that are late, lost or out of order do not touch an application   *)
(* that has been submitted: staff see what the server held at that moment. *)
(***************************************************************************)
SubmittedFormIsFrozen ==
    [][\A a \in App : (Exists(a) /\ app[a].status = "submitted") =>
            data'[a] = data[a]]_applyVars

IsSubmitted(a) == Exists(a) /\ app[a].status = "submitted"

\* A submission of a is on its way to the server.
IsSubmitting(a) == \E m \in submits : m.app = a /\ ~m.done

(***************************************************************************)
(* "It will be submitted automatically when the service reconnects. Your   *)
(* data is safe." (page.tsx:2224), of one application: while no other is   *)
(* put aside, it is on the server, submitted, or still pending here,       *)
(* through time-outs, late answers, sections left and pages loaded anew.   *)
(* Once another has been put aside in the one place there is, whether its  *)
(* debtor was told or had left by then, this says nothing of either (see   *)
(* EveryPromiseIsKept).                                                    *)
(***************************************************************************)
PromiseIsKept ==
    \A a \in promised :
        IsSubmitted(a) \/ blob = a \/ \E b \in aside : b # a

(***************************************************************************)
(* The same promise, of every application it was made for.                 *)
(***************************************************************************)
EveryPromiseIsKept ==
    \A a \in promised : IsSubmitted(a) \/ IsSubmitting(a) \/ blob = a
=============================================================================
