----------------------------- MODULE SlaWorker -----------------------------
(***************************************************************************)
(* The statutory SLA worker (services/api-gateway/src/sla/worker.ts) over  *)
(* the rows the case handlers change.  Each server process runs a sweep    *)
(* from time to time: it lists the open cases one status after the other,  *)
(* works out which reminders are due on each, and commits each reminder in *)
(* a transaction of its own: the ledger row, the audit event and the       *)
(* notification, or nothing.                                               *)
(*                                                                         *)
(* A process is single-threaded: while its sweep runs it serves no         *)
(* request.  Processes that share the database file interleave freely,     *)
(* which is what the UNIQUE constraint of the ledger is there for.         *)
(***************************************************************************)
EXTENDS CaseRecords, StatutoryClocks, Sequences

CONSTANTS
    Process,        \* server processes on the same database
    MaxFaults       \* failed commits and crashes, to bound them

ASSUME WorkerAssumption == MaxFaults \in Nat

VARIABLES
    ledger,         \* sla_events
    logged,         \* sla_* audit events per milestone
    told,           \* SLA notifications per milestone
    sweep,          \* each process's sweep, Null between sweeps
    faults

workerVars == <<ledger, logged, told, sweep, faults>>

vars == <<app, rec, today, ledger, logged, told, sweep, faults>>

Key == App \X DeadlineKind \X Milestone

KeyOf(row) == <<row.app, row.kind, row.milestone>>

LedgerRow == [app : App, kind : DeadlineKind, milestone : Milestone,
              due : Nat, firedOn : Day]

\* The order in which a sweep lists the open statuses.
OpenStatuses == <<"submitted", "under_review", "additional_info_required",
                  "recommendation_issued">>

ListedRow == [app : App, submittedAt : Day \cup {Null},
              assignedTo : Officer \cup {Null}]

Event == [app : App, kind : DeadlineKind, milestone : Milestone, due : Nat,
          recipient : Officer \cup {Null}]

Sweep == [now : Day, at : 1..Len(OpenStatuses), page : SUBSET ListedRow,
          events : SUBSET Event]

TypeOK ==
    /\ RecordsTypeOK
    /\ ledger \subseteq LedgerRow
    /\ logged \in [Key -> Nat]
    /\ told \in [Key -> Nat]
    /\ sweep \in [Process -> Sweep \cup {Null}]
    /\ faults \in 0..MaxFaults

Init ==
    /\ InitRecords
    /\ ledger = {}
    /\ logged = [k \in Key |-> 0]
    /\ told = [k \in Key |-> 0]
    /\ sweep = [p \in Process |-> Null]
    /\ faults = 0

-----------------------------------------------------------------------------
\* applications.list({ status }) for the i-th open status.
Listed(i) ==
    {[app |-> a, submittedAt |-> app[a].submittedAt,
      assignedTo |-> app[a].assignedTo] :
        a \in {b \in App : Exists(b) /\ app[b].status = OpenStatuses[i]}}

FiredOn(a) ==
    {<<row.kind, row.milestone>> : row \in {r \in ledger : r.app = a}}

\* resolveCase: the listed row has a clock to run.
Resolves(row) ==
    /\ row.submittedAt # Null
    /\ rec[row.app] # Null
    /\ NormaliseProduct(rec[row.app].product) # NoProduct

EventsOf(row, now) ==
    {[app |-> row.app, kind |-> e.kind, milestone |-> e.milestone,
      due |-> e.due, recipient |-> row.assignedTo] :
        e \in EvaluateCase(NormaliseProduct(rec[row.app].product),
                           row.submittedAt, now, FiredOn(row.app))}

Idle(p) == sweep[p] = Null

StartSweep(p) ==
    /\ Idle(p)
    /\ sweep' = [sweep EXCEPT ![p] =
            [now |-> today, at |-> 1, page |-> Listed(1), events |-> {}]]
    /\ UNCHANGED <<recordVars, ledger, logged, told, faults>>

VisitCase(p) ==
    /\ ~Idle(p) /\ sweep[p].events = {}
    /\ \E row \in sweep[p].page :
        sweep' = [sweep EXCEPT
            ![p].page = @ \ {row},
            ![p].events = IF Resolves(row) THEN EventsOf(row, sweep[p].now)
                          ELSE {}]
    /\ UNCHANGED <<recordVars, ledger, logged, told, faults>>

\* A mutant: the sweep stops one status early.
NextStatusShort(p) ==
    /\ ~Idle(p) /\ sweep[p].events = {} /\ sweep[p].page = {}
    /\ IF sweep[p].at < Len(OpenStatuses) - 1
       THEN sweep' = [sweep EXCEPT ![p].at = @ + 1,
                                   ![p].page = Listed(sweep[p].at + 1)]
       ELSE sweep' = [sweep EXCEPT ![p] = Null]
    /\ UNCHANGED <<recordVars, ledger, logged, told, faults>>

NextStatus(p) ==
    /\ ~Idle(p) /\ sweep[p].events = {} /\ sweep[p].page = {}
    /\ IF sweep[p].at < Len(OpenStatuses)
       THEN sweep' = [sweep EXCEPT ![p].at = @ + 1,
                                   ![p].page = Listed(sweep[p].at + 1)]
       ELSE sweep' = [sweep EXCEPT ![p] = Null]
    /\ UNCHANGED <<recordVars, ledger, logged, told, faults>>

\* A mutant: the outcome of INSERT OR IGNORE is not looked at.
RecordUnchecked(e) ==
    LET k == KeyOf(e) IN
    /\ ledger' = IF \E row \in ledger : KeyOf(row) = k THEN ledger
                 ELSE ledger \cup
                    {[app |-> e.app, kind |-> e.kind, milestone |-> e.milestone,
                      due |-> e.due, firedOn |-> today]}
    /\ logged' = [logged EXCEPT ![k] = @ + 1]
    /\ told' = IF e.recipient # Null THEN [told EXCEPT ![k] = @ + 1] ELSE told

\* A mutant: the ledger has no UNIQUE key, and the sweep relies on its read.
RecordDuplicates(e) ==
    LET k == KeyOf(e) IN
    /\ ledger' = ledger \cup
            {[app |-> e.app, kind |-> e.kind, milestone |-> e.milestone,
              due |-> e.due, firedOn |-> today]}
    /\ logged' = [logged EXCEPT ![k] = @ + 1]
    /\ told' = IF e.recipient # Null THEN [told EXCEPT ![k] = @ + 1] ELSE told

(***************************************************************************)
(* INSERT OR IGNORE under the ledger's UNIQUE key; only a row that was     *)
(* really written is audited, and notified when the case has an assignee.  *)
(***************************************************************************)
Record(e) ==
    LET k == KeyOf(e) IN
    IF \E row \in ledger : KeyOf(row) = k
    THEN UNCHANGED <<ledger, logged, told>>
    ELSE /\ ledger' = ledger \cup
                {[app |-> e.app, kind |-> e.kind, milestone |-> e.milestone,
                  due |-> e.due, firedOn |-> today]}
         /\ logged' = [logged EXCEPT ![k] = @ + 1]
         /\ told' = IF e.recipient # Null THEN [told EXCEPT ![k] = @ + 1]
                    ELSE told

CommitEvent(p) ==
    /\ ~Idle(p)
    /\ \E e \in sweep[p].events :
        /\ \A f \in sweep[p].events : e.due <= f.due
        /\ Record(e)
        /\ sweep' = [sweep EXCEPT ![p].events = @ \ {e}]
    /\ UNCHANGED <<recordVars, faults>>

\* The transaction throws: it is rolled back and the case is left for later.
CommitFails(p) ==
    /\ ~Idle(p) /\ sweep[p].events # {}
    /\ faults < MaxFaults
    /\ faults' = faults + 1
    /\ sweep' = [sweep EXCEPT ![p].events = {}]
    /\ UNCHANGED <<recordVars, ledger, logged, told>>

\* The process dies and is started again; only the database survives.
Crash(p) ==
    /\ ~Idle(p)
    /\ faults < MaxFaults
    /\ faults' = faults + 1
    /\ sweep' = [sweep EXCEPT ![p] = Null]
    /\ UNCHANGED <<recordVars, ledger, logged, told>>

WorkerStep(p) ==
    StartSweep(p) \/ VisitCase(p) \/ NextStatus(p) \/ CommitEvent(p)

(***************************************************************************)
(* The requests that change what the worker reads.                         *)
(***************************************************************************)
Request(a) ==
    \/ \E row \in AppRow : CreateRow(a, row) \/ EditRow(a, row)
    \/ \E n \in Made(2) : SubmitRow(a, n)
    \/ \E status \in Status : StatusRow(a, status)
    \/ \E officer \in Officer \cup {Null} : AssignRow(a, officer)
    \/ \E product \in EngineProduct, n \in Made(2) : RecommendRow(a, product, n)
    \/ \E product \in EngineProduct : OverrideRow(a, product)

Serve(p) ==
    /\ Idle(p)
    /\ \E a \in App : Request(a)
    /\ UNCHANGED workerVars

Next ==
    \/ \E p \in Process :
        WorkerStep(p) \/ CommitFails(p) \/ Crash(p) \/ Serve(p)
    \/ NewDay /\ UNCHANGED workerVars

Spec == Init /\ [][Next]_vars

(***************************************************************************)
(* The interval timer keeps sweeping, and the days keep passing.  Requests *)
(* and faults owe nothing.                                                 *)
(***************************************************************************)
Fairness ==
    /\ \A p \in Process : WF_vars(WorkerStep(p))
    /\ WF_vars(NewDay /\ UNCHANGED workerVars)

FairSpec == Spec /\ Fairness

-----------------------------------------------------------------------------
(***************************************************************************)
(* A reminder is never sent twice, not across sweeps, processes, failures  *)
(* or restarts, and the three tables never disagree: a milestone is in the *)
(* ledger exactly when it has its one audit event, at most one row holds   *)
(* it, and at most one notification told of it.                            *)
(***************************************************************************)
LedgerMatchesReminders ==
    /\ \A r, s \in ledger : KeyOf(r) = KeyOf(s) => r = s
    /\ \A k \in Key :
        /\ logged[k] = IF \E row \in ledger : KeyOf(row) = k THEN 1 ELSE 0
        /\ told[k] <= logged[k]

(***************************************************************************)
(* No milestone is recorded before its day: a sweep evaluates every case   *)
(* against the day it started on, and a commit that comes later can only   *)
(* be late.                                                                *)
(***************************************************************************)
NeverEarly ==
    \A row \in ledger :
        CASE row.milestone = "approaching" -> row.firedOn >= row.due - ImminentDays
          [] row.milestone = "due_today" -> row.firedOn >= row.due
          [] row.milestone = "breached" -> row.firedOn > row.due

(***************************************************************************)
(* The ledger and the reminders implement the promise of ReminderLedger.   *)
(***************************************************************************)
Promise == INSTANCE ReminderLedger WITH
    fired <- {KeyOf(row) : row \in ledger}

KeepsPromise == Promise!Spec

-----------------------------------------------------------------------------
\* The case has a clock of this kind that lapsed on the day d before today.
LapsedOn(a, kind, d) ==
    /\ Exists(a)
    /\ app[a].status \in OpenStatus
    /\ Resolves([app |-> a, submittedAt |-> app[a].submittedAt,
                 assignedTo |-> app[a].assignedTo])
    /\ d < today
    /\ [kind |-> kind, due |-> d] \in
            CaseClocks(NormaliseProduct(rec[a].product), app[a].submittedAt)

Lapsed(a, kind) == \E d \in Day : LapsedOn(a, kind, d)

BreachesOf(a, kind) ==
    {row \in ledger : row.app = a /\ row.kind = kind /\ row.milestone = "breached"}

(***************************************************************************)
(* A clock that has lapsed on an open case and stays lapsed is reported    *)
(* breached in the end, whatever faults the sweeps met on the way.  Stated *)
(* of the kind of clock, as the ledger's key is: see                       *)
(* EveryDeadlineReported for what it does not say.                         *)
(***************************************************************************)
EveryLapseIsReported ==
    \A a \in App, kind \in DeadlineKind :
        <>[]Lapsed(a, kind) => <>(BreachesOf(a, kind) # {})

(***************************************************************************)
(* "Given an open case with a recommendation, submission date and          *)
(* assignee, when a statutory clock ... breaches, then a reminder and an   *)
(* audit event are emitted" (docs/user-stories.md:817), of the deadline    *)
(* that now stands.                                                        *)
(***************************************************************************)
EveryDeadlineReported ==
    \A a \in App, kind \in DeadlineKind, d \in Day :
        <>[]LapsedOn(a, kind, d) =>
            <>(\E row \in BreachesOf(a, kind) : row.due = d)

\* The statutory product a recommendation names, in the seed's forms or the engine's.
RecommendedProduct(raw) ==
    CASE raw = "debt_arrangement_scheme" -> "das"
      [] raw = "minimal_asset_process" -> "map"
      [] raw = "protected_trust_deed" -> "ptd"
      [] raw = "bankruptcy" -> "sequestration"
      [] OTHER -> NormaliseProduct(raw)

(***************************************************************************)
(* The worker "derives the applicable statutory clock from the recommended *)
(* product and submission date" (docs/use-cases.md:706): an open case with *)
(* an assignee whose recommended product has a clock gets a reminder in    *)
(* the end.                                                                *)
(***************************************************************************)
Remindable(a) ==
    /\ Exists(a) /\ rec[a] # Null
    /\ app[a].status \in OpenStatus
    /\ app[a].assignedTo # Null /\ app[a].submittedAt # Null
    /\ RecommendedProduct(rec[a].product) \in CaseProduct
    /\ \E c \in CaseClocks(RecommendedProduct(rec[a].product), app[a].submittedAt) :
            c.due < today

RecommendedCasesAreReminded ==
    \A a \in App : <>[]Remindable(a) => <>(\E row \in ledger : row.app = a)
=============================================================================
