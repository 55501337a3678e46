-------------------------- MODULE SlaWorkerProofs --------------------------
(***************************************************************************)
(* Theorems about the SLA worker, for any number of processes, cases,      *)
(* faults and days and any length of the statutory windows, with handlers  *)
(* cut short anywhere.                                                     *)
(***************************************************************************)
EXTENDS SlaWorker, TLAPS

LEMMA ClocksTyped ==
    ASSUME NEW product \in CaseProduct, NEW submittedOn \in Nat
    PROVE  CaseClocks(product, submittedOn) \subseteq [kind : DeadlineKind, due : Nat]
<1>1. Windows(product) \subseteq [kind : DeadlineKind, days : Nat]
  <2>1. PeriodDays - LateClaimDays \in Nat
    BY WindowsAssumption
  <2>2. QED
    BY <2>1, WindowsAssumption DEF Windows, CaseProduct, DeadlineKind
<1>2. QED
  BY <1>1 DEF CaseClocks

LEMMA ProductNormalised ==
    ASSUME NEW raw, NormaliseProduct(raw) # NoProduct
    PROVE  NormaliseProduct(raw) \in CaseProduct
BY DEF NormaliseProduct

\* A reminder that is due is one of a clock of the case, at its milestone.
LEMMA RemindersDue ==
    ASSUME NEW product \in CaseProduct, NEW submittedOn \in Nat, NEW now, NEW fired
    PROVE  \A e \in EvaluateCase(product, submittedOn, now, fired) :
                /\ e.kind \in DeadlineKind /\ e.due \in Nat
                /\ e.milestone \in Milestone
                /\ e.milestone \in MilestonesOf(e.due, now)
                /\ <<e.kind, e.milestone>> \notin fired
<1> SUFFICES ASSUME NEW e \in EvaluateCase(product, submittedOn, now, fired)
             PROVE  /\ e.kind \in DeadlineKind /\ e.due \in Nat
                    /\ e.milestone \in Milestone
                    /\ e.milestone \in MilestonesOf(e.due, now)
                    /\ <<e.kind, e.milestone>> \notin fired
  OBVIOUS
<1>1. PICK c \in CaseClocks(product, submittedOn) :
        e \in {[kind |-> c.kind, milestone |-> m, due |-> c.due] :
                m \in {x \in MilestonesOf(c.due, now) : <<c.kind, x>> \notin fired}}
  BY DEF EvaluateCase
<1>2. PICK m \in MilestonesOf(c.due, now) :
        /\ <<c.kind, m>> \notin fired
        /\ e = [kind |-> c.kind, milestone |-> m, due |-> c.due]
  BY <1>1
<1>3. c \in [kind : DeadlineKind, due : Nat]
  BY ClocksTyped
<1>4. m \in Milestone
  BY DEF MilestonesOf
<1>5. QED
  BY <1>2, <1>3, <1>4

-----------------------------------------------------------------------------
LEMMA RequestTyped ==
    ASSUME RecordsTypeOK, NEW a \in App, Request(a)
    PROVE  RecordsTypeOK'
<1>1. Exists(a) => app[a] \in AppRow
  BY DEF RecordsTypeOK, Exists
<1>2. rec[a] # Null => rec[a] \in RecRow
  BY DEF RecordsTypeOK
<1>3. ASSUME NEW row \in AppRow, CreateRow(a, row) PROVE RecordsTypeOK'
  BY <1>3 DEF CreateRow, RecordsTypeOK
<1>4. ASSUME NEW row \in AppRow, EditRow(a, row) PROVE RecordsTypeOK'
  BY <1>4 DEF EditRow, RecordsTypeOK
<1>5. ASSUME NEW n \in Made(2), SubmitRow(a, n) PROVE RecordsTypeOK'
  <2>1. PICK date \in Day \cup {Null} :
            app' = [app EXCEPT ![a].status = "submitted", ![a].submittedAt = date]
    BY <1>1, <1>5 DEF SubmitRow, AppRow, RecordsTypeOK
  <2>2. app' = [app EXCEPT ![a] =
                [app[a] EXCEPT !.status = "submitted", !.submittedAt = date]]
    BY <2>1
  <2>3. [app[a] EXCEPT !.status = "submitted", !.submittedAt = date] \in AppRow
    BY <1>1, <1>5 DEF SubmitRow, AppRow, Status
  <2>4. PICK row \in AppRow : app' = [app EXCEPT ![a] = row]
    BY <2>2, <2>3
  <2>5. UNCHANGED <<rec, today>>
    BY <1>5 DEF SubmitRow
  <2>6. QED
    BY <2>4, <2>5 DEF RecordsTypeOK
<1>6. ASSUME NEW status \in Status, StatusRow(a, status) PROVE RecordsTypeOK'
  BY <1>1, <1>6 DEF StatusRow, RecordsTypeOK, AppRow
<1>7. ASSUME NEW officer \in Officer \cup {Null}, AssignRow(a, officer)
      PROVE  RecordsTypeOK'
  BY <1>1, <1>7 DEF AssignRow, RecordsTypeOK, AppRow
<1>8. ASSUME NEW product \in EngineProduct, NEW n \in Made(2),
             RecommendRow(a, product, n)
      PROVE  RecordsTypeOK'
  BY <1>8, RecordsAssumption DEF RecommendRow, RecordsTypeOK, RecRow
<1>9. ASSUME NEW product \in EngineProduct, OverrideRow(a, product)
      PROVE  RecordsTypeOK'
  BY <1>2, <1>9, RecordsAssumption DEF OverrideRow, RecordsTypeOK, RecRow
<1>10. QED
  BY <1>3, <1>4, <1>5, <1>6, <1>7, <1>8, <1>9 DEF Request

LEMMA ListedTyped ==
    ASSUME RecordsTypeOK, NEW i \in 1..Len(OpenStatuses)
    PROVE  Listed(i) \subseteq ListedRow
BY DEF Listed, ListedRow, RecordsTypeOK, Exists, AppRow

LEMMA EventsTyped ==
    ASSUME NEW row \in ListedRow, Resolves(row), NEW now \in Day
    PROVE  EventsOf(row, now) \subseteq Event
<1>1. NormaliseProduct(rec[row.app].product) \in CaseProduct
  BY ProductNormalised DEF Resolves
<1>2. row.submittedAt \in Nat
  BY RecordsAssumption DEF Resolves, ListedRow, Day
<1>3. \A e \in EvaluateCase(NormaliseProduct(rec[row.app].product),
                            row.submittedAt, now, FiredOn(row.app)) :
            e.kind \in DeadlineKind /\ e.due \in Nat /\ e.milestone \in Milestone
  BY <1>1, <1>2, RemindersDue
<1>4. row.app \in App /\ row.assignedTo \in Officer \cup {Null}
  BY DEF ListedRow
<1>5. QED
  BY <1>3, <1>4 DEF EventsOf, Event

LEMMA InitTyped == Init => TypeOK
<1> SUFFICES ASSUME Init PROVE TypeOK
  OBVIOUS
<1>1. PICK seed \in [App -> SeedCase] :
        /\ app = [a \in App |-> seed[a].row]
        /\ rec = [a \in App |-> seed[a].rec]
  BY DEF Init, InitRecords
<1>2. \A s \in SeedCase : s.row \in AppRow \cup {Null} /\ s.rec \in RecRow \cup {Null}
  BY RecordsAssumption DEF SeedCase, AppRow, RecRow, Status, Decided, Day
<1>3. RecordsTypeOK
  BY <1>1, <1>2, RecordsAssumption DEF Init, InitRecords, RecordsTypeOK, Day
<1>4. QED
  BY <1>3, WorkerAssumption DEF Init, TypeOK

LEMMA StepTyped == TypeOK /\ [Next]_vars => TypeOK'
<1> SUFFICES ASSUME TypeOK, [Next]_vars PROVE TypeOK'
  OBVIOUS
<1>1. ASSUME NEW p \in Process, ~Idle(p) PROVE sweep[p] \in Sweep
  BY <1>1 DEF TypeOK, Idle
<1>2. ASSUME NEW p \in Process, StartSweep(p) PROVE TypeOK'
  <2>1. Listed(1) \subseteq ListedRow /\ 1 \in 1..Len(OpenStatuses)
    BY ListedTyped DEF TypeOK, OpenStatuses
  <2>2. [now |-> today, at |-> 1, page |-> Listed(1), events |-> {}] \in Sweep
    BY <2>1 DEF Sweep, TypeOK, RecordsTypeOK
  <2>3. QED
    BY <1>2, <2>2 DEF StartSweep, TypeOK, RecordsTypeOK, recordVars
<1>3. ASSUME NEW p \in Process, VisitCase(p) PROVE TypeOK'
  <2>1. PICK row \in sweep[p].page :
        sweep' = [sweep EXCEPT
            ![p].page = @ \ {row},
            ![p].events = IF Resolves(row) THEN EventsOf(row, sweep[p].now)
                          ELSE {}]
    BY <1>3 DEF VisitCase
  <2>2. sweep[p] \in Sweep /\ row \in ListedRow /\ sweep[p].now \in Day
    BY <1>1, <1>3 DEF VisitCase, Sweep
  <2>3. PICK due \in SUBSET Event :
            sweep' = [sweep EXCEPT ![p].page = @ \ {row}, ![p].events = due]
    BY <2>1, <2>2, EventsTyped
  <2>4. PICK s \in Sweep : sweep' = [sweep EXCEPT ![p] = s]
    <3>1. sweep' = [sweep EXCEPT ![p] =
                [sweep[p] EXCEPT !.page = sweep[p].page \ {row}, !.events = due]]
      BY <2>3
    <3>2. [sweep[p] EXCEPT !.page = sweep[p].page \ {row}, !.events = due] \in Sweep
      BY <2>2 DEF Sweep
    <3>3. QED
      BY <3>1, <3>2
  <2>5. UNCHANGED <<recordVars, ledger, logged, told, faults>>
    BY <1>3 DEF VisitCase
  <2>6. QED
    BY <2>4, <2>5 DEF TypeOK, RecordsTypeOK, recordVars
<1>4. ASSUME NEW p \in Process, NextStatus(p) PROVE TypeOK'
  <2>1. sweep[p] \in Sweep
    BY <1>1, <1>4 DEF NextStatus
  <2>2. PICK s \in Sweep \cup {Null} : sweep' = [sweep EXCEPT ![p] = s]
    <3>1. CASE sweep[p].at < Len(OpenStatuses)
      <4>1. sweep[p].at + 1 \in 1..Len(OpenStatuses)
        BY <2>1, <3>1 DEF Sweep, OpenStatuses
      <4>2. Listed(sweep[p].at + 1) \subseteq ListedRow
        BY <4>1, ListedTyped DEF TypeOK
      <4>3. [sweep[p] EXCEPT !.at = sweep[p].at + 1,
                             !.page = Listed(sweep[p].at + 1)] \in Sweep
        BY <2>1, <4>1, <4>2 DEF Sweep
      <4>4. sweep' = [sweep EXCEPT ![p] = [sweep[p] EXCEPT
                            !.at = sweep[p].at + 1, !.page = Listed(sweep[p].at + 1)]]
        BY <1>4, <3>1 DEF NextStatus
      <4>5. QED
        BY <4>3, <4>4
    <3>2. CASE ~(sweep[p].at < Len(OpenStatuses))
      BY <1>4, <3>2 DEF NextStatus
    <3>3. QED
      BY <3>1, <3>2
  <2>3. UNCHANGED <<recordVars, ledger, logged, told, faults>>
    BY <1>4 DEF NextStatus
  <2>4. QED
    BY <2>2, <2>3 DEF TypeOK, RecordsTypeOK, recordVars
<1>5. ASSUME NEW p \in Process, CommitEvent(p) PROVE TypeOK'
  <2>1. PICK e \in sweep[p].events :
            Record(e) /\ sweep' = [sweep EXCEPT ![p].events = @ \ {e}]
    BY <1>5 DEF CommitEvent
  <2>2. sweep[p] \in Sweep /\ e \in Event
    BY <1>1, <1>5, <2>1 DEF CommitEvent, Sweep
  <2>3. KeyOf(e) \in Key /\ today \in Day
    BY <2>2 DEF Event, KeyOf, Key, TypeOK, RecordsTypeOK
  <2>4. ledger' \subseteq LedgerRow /\ logged' \in [Key -> Nat] /\ told' \in [Key -> Nat]
    BY <2>1, <2>2, <2>3 DEF Record, Event, LedgerRow, TypeOK
  <2>5. sweep' \in [Process -> Sweep \cup {Null}]
    BY <2>1, <2>2 DEF Sweep, TypeOK
  <2>6. UNCHANGED <<recordVars, faults>>
    BY <1>5 DEF CommitEvent
  <2>7. QED
    BY <2>4, <2>5, <2>6 DEF TypeOK, RecordsTypeOK, recordVars
<1>6. ASSUME NEW p \in Process, CommitFails(p) PROVE TypeOK'
  <2>1. sweep[p] \in Sweep
    BY <1>1, <1>6 DEF CommitFails
  <2>2. sweep' \in [Process -> Sweep \cup {Null}]
    BY <1>6, <2>1 DEF CommitFails, Sweep, TypeOK
  <2>3. faults' \in 0..MaxFaults
    BY <1>6, WorkerAssumption DEF CommitFails, TypeOK
  <2>4. QED
    BY <1>6, <2>2, <2>3 DEF CommitFails, TypeOK, RecordsTypeOK, recordVars
<1>7. ASSUME NEW p \in Process, Crash(p) PROVE TypeOK'
  <2>1. faults' \in 0..MaxFaults
    BY <1>7, WorkerAssumption DEF Crash, TypeOK
  <2>2. QED
    BY <1>7, <2>1 DEF Crash, TypeOK, RecordsTypeOK, recordVars
<1>8. ASSUME NEW p \in Process, Serve(p) PROVE TypeOK'
  <2>1. RecordsTypeOK'
    BY <1>8, RequestTyped DEF Serve, TypeOK
  <2>2. QED
    BY <1>8, <2>1 DEF Serve, workerVars, TypeOK
<1>9. CASE NewDay /\ UNCHANGED workerVars
  BY <1>9, RecordsAssumption DEF NewDay, workerVars, TypeOK, RecordsTypeOK, Day
<1>10. CASE UNCHANGED vars
  BY <1>10 DEF vars, TypeOK, RecordsTypeOK
<1>11. QED
  BY <1>2, <1>3, <1>4, <1>5, <1>6, <1>7, <1>8, <1>9, <1>10 DEF Next, WorkerStep

(***************************************************************************)
(* Every reachable state of the worker is well typed: a sweep only ever    *)
(* holds reminders that could be recorded.                                 *)
(***************************************************************************)
THEOREM TypeCorrect == Spec => []TypeOK
BY InitTyped, StepTyped, PTL DEF Spec

-----------------------------------------------------------------------------
\* A commit writes the three tables of one milestone, or none of them.
LEMMA CommitRecords ==
    ASSUME TypeOK, NEW p \in Process, CommitEvent(p)
    PROVE  \E e \in sweep[p].events : e \in Event /\ KeyOf(e) \in Key /\ Record(e)
BY DEF CommitEvent, TypeOK, Idle, Sweep, Event, KeyOf, Key

LEMMA OnlyCommitsRecord ==
    ASSUME [Next]_vars, \A p \in Process : ~CommitEvent(p)
    PROVE  UNCHANGED <<ledger, logged, told>>
BY DEF Next, WorkerStep, StartSweep, VisitCase, NextStatus, CommitFails, Crash,
       Serve, workerVars, vars

LedgerInv == TypeOK /\ LedgerMatchesReminders

(***************************************************************************)
(* A reminder is sent at most once and the ledger, the audit trail and the *)
(* notifications agree on it, however many processes sweep at once and     *)
(* wherever they fail.                                                     *)
(***************************************************************************)
THEOREM RemindedOnce == Spec => []LedgerMatchesReminders
<1>1. Init => LedgerInv
  BY InitTyped DEF Init, LedgerInv, LedgerMatchesReminders
<1>2. LedgerInv /\ [Next]_vars => LedgerInv'
  <2> SUFFICES ASSUME LedgerInv, [Next]_vars PROVE LedgerMatchesReminders'
    BY StepTyped DEF LedgerInv
  <2>1. CASE \E p \in Process : CommitEvent(p)
    <3>1. PICK e \in Event : KeyOf(e) \in Key /\ Record(e)
      BY <2>1, CommitRecords DEF LedgerInv
    <3>2. CASE \E row \in ledger : KeyOf(row) = KeyOf(e)
      BY <3>1, <3>2 DEF Record, LedgerInv, LedgerMatchesReminders
    <3>3. CASE ~\E row \in ledger : KeyOf(row) = KeyOf(e)
      <4> DEFINE new == [app |-> e.app, kind |-> e.kind, milestone |-> e.milestone,
                         due |-> e.due, firedOn |-> today]
      <4>1. KeyOf(new) = KeyOf(e)
        BY DEF KeyOf
      <4>2. ledger' = ledger \cup {new}
        BY <3>1, <3>3 DEF Record
      <4>3. logged' = [logged EXCEPT ![KeyOf(e)] = @ + 1]
        BY <3>1, <3>3 DEF Record
      <4>4. told' = [told EXCEPT ![KeyOf(e)] = @ + 1] \/ told' = told
        BY <3>1, <3>3 DEF Record
      <4> HIDE DEF new
      <4>5. \A r, s \in ledger' : KeyOf(r) = KeyOf(s) => r = s
        BY <3>3, <4>1, <4>2 DEF LedgerInv, LedgerMatchesReminders
      <4>6. ASSUME NEW k \in Key, k # KeyOf(e)
            PROVE  /\ logged'[k] = IF \E row \in ledger' : KeyOf(row) = k THEN 1 ELSE 0
                   /\ told'[k] <= logged'[k]
        <5>1. logged'[k] = logged[k] /\ told'[k] = told[k]
          BY <4>3, <4>4, <4>6 DEF LedgerInv, TypeOK
        <5>2. (\E row \in ledger' : KeyOf(row) = k) <=> (\E row \in ledger : KeyOf(row) = k)
          BY <4>1, <4>2, <4>6
        <5>3. QED
          BY <5>1, <5>2, <4>6 DEF LedgerInv, LedgerMatchesReminders
      <4>7. /\ logged'[KeyOf(e)] = IF \E row \in ledger' : KeyOf(row) = KeyOf(e)
                                   THEN 1 ELSE 0
            /\ told'[KeyOf(e)] <= logged'[KeyOf(e)]
        <5>1. logged[KeyOf(e)] = 0 /\ told[KeyOf(e)] = 0
          BY <3>1, <3>3 DEF LedgerInv, LedgerMatchesReminders, TypeOK
        <5>2. logged'[KeyOf(e)] = 1 /\ told'[KeyOf(e)] \in {0, 1}
          BY <3>1, <4>3, <4>4, <5>1 DEF LedgerInv, TypeOK
        <5>3. \E row \in ledger' : KeyOf(row) = KeyOf(e)
          BY <4>1, <4>2
        <5>4. QED
          BY <5>2, <5>3
      <4>8. QED
        BY <4>5, <4>6, <4>7 DEF LedgerMatchesReminders
    <3>4. QED
      BY <3>2, <3>3
  <2>2. CASE ~\E p \in Process : CommitEvent(p)
    <3>1. UNCHANGED <<ledger, logged, told>>
      BY <2>2, OnlyCommitsRecord
    <3>2. QED
      BY <3>1 DEF LedgerInv, LedgerMatchesReminders
  <2>3. QED
    BY <2>1, <2>2
<1>3. LedgerInv => LedgerMatchesReminders
  BY DEF LedgerInv
<1>4. QED
  BY <1>1, <1>2, <1>3, PTL DEF Spec

(***************************************************************************)
(* The worker implements ReminderLedger: seen through the keys of its      *)
(* ledger, every step fires one milestone that had not fired or none.      *)
(***************************************************************************)
THEOREM PromiseKept == Spec => KeepsPromise
<1> DEFINE fired == {KeyOf(row) : row \in ledger}
<1>1. Init => Promise!Init
  BY DEF Init, Promise!Init
<1>2. TypeOK /\ [Next]_vars => [Promise!Next]_(Promise!vars)
  <2> SUFFICES ASSUME TypeOK, [Next]_vars
               PROVE  Promise!Next \/ UNCHANGED Promise!vars
    OBVIOUS
  <2>1. CASE \E p \in Process : CommitEvent(p)
    <3>1. PICK e \in Event : KeyOf(e) \in Key /\ Record(e)
      BY <2>1, CommitRecords
    <3>2. CASE \E row \in ledger : KeyOf(row) = KeyOf(e)
      BY <3>1, <3>2 DEF Record, Promise!vars
    <3>3. CASE ~\E row \in ledger : KeyOf(row) = KeyOf(e)
      <4>1. KeyOf(e) \notin fired
        BY <3>3
      <4>2. PICK new : KeyOf(new) = KeyOf(e) /\ ledger' = ledger \cup {new}
        <5> DEFINE row == [app |-> e.app, kind |-> e.kind, milestone |-> e.milestone,
                           due |-> e.due, firedOn |-> today]
        <5>1. KeyOf(row) = KeyOf(e)
          BY DEF KeyOf
        <5>2. ledger' = ledger \cup {row}
          BY <3>1, <3>3 DEF Record
        <5>3. QED
          BY <5>1, <5>2
      <4>3. fired' = fired \cup {KeyOf(e)}
        BY <4>2
      <4>4. logged' = [logged EXCEPT ![KeyOf(e)] = @ + 1]
        BY <3>1, <3>3 DEF Record
      <4>5. told' = [told EXCEPT ![KeyOf(e)] = @ + 1] \/ told' = told
        BY <3>1, <3>3 DEF Record
      <4>6. Promise!Fire(KeyOf(e))
        BY <4>1, <4>3, <4>4, <4>5 DEF Promise!Fire
      <4>7. QED
        BY <3>1, <4>6 DEF Promise!Next
    <3>4. QED
      BY <3>2, <3>3
  <2>2. CASE ~\E p \in Process : CommitEvent(p)
    BY <2>2, OnlyCommitsRecord DEF Promise!vars
  <2>3. QED
    BY <2>1, <2>2
<1>3. QED
  BY <1>1, <1>2, TypeCorrect, PTL DEF Spec, KeepsPromise, Promise!Spec

-----------------------------------------------------------------------------
\* The first day a milestone of a deadline may be recorded.
InTime(milestone, due, day) ==
    CASE milestone = "approaching" -> day >= due - ImminentDays
      [] milestone = "due_today" -> day >= due
      [] milestone = "breached" -> day > due

LEMMA MilestoneInTime ==
    ASSUME NEW due \in Int, NEW now \in Int, NEW m \in MilestonesOf(due, now)
    PROVE  InTime(m, due, now)
<1>1. ImminentDays \in Int
  BY WindowsAssumption
<1>2. CASE m = "approaching"
  BY <1>1, <1>2 DEF MilestonesOf, Imminent, DaysRemaining, InTime
<1>3. CASE m = "due_today"
  BY <1>1, <1>3 DEF MilestonesOf, DaysRemaining, InTime
<1>4. CASE m = "breached"
  BY <1>1, <1>4 DEF MilestonesOf, Expired, DaysRemaining, InTime
<1>5. QED
  BY <1>2, <1>3, <1>4 DEF MilestonesOf, Milestone

LEMMA LaterInTime ==
    ASSUME NEW m \in Milestone, NEW due \in Int, NEW now \in Int, NEW later \in Int,
           later >= now, InTime(m, due, now)
    PROVE  InTime(m, due, later)
<1>1. ImminentDays \in Int
  BY WindowsAssumption
<1>2. CASE m = "approaching"
  BY <1>1, <1>2 DEF InTime
<1>3. CASE m = "due_today"
  BY <1>3 DEF InTime
<1>4. CASE m = "breached"
  BY <1>4 DEF InTime
<1>5. QED
  BY <1>2, <1>3, <1>4 DEF Milestone

(***************************************************************************)
(* What makes it inductive: a reminder a sweep still holds was due on the  *)
(* day the sweep started, and that day is not after today.                 *)
(***************************************************************************)
SweepInTime(p) ==
    Idle(p) \/ /\ sweep[p].now <= today
               /\ \A e \in sweep[p].events : InTime(e.milestone, e.due, sweep[p].now)

EarlyInv == TypeOK /\ NeverEarly /\ \A p \in Process : SweepInTime(p)

(***************************************************************************)
(* No milestone is recorded before its day: a stale sweep can only be      *)
(* late.                                                                   *)
(***************************************************************************)
THEOREM RemindedInTime == Spec => []NeverEarly
<1>1. Init => EarlyInv
  BY InitTyped DEF Init, EarlyInv, NeverEarly, SweepInTime, Idle
<1>2. EarlyInv /\ [Next]_vars => EarlyInv'
  <2> SUFFICES ASSUME EarlyInv, [Next]_vars
               PROVE  NeverEarly' /\ \A q \in Process : SweepInTime(q)'
    BY StepTyped DEF EarlyInv
  <2>1. TypeOK /\ today \in Int /\ today' \in Int
    BY StepTyped, RecordsAssumption DEF EarlyInv, TypeOK, RecordsTypeOK, Day
  <2>2. today' >= today
    <3>1. ASSUME NEW a \in App, Request(a) PROVE today' = today
      BY <3>1 DEF Request, CreateRow, EditRow, SubmitRow, StatusRow, AssignRow,
         RecommendRow, OverrideRow
    <3>2. ASSUME NEW p \in Process, WorkerStep(p) \/ CommitFails(p) \/ Crash(p)
          PROVE  today' = today
      BY <3>2 DEF WorkerStep, StartSweep, VisitCase, NextStatus, CommitEvent,
         CommitFails, Crash, recordVars
    <3>3. NewDay => today' = today + 1
      BY DEF NewDay
    <3>4. UNCHANGED vars => today' = today
      BY DEF vars
    <3>5. today' = today \/ today' = today + 1
      BY <3>1, <3>2, <3>3, <3>4 DEF Next, Serve
    <3>6. QED
      BY <2>1, <3>5
  <2>3. ASSUME NEW q \in Process, sweep[q] # Null
        PROVE  /\ sweep[q] \in Sweep /\ sweep[q].now \in Int /\ sweep[q].now <= today
               /\ \A e \in sweep[q].events : InTime(e.milestone, e.due, sweep[q].now)
    BY <2>1, <2>3 DEF EarlyInv, SweepInTime, Idle, TypeOK, Sweep, Day
  <2>4. ASSUME NEW q \in Process, sweep'[q] = sweep[q] PROVE SweepInTime(q)'
    BY <2>1, <2>2, <2>3, <2>4 DEF SweepInTime, Idle
  <2>5. ASSUME UNCHANGED ledger PROVE NeverEarly'
    BY <2>5 DEF EarlyInv, NeverEarly
  <2>6. ASSUME NEW p \in Process, WorkerStep(p) \/ CommitFails(p) \/ Crash(p),
               NEW q \in Process, q # p
        PROVE  SweepInTime(q)'
    BY <2>1, <2>4, <2>6 DEF WorkerStep, StartSweep, VisitCase, NextStatus, CommitEvent,
       CommitFails, Crash, TypeOK
  <2>7. ASSUME NEW p \in Process, StartSweep(p) PROVE SweepInTime(p)'
    BY <2>1, <2>7 DEF StartSweep, SweepInTime, TypeOK, recordVars
  <2>8. ASSUME NEW p \in Process, VisitCase(p) PROVE SweepInTime(p)'
    <3>1. PICK row \in sweep[p].page :
            sweep' = [sweep EXCEPT
                ![p].page = @ \ {row},
                ![p].events = IF Resolves(row) THEN EventsOf(row, sweep[p].now)
                              ELSE {}]
      BY <2>8 DEF VisitCase
    <3>2. sweep[p] \in Sweep /\ row \in ListedRow /\ sweep[p].now <= today
      BY <2>3, <2>8, <3>1 DEF VisitCase, Idle, Sweep
    <3>3. ASSUME Resolves(row), NEW e \in EventsOf(row, sweep[p].now)
          PROVE  InTime(e.milestone, e.due, sweep[p].now)
      <4>1. NormaliseProduct(rec[row.app].product) \in CaseProduct
        BY <3>3, ProductNormalised DEF Resolves
      <4>2. row.submittedAt \in Nat /\ sweep[p].now \in Int
        BY <3>2, <3>3, RecordsAssumption DEF Resolves, ListedRow, Sweep, Day
      <4>3. PICK x \in EvaluateCase(NormaliseProduct(rec[row.app].product),
                            row.submittedAt, sweep[p].now, FiredOn(row.app)) :
                e.milestone = x.milestone /\ e.due = x.due
        BY <3>3 DEF EventsOf
      <4>4. x.due \in Nat /\ x.milestone \in MilestonesOf(x.due, sweep[p].now)
        BY <4>1, <4>2, RemindersDue
      <4>5. QED
        BY <4>2, <4>3, <4>4, MilestoneInTime
    <3>4. /\ sweep'[p].events = IF Resolves(row) THEN EventsOf(row, sweep[p].now) ELSE {}
          /\ sweep'[p].now = sweep[p].now
      BY <3>1, <3>2 DEF Sweep, TypeOK, EarlyInv
    <3>5. today' = today
      BY <2>8 DEF VisitCase, recordVars
    <3>6. QED
      BY <3>2, <3>3, <3>4, <3>5 DEF SweepInTime
  <2>9. ASSUME NEW p \in Process, NextStatus(p) PROVE SweepInTime(p)'
    <3>1. sweep[p] \in Sweep /\ sweep[p].events = {} /\ sweep[p].now <= today
      BY <2>3, <2>9 DEF NextStatus, Idle
    <3>2. sweep'[p] = Null \/ (sweep'[p].events = {} /\ sweep'[p].now = sweep[p].now)
      <4>1. CASE sweep[p].at < Len(OpenStatuses)
        <5>1. sweep' = [sweep EXCEPT ![p] = [sweep[p] EXCEPT
                            !.at = sweep[p].at + 1, !.page = Listed(sweep[p].at + 1)]]
          BY <2>9, <4>1 DEF NextStatus
        <5>2. sweep'[p] = [sweep[p] EXCEPT
                            !.at = sweep[p].at + 1, !.page = Listed(sweep[p].at + 1)]
          BY <5>1 DEF EarlyInv, TypeOK
        <5>3. QED
          BY <3>1, <5>2 DEF Sweep
      <4>2. CASE ~(sweep[p].at < Len(OpenStatuses))
        BY <2>9, <4>2 DEF NextStatus, EarlyInv, TypeOK
      <4>3. QED
        BY <4>1, <4>2
    <3>3. today' = today
      BY <2>9 DEF NextStatus, recordVars
    <3>4. QED
      BY <3>1, <3>2, <3>3 DEF SweepInTime, Idle
  <2>10. ASSUME NEW p \in Process, CommitEvent(p)
         PROVE  SweepInTime(p)' /\ NeverEarly'
    <3>1. PICK e \in sweep[p].events :
                Record(e) /\ sweep' = [sweep EXCEPT ![p].events = @ \ {e}]
      BY <2>10 DEF CommitEvent
    <3>2. /\ sweep[p] \in Sweep /\ sweep[p].now \in Int /\ sweep[p].now <= today
          /\ \A x \in sweep[p].events : InTime(x.milestone, x.due, sweep[p].now)
      BY <2>3, <2>10 DEF CommitEvent, Idle
    <3>3. /\ sweep'[p].events \subseteq sweep[p].events
          /\ sweep'[p].now = sweep[p].now /\ today' = today
      BY <2>10, <3>1, <3>2 DEF Sweep, EarlyInv, TypeOK, CommitEvent, recordVars
    <3>4. e.milestone \in Milestone /\ e.due \in Int
      BY <3>1, <3>2 DEF Sweep, Event
    <3>5. InTime(e.milestone, e.due, today)
      BY <2>1, <3>1, <3>2, <3>4, LaterInTime
    <3>6. \A row \in ledger' \ ledger :
                row.milestone = e.milestone /\ row.due = e.due /\ row.firedOn = today
      BY <3>1 DEF Record
    <3>7. \A row \in ledger' : InTime(row.milestone, row.due, row.firedOn)
      BY <3>5, <3>6 DEF EarlyInv, NeverEarly, InTime
    <3>8. QED
      BY <3>2, <3>3, <3>7 DEF SweepInTime, NeverEarly, InTime
  <2>11. ASSUME NEW p \in Process, CommitFails(p) PROVE SweepInTime(p)'
    <3>1. sweep[p] \in Sweep /\ sweep[p].now <= today
      BY <2>3, <2>11 DEF CommitFails, Idle
    <3>2. sweep'[p].events = {} /\ sweep'[p].now = sweep[p].now /\ today' = today
      BY <2>11, <3>1 DEF CommitFails, Sweep, EarlyInv, TypeOK, recordVars
    <3>3. QED
      BY <3>1, <3>2 DEF SweepInTime
  <2>12. ASSUME NEW p \in Process, Crash(p) PROVE SweepInTime(p)'
    BY <2>1, <2>12 DEF Crash, SweepInTime, Idle, TypeOK
  <2>13. ASSUME NEW p \in Process, Serve(p)
         PROVE  NeverEarly' /\ \A q \in Process : SweepInTime(q)'
    BY <2>4, <2>5, <2>13 DEF Serve, workerVars
  <2>14. ASSUME UNCHANGED workerVars
         PROVE  NeverEarly' /\ \A q \in Process : SweepInTime(q)'
    BY <2>4, <2>5, <2>14 DEF workerVars
  <2>15. ASSUME NEW p \in Process,
                StartSweep(p) \/ VisitCase(p) \/ NextStatus(p) \/ CommitFails(p) \/ Crash(p)
         PROVE  NeverEarly'
    BY <2>5, <2>15 DEF StartSweep, VisitCase, NextStatus, CommitFails, Crash
  <2>16. ASSUME NEW p \in Process, WorkerStep(p) \/ CommitFails(p) \/ Crash(p)
         PROVE  NeverEarly' /\ \A q \in Process : SweepInTime(q)'
    <3>1. SweepInTime(p)' /\ NeverEarly'
      BY <2>7, <2>8, <2>9, <2>10, <2>11, <2>12, <2>15, <2>16 DEF WorkerStep
    <3>2. QED
      BY <2>6, <2>16, <3>1
  <2>17. QED
    BY <2>13, <2>14, <2>16 DEF Next, vars, workerVars
<1>3. EarlyInv => NeverEarly
  BY DEF EarlyInv
<1>4. QED
  BY <1>1, <1>2, <1>3, PTL DEF Spec
=============================================================================
