--------------------------- MODULE CaseFileProofs ---------------------------
(***************************************************************************)
(* Theorems about the case handlers, for any applications, users, products *)
(* and days, with handlers cut short anywhere and forms that carry case    *)
(* columns unless a theorem assumes otherwise.                             *)
(***************************************************************************)
EXTENDS CaseFile, TLAPS, SequenceTheorems

(***************************************************************************)
(* What a write to the trail and a notification leave, with the types.     *)
(***************************************************************************)
LEMMA AuditTyped ==
    ASSUME TypeOK, NEW a \in App, HasRoom(a), NEW action \in AuditAction,
           NEW was \in AuditValue, NEW is \in AuditValue,
           Audit(a, action, was, is)
    PROVE  /\ trail' \in [App -> Seq(AuditEvent)]
           /\ \A b \in App : Len(trail'[b]) <= MaxTrail
           /\ Len(trail'[a]) = Len(trail[a]) + 1
           /\ Len(trail'[a]) \in 0..MaxTrail
           /\ trail'[a][Len(trail'[a])] =
                    [action |-> action, was |-> was, is |-> is]
           /\ \A i \in 1..Len(trail[a]) : trail'[a][i] = trail[a][i]
           /\ \A b \in App \ {a} : trail'[b] = trail[b]
<1> DEFINE e == [action |-> action, was |-> was, is |-> is]
<1>1. e \in AuditEvent
  BY DEF AuditEvent
<1>2. trail' = [trail EXCEPT ![a] = Append(trail[a], e)]
  BY DEF Audit
<1>3. trail[a] \in Seq(AuditEvent) /\ Len(trail[a]) < MaxTrail /\ MaxTrail \in Nat
  BY MaxTrailAssumption DEF TypeOK, HasRoom
<1>4. /\ Append(trail[a], e) \in Seq(AuditEvent)
      /\ Len(Append(trail[a], e)) = Len(trail[a]) + 1
      /\ Append(trail[a], e)[Len(trail[a]) + 1] = e
      /\ \A i \in 1..Len(trail[a]) : Append(trail[a], e)[i] = trail[a][i]
  BY <1>1, <1>3, AppendProperties
<1>5. Len(trail[a]) \in Nat
  BY <1>3, LenProperties
<1>6. trail'[a] = Append(trail[a], e) /\ \A b \in App \ {a} : trail'[b] = trail[b]
  BY <1>2 DEF TypeOK
<1>7. trail' \in [App -> Seq(AuditEvent)]
  BY <1>2, <1>4 DEF TypeOK
<1>8. \A b \in App : Len(trail'[b]) <= MaxTrail
  BY <1>3, <1>4, <1>5, <1>6 DEF TypeOK
<1>9. QED
  BY <1>3, <1>4, <1>5, <1>6, <1>7, <1>8

LEMMA NotifyTyped ==
    ASSUME TypeOK, NEW a \in App, NEW to \in Owner \cup Officer \cup {Null},
           NEW subject \in Status \cup {"assigned", "message"},
           Len(trail'[a]) \in 0..MaxTrail, Notify(a, to, subject)
    PROVE  inbox' \in [App -> SUBSET Notice]
<1>1. CASE UNCHANGED inbox
  BY <1>1 DEF TypeOK
<1>2. CASE /\ to # Null
           /\ inbox' = [inbox EXCEPT ![a] = @ \cup
                {[to |-> to, subject |-> subject, at |-> Len(trail'[a])]}]
  <2>1. [to |-> to, subject |-> subject, at |-> Len(trail'[a])] \in Notice
    BY <1>2 DEF Notice
  <2>2. QED
    BY <1>2, <2>1 DEF TypeOK
<1>3. QED
  BY <1>1, <1>2 DEF Notify

LEMMA NullIsAuditValue ==
    Null \in AuditValue /\ Status \subseteq AuditValue /\ Direction \subseteq AuditValue
BY DEF AuditValue

LEMMA RowsTyped ==
    ASSUME TypeOK, NEW a \in App
    PROVE  /\ Exists(a) =>
                /\ app[a] \in AppRow
                /\ app[a].status \in Status
                /\ app[a].owner \in Owner \cup {Null}
                /\ app[a].assignedTo \in Officer \cup {Null}
           /\ rec[a] # Null => rec[a] \in RecRow
BY DEF TypeOK, RecordsTypeOK, Exists, AppRow, RecRow

(***************************************************************************)
(* The row each statement leaves, column by column.                        *)
(***************************************************************************)
LEMMA SubmitWrites ==
    ASSUME TypeOK, NEW a \in App, NEW n, SubmitRow(a, n)
    PROVE  \E row \in AppRow :
                /\ app' = [app EXCEPT ![a] = row]
                /\ row.status = "submitted"
                /\ n >= 2 => row.submittedAt = today
                /\ row.owner = app[a].owner
                /\ row.assignedTo = app[a].assignedTo
<1>1. app[a] \in AppRow /\ today \in Day
  BY RowsTyped DEF SubmitRow, TypeOK, RecordsTypeOK
<1>2. PICK date \in Day \cup {Null} :
            /\ app' = [app EXCEPT ![a].status = "submitted", ![a].submittedAt = date]
            /\ n >= 2 => date = today
  BY <1>1 DEF SubmitRow, AppRow
<1> DEFINE row == [app[a] EXCEPT !.status = "submitted", !.submittedAt = date]
<1>3. app' = [app EXCEPT ![a] = row]
  BY <1>2
<1>4. /\ row \in AppRow
      /\ row.status = "submitted" /\ row.submittedAt = date
      /\ row.owner = app[a].owner /\ row.assignedTo = app[a].assignedTo
  BY <1>1 DEF AppRow, Status
<1> HIDE DEF row
<1>5. QED
  BY <1>2, <1>3, <1>4

LEMMA StatusWrites ==
    ASSUME TypeOK, NEW a \in App, NEW status \in Status, StatusRow(a, status)
    PROVE  \E row \in AppRow :
                /\ app' = [app EXCEPT ![a] = row]
                /\ row.status = status
                /\ row.submittedAt = app[a].submittedAt
                /\ row.owner = app[a].owner
                /\ row.assignedTo = app[a].assignedTo
<1> DEFINE row == [app[a] EXCEPT !.status = status]
<1>1. app' = [app EXCEPT ![a] = row]
  BY DEF StatusRow
<1>2. /\ row \in AppRow
      /\ row.status = status /\ row.submittedAt = app[a].submittedAt
      /\ row.owner = app[a].owner /\ row.assignedTo = app[a].assignedTo
  BY RowsTyped DEF StatusRow, AppRow
<1> HIDE DEF row
<1>3. QED
  BY <1>1, <1>2

LEMMA AssignWrites ==
    ASSUME TypeOK, NEW a \in App, NEW officer \in Officer \cup {Null},
           AssignRow(a, officer)
    PROVE  \E row \in AppRow :
                /\ app' = [app EXCEPT ![a] = row]
                /\ row.assignedTo = officer
                /\ row.status = app[a].status
                /\ row.submittedAt = app[a].submittedAt
                /\ row.owner = app[a].owner
<1> DEFINE row == [app[a] EXCEPT !.assignedTo = officer]
<1>1. app' = [app EXCEPT ![a] = row]
  BY DEF AssignRow
<1>2. /\ row \in AppRow
      /\ row.assignedTo = officer /\ row.status = app[a].status
      /\ row.submittedAt = app[a].submittedAt /\ row.owner = app[a].owner
  BY RowsTyped DEF AssignRow, AppRow
<1> HIDE DEF row
<1>3. QED
  BY <1>1, <1>2

LEMMA RowTyped ==
    ASSUME TypeOK, NEW a \in App, NEW row \in AppRow,
           app' = [app EXCEPT ![a] = row], UNCHANGED <<rec, today>>
    PROVE  RecordsTypeOK'
BY DEF TypeOK, RecordsTypeOK

LEMMA InitTyped == Init => TypeOK
<1> SUFFICES ASSUME Init PROVE TypeOK
  OBVIOUS
<1>1. PICK seed \in [App -> SeedCase] :
          /\ app = [a \in App |-> seed[a].row]
          /\ rec = [a \in App |-> seed[a].rec]
  BY DEF Init, InitRecords
<1>2. \A s \in SeedCase : s.row \in AppRow \cup {Null} /\ s.rec \in RecRow \cup {Null}
  BY RecordsAssumption DEF SeedCase, AppRow, RecRow, Status, Decided, Day
<1>3. RecordsTypeOK
  BY <1>1, <1>2, RecordsAssumption DEF Init, InitRecords, RecordsTypeOK, Day
<1>4. trail \in [App -> Seq(AuditEvent)] /\ \A a \in App : Len(trail[a]) <= MaxTrail
  BY MaxTrailAssumption DEF Init
<1>5. inbox \in [App -> SUBSET Notice]
  BY DEF Init
<1>6. QED
  BY <1>3, <1>4, <1>5 DEF TypeOK

LEMMA StepTyped == TypeOK /\ [Next]_vars => TypeOK'
<1> SUFFICES ASSUME TypeOK, [Next]_vars PROVE TypeOK'
  OBVIOUS
<1>1. ASSUME NEW a \in App, Create(a) PROVE TypeOK'
  <2>1. PICK row \in AppRow, n \in Made(2) :
          /\ HasRoom(a) /\ CreateRow(a, row)
          /\ IF n = 2 THEN Audit(a, "created", Null, "draft") ELSE UNCHANGED trail
          /\ UNCHANGED inbox
    BY <1>1 DEF Create
  <2>2. RecordsTypeOK'
    BY <2>1 DEF CreateRow, TypeOK, RecordsTypeOK
  <2>3. trail' \in [App -> Seq(AuditEvent)] /\ \A b \in App : Len(trail'[b]) <= MaxTrail
    <3>1. CASE n = 2
      BY <2>1, <3>1, AuditTyped, NullIsAuditValue DEF AuditAction, Status
    <3>2. CASE n # 2
      BY <2>1, <3>2 DEF TypeOK
    <3>3. QED
      BY <3>1, <3>2
  <2>4. QED
    BY <2>1, <2>2, <2>3 DEF TypeOK
<1>2. ASSUME NEW a \in App, Edit(a) PROVE TypeOK'
  <2>1. PICK row \in AppRow, n \in Made(2) :
          /\ HasRoom(a) /\ EditRow(a, row)
          /\ IF n = 2 THEN Audit(a, "updated", Null, Null) ELSE UNCHANGED trail
          /\ UNCHANGED inbox
    BY <1>2 DEF Edit
  <2>2. RecordsTypeOK'
    BY <2>1 DEF EditRow, TypeOK, RecordsTypeOK
  <2>3. trail' \in [App -> Seq(AuditEvent)] /\ \A b \in App : Len(trail'[b]) <= MaxTrail
    <3>1. CASE n = 2
      BY <2>1, <3>1, AuditTyped, NullIsAuditValue DEF AuditAction
    <3>2. CASE n # 2
      BY <2>1, <3>2 DEF TypeOK
    <3>3. QED
      BY <3>1, <3>2
  <2>4. QED
    BY <2>1, <2>2, <2>3 DEF TypeOK
<1>3. ASSUME NEW a \in App, Submit(a) PROVE TypeOK'
  <2>1. PICK n \in Made(3) :
          /\ HasRoom(a) /\ SubmitRow(a, n)
          /\ IF n = 3
             THEN /\ Audit(a, "submitted", Null, "submitted")
                  /\ Notify(a, app[a].owner, "submitted")
             ELSE Quiet
    BY <1>3 DEF Submit
  <2>2. RecordsTypeOK'
    BY <2>1, SubmitWrites, RowTyped DEF SubmitRow
  <2>3. app[a].owner \in Owner \cup {Null}
    BY <2>1, RowsTyped DEF SubmitRow
  <2>4. CASE n = 3
    <3>1. /\ trail' \in [App -> Seq(AuditEvent)]
          /\ \A b \in App : Len(trail'[b]) <= MaxTrail
          /\ Len(trail'[a]) \in 0..MaxTrail
      BY <2>1, <2>4, AuditTyped, NullIsAuditValue DEF AuditAction, Status
    <3>2. inbox' \in [App -> SUBSET Notice]
      BY <2>1, <2>3, <2>4, <3>1, NotifyTyped DEF Status
    <3>3. QED
      BY <2>2, <3>1, <3>2 DEF TypeOK
  <2>5. CASE n # 3
    BY <2>1, <2>2, <2>5 DEF Quiet, TypeOK
  <2>6. QED
    BY <2>4, <2>5
<1>4. ASSUME NEW a \in App, ChangeStatus(a) PROVE TypeOK'
  <2>1. PICK status \in Status, n \in Made(2) :
          /\ HasRoom(a) /\ StatusRow(a, status)
          /\ IF n = 2
             THEN /\ Audit(a, "status_changed", app[a].status, status)
                  /\ Notify(a, app[a].owner, status)
             ELSE Quiet
    BY <1>4 DEF ChangeStatus
  <2>2. RecordsTypeOK'
    BY <2>1, StatusWrites, RowTyped DEF StatusRow
  <2>3. app[a].owner \in Owner \cup {Null} /\ app[a].status \in Status
    BY <2>1, RowsTyped DEF StatusRow
  <2>4. CASE n = 2
    <3>1. /\ trail' \in [App -> Seq(AuditEvent)]
          /\ \A b \in App : Len(trail'[b]) <= MaxTrail
          /\ Len(trail'[a]) \in 0..MaxTrail
      BY <2>1, <2>3, <2>4, AuditTyped, NullIsAuditValue DEF AuditAction
    <3>2. inbox' \in [App -> SUBSET Notice]
      BY <2>1, <2>3, <2>4, <3>1, NotifyTyped
    <3>3. QED
      BY <2>2, <3>1, <3>2 DEF TypeOK
  <2>5. CASE n # 2
    BY <2>1, <2>2, <2>5 DEF Quiet, TypeOK
  <2>6. QED
    BY <2>4, <2>5
<1>5. ASSUME NEW a \in App, Assign(a) PROVE TypeOK'
  <2>1. PICK officer \in Officer \cup {Null}, n \in Made(2) :
          /\ HasRoom(a) /\ AssignRow(a, officer)
          /\ IF n = 2
             THEN /\ Audit(a, "assigned", app[a].assignedTo, officer)
                  /\ Notify(a, officer, "assigned")
             ELSE Quiet
    BY <1>5 DEF Assign
  <2>2. RecordsTypeOK'
    BY <2>1, AssignWrites, RowTyped DEF AssignRow
  <2>3. app[a].assignedTo \in AuditValue /\ officer \in AuditValue
    BY <2>1, RowsTyped DEF AssignRow, AuditValue
  <2>4. CASE n = 2
    <3>1. /\ trail' \in [App -> Seq(AuditEvent)]
          /\ \A b \in App : Len(trail'[b]) <= MaxTrail
          /\ Len(trail'[a]) \in 0..MaxTrail
      BY <2>1, <2>3, <2>4, AuditTyped DEF AuditAction
    <3>2. inbox' \in [App -> SUBSET Notice]
      BY <2>1, <2>4, <3>1, NotifyTyped
    <3>3. QED
      BY <2>2, <3>1, <3>2 DEF TypeOK
  <2>5. CASE n # 2
    BY <2>1, <2>2, <2>5 DEF Quiet, TypeOK
  <2>6. QED
    BY <2>4, <2>5
<1>6. ASSUME NEW a \in App, Recommend(a) PROVE TypeOK'
  BY <1>6, RecordsAssumption
     DEF Recommend, RecommendRow, Quiet, TypeOK, RecordsTypeOK, RecRow
<1>7. ASSUME NEW a \in App, Override(a) PROVE TypeOK'
  <2>1. PICK product \in EngineProduct, n \in Made(2) :
          /\ HasRoom(a) /\ OverrideRow(a, product)
          /\ IF n = 2 THEN Audit(a, "overridden", rec[a].product, product)
             ELSE UNCHANGED trail
          /\ UNCHANGED inbox
    BY <1>7 DEF Override
  <2>2. rec[a] \in RecRow /\ product \in Product
    BY <2>1, RowsTyped, RecordsAssumption DEF OverrideRow
  <2>3. RecordsTypeOK'
    BY <2>1, <2>2 DEF OverrideRow, TypeOK, RecordsTypeOK, RecRow
  <2>4. rec[a].product \in AuditValue /\ product \in AuditValue
    BY <2>2 DEF RecRow, AuditValue
  <2>5. trail' \in [App -> Seq(AuditEvent)] /\ \A b \in App : Len(trail'[b]) <= MaxTrail
    <3>1. CASE n = 2
      BY <2>1, <2>4, <3>1, AuditTyped DEF AuditAction
    <3>2. CASE n # 2
      BY <2>1, <3>2 DEF TypeOK
    <3>3. QED
      BY <3>1, <3>2
  <2>6. QED
    BY <2>1, <2>3, <2>5 DEF TypeOK
<1>8. ASSUME NEW a \in App, AddEntry(a) PROVE TypeOK'
  <2>1. PICK action \in {"note_added", "claim_submitted"}, n \in Made(2) :
          /\ HasRoom(a)
          /\ IF n = 2 THEN Audit(a, action, Null, Null) ELSE UNCHANGED trail
          /\ UNCHANGED <<app, rec, today, inbox>>
    BY <1>8 DEF AddEntry
  <2>2. CASE n = 2
    BY <2>1, <2>2, AuditTyped, NullIsAuditValue DEF AuditAction, TypeOK, RecordsTypeOK
  <2>3. CASE n # 2
    BY <2>1, <2>3 DEF TypeOK, RecordsTypeOK
  <2>4. QED
    BY <2>2, <2>3
<1>9. ASSUME NEW a \in App, SendMessage(a) PROVE TypeOK'
  <2> DEFINE to(from) == IF from = "staff" THEN app[a].owner ELSE app[a].assignedTo
  <2>1. PICK from \in Direction, n \in Made(2) :
          /\ HasRoom(a) /\ Exists(a)
          /\ IF n = 2
             THEN /\ Audit(a, "message_sent", Null, from)
                  /\ Notify(a, to(from), "message")
             ELSE Quiet
          /\ UNCHANGED <<app, rec, today>>
    BY <1>9 DEF SendMessage
  <2>2. RecordsTypeOK'
    BY <2>1 DEF TypeOK, RecordsTypeOK
  <2>3. to(from) \in Owner \cup Officer \cup {Null}
    BY <2>1, RowsTyped
  <2>4. CASE n = 2
    <3>1. /\ trail' \in [App -> Seq(AuditEvent)]
          /\ \A b \in App : Len(trail'[b]) <= MaxTrail
          /\ Len(trail'[a]) \in 0..MaxTrail
      BY <2>1, <2>4, AuditTyped, NullIsAuditValue DEF AuditAction
    <3>2. inbox' \in [App -> SUBSET Notice]
      BY <2>1, <2>3, <2>4, <3>1, NotifyTyped
    <3>3. QED
      BY <2>2, <3>1, <3>2 DEF TypeOK
  <2>5. CASE n # 2
    BY <2>1, <2>2, <2>5 DEF Quiet, TypeOK
  <2>6. QED
    BY <2>4, <2>5
<1>10. CASE NewDay /\ Quiet
  BY <1>10, RecordsAssumption DEF NewDay, Quiet, TypeOK, RecordsTypeOK, Day
<1>11. CASE UNCHANGED vars
  BY <1>11 DEF vars, TypeOK, RecordsTypeOK
<1>12. QED
  BY <1>1, <1>2, <1>3, <1>4, <1>5, <1>6, <1>7, <1>8, <1>9, <1>10, <1>11
     DEF Next, Handler

(***************************************************************************)
(* Every reachable state of the case handlers is well typed: whatever is   *)
(* assigned is a member of staff, and no trail or inbox holds anything     *)
(* the handlers do not write.                                              *)
(***************************************************************************)
THEOREM TypeCorrect == Spec => []TypeOK
BY InitTyped, StepTyped, PTL DEF Spec

-----------------------------------------------------------------------------
(***************************************************************************)
(* Every step of the gateway keeps what is on record: trails only grow,    *)
(* and an application that exists keeps existing, with its owner.          *)
(***************************************************************************)
Grows(a) ==
    /\ Len(trail'[a]) >= Len(trail[a])
    /\ \A i \in 1..Len(trail[a]) : trail'[a][i] = trail[a][i]

OwnerKept(a) == Exists(a) => Exists(a)' /\ app'[a].owner = app[a].owner

LEMMA LenInNat == TypeOK => \A a \in App : Len(trail[a]) \in Nat
BY LenProperties DEF TypeOK

LEMMA AuditGrows ==
    ASSUME TypeOK, NEW a \in App, HasRoom(a), NEW action \in AuditAction,
           NEW was \in AuditValue, NEW is \in AuditValue,
           Audit(a, action, was, is)
    PROVE  \A b \in App : Grows(b)
<1>1. /\ Len(trail'[a]) = Len(trail[a]) + 1
      /\ \A i \in 1..Len(trail[a]) : trail'[a][i] = trail[a][i]
      /\ \A b \in App \ {a} : trail'[b] = trail[b]
  BY AuditTyped
<1>2. \A b \in App : Len(trail[b]) \in Nat
  BY LenInNat
<1>3. QED
  BY <1>1, <1>2 DEF Grows

LEMMA QuietGrows == TypeOK /\ UNCHANGED trail => \A a \in App : Grows(a)
BY LenInNat DEF Grows

LEMMA RowKept ==
    ASSUME TypeOK, NEW b \in App, NEW row \in AppRow,
           app' = [app EXCEPT ![b] = row], row.owner = app[b].owner
    PROVE  \A a \in App : OwnerKept(a)
BY NullAssumption DEF OwnerKept, Exists, TypeOK, RecordsTypeOK

LEMMA RecordsKept ==
    ASSUME TypeOK, [Next]_vars
    PROVE  \A a \in App : Grows(a) /\ OwnerKept(a)
<1>1. ASSUME NEW b \in App, Create(b)
      PROVE  \A a \in App : Grows(a) /\ OwnerKept(a)
  <2>1. PICK row \in AppRow, n \in Made(2) :
            /\ HasRoom(b) /\ CreateRow(b, row)
            /\ IF n = 2 THEN Audit(b, "created", Null, "draft") ELSE UNCHANGED trail
    BY <1>1 DEF Create
  <2>2. \A a \in App : OwnerKept(a)
    BY <2>1, NullAssumption DEF CreateRow, OwnerKept, Exists, TypeOK, RecordsTypeOK
  <2>3. CASE n = 2
    BY <2>1, <2>2, <2>3, AuditGrows, NullIsAuditValue DEF AuditAction, Status
  <2>4. CASE n # 2
    BY <2>1, <2>2, <2>4, QuietGrows
  <2>5. QED
    BY <2>3, <2>4
<1>2. ASSUME NEW b \in App, Edit(b)
      PROVE  \A a \in App : Grows(a) /\ OwnerKept(a)
  <2>1. PICK row \in AppRow, n \in Made(2) :
            /\ HasRoom(b) /\ EditRow(b, row)
            /\ IF n = 2 THEN Audit(b, "updated", Null, Null) ELSE UNCHANGED trail
    BY <1>2 DEF Edit
  <2>2. \A a \in App : OwnerKept(a)
    BY <2>1, NullAssumption DEF EditRow, OwnerKept, Exists, TypeOK, RecordsTypeOK
  <2>3. CASE n = 2
    BY <2>1, <2>2, <2>3, AuditGrows, NullIsAuditValue DEF AuditAction
  <2>4. CASE n # 2
    BY <2>1, <2>2, <2>4, QuietGrows
  <2>5. QED
    BY <2>3, <2>4
<1>3. ASSUME NEW b \in App, Submit(b)
      PROVE  \A a \in App : Grows(a) /\ OwnerKept(a)
  <2>1. PICK n \in Made(3) :
            /\ HasRoom(b) /\ SubmitRow(b, n)
            /\ IF n = 3 THEN Audit(b, "submitted", Null, "submitted")
               ELSE UNCHANGED trail
    BY <1>3 DEF Submit, Quiet
  <2>2. \A a \in App : OwnerKept(a)
    BY <2>1, SubmitWrites, RowKept
  <2>3. CASE n = 3
    BY <2>1, <2>2, <2>3, AuditGrows, NullIsAuditValue DEF AuditAction, Status
  <2>4. CASE n # 3
    BY <2>1, <2>2, <2>4, QuietGrows
  <2>5. QED
    BY <2>3, <2>4
<1>4. ASSUME NEW b \in App, ChangeStatus(b)
      PROVE  \A a \in App : Grows(a) /\ OwnerKept(a)
  <2>1. PICK status \in Status, n \in Made(2) :
            /\ HasRoom(b) /\ StatusRow(b, status)
            /\ IF n = 2 THEN Audit(b, "status_changed", app[b].status, status)
               ELSE UNCHANGED trail
    BY <1>4 DEF ChangeStatus, Quiet
  <2>2. \A a \in App : OwnerKept(a)
    BY <2>1, StatusWrites, RowKept
  <2>3. CASE n = 2
    BY <2>1, <2>2, <2>3, RowsTyped, AuditGrows, NullIsAuditValue
       DEF AuditAction, StatusRow
  <2>4. CASE n # 2
    BY <2>1, <2>2, <2>4, QuietGrows
  <2>5. QED
    BY <2>3, <2>4
<1>5. ASSUME NEW b \in App, Assign(b)
      PROVE  \A a \in App : Grows(a) /\ OwnerKept(a)
  <2>1. PICK officer \in Officer \cup {Null}, n \in Made(2) :
            /\ HasRoom(b) /\ AssignRow(b, officer)
            /\ IF n = 2 THEN Audit(b, "assigned", app[b].assignedTo, officer)
               ELSE UNCHANGED trail
    BY <1>5 DEF Assign, Quiet
  <2>2. \A a \in App : OwnerKept(a)
    BY <2>1, AssignWrites, RowKept
  <2>3. app[b].assignedTo \in AuditValue /\ officer \in AuditValue
    BY <2>1, RowsTyped DEF AssignRow, AuditValue
  <2>4. CASE n = 2
    BY <2>1, <2>2, <2>3, <2>4, AuditGrows DEF AuditAction
  <2>5. CASE n # 2
    BY <2>1, <2>2, <2>5, QuietGrows
  <2>6. QED
    BY <2>4, <2>5
<1>6. ASSUME NEW b \in App, Recommend(b)
      PROVE  \A a \in App : Grows(a) /\ OwnerKept(a)
  BY <1>6, QuietGrows DEF Recommend, RecommendRow, Quiet, OwnerKept, Exists
<1>7. ASSUME NEW b \in App, Override(b)
      PROVE  \A a \in App : Grows(a) /\ OwnerKept(a)
  <2>1. PICK product \in EngineProduct, n \in Made(2) :
            /\ HasRoom(b) /\ OverrideRow(b, product)
            /\ IF n = 2 THEN Audit(b, "overridden", rec[b].product, product)
               ELSE UNCHANGED trail
    BY <1>7 DEF Override
  <2>2. \A a \in App : OwnerKept(a)
    BY <2>1 DEF OverrideRow, OwnerKept, Exists
  <2>3. rec[b].product \in AuditValue /\ product \in AuditValue
    BY <2>1, RowsTyped, RecordsAssumption DEF OverrideRow, RecRow, AuditValue
  <2>4. CASE n = 2
    BY <2>1, <2>2, <2>3, <2>4, AuditGrows DEF AuditAction
  <2>5. CASE n # 2
    BY <2>1, <2>2, <2>5, QuietGrows
  <2>6. QED
    BY <2>4, <2>5
<1>8. ASSUME NEW b \in App, AddEntry(b)
      PROVE  \A a \in App : Grows(a) /\ OwnerKept(a)
  <2>1. PICK action \in {"note_added", "claim_submitted"}, n \in Made(2) :
            /\ HasRoom(b)
            /\ IF n = 2 THEN Audit(b, action, Null, Null) ELSE UNCHANGED trail
            /\ UNCHANGED app
    BY <1>8 DEF AddEntry
  <2>2. \A a \in App : OwnerKept(a)
    BY <2>1 DEF OwnerKept, Exists
  <2>3. CASE n = 2
    BY <2>1, <2>2, <2>3, AuditGrows, NullIsAuditValue DEF AuditAction
  <2>4. CASE n # 2
    BY <2>1, <2>2, <2>4, QuietGrows
  <2>5. QED
    BY <2>3, <2>4
<1>9. ASSUME NEW b \in App, SendMessage(b)
      PROVE  \A a \in App : Grows(a) /\ OwnerKept(a)
  <2>1. PICK from \in Direction, n \in Made(2) :
            /\ HasRoom(b)
            /\ IF n = 2 THEN Audit(b, "message_sent", Null, from)
               ELSE UNCHANGED trail
            /\ UNCHANGED app
    BY <1>9 DEF SendMessage, Quiet
  <2>2. \A a \in App : OwnerKept(a)
    BY <2>1 DEF OwnerKept, Exists
  <2>3. CASE n = 2
    BY <2>1, <2>2, <2>3, AuditGrows, NullIsAuditValue DEF AuditAction
  <2>4. CASE n # 2
    BY <2>1, <2>2, <2>4, QuietGrows
  <2>5. QED
    BY <2>3, <2>4
<1>10. CASE NewDay /\ Quiet
  BY <1>10, QuietGrows DEF NewDay, Quiet, OwnerKept, Exists
<1>11. CASE UNCHANGED vars
  BY <1>11, QuietGrows DEF vars, OwnerKept, Exists
<1>12. QED
  BY <1>1, <1>2, <1>3, <1>4, <1>5, <1>6, <1>7, <1>8, <1>9, <1>10, <1>11
     DEF Next, Handler

-----------------------------------------------------------------------------
LEMMA OldNoticeBacked ==
    ASSUME TypeOK, NEW a \in App, Grows(a), OwnerKept(a), Exists(a),
           NEW notice, Backed(a, notice)
    PROVE  Backed(a, notice)'
<1>1. Len(trail[a]) \in Nat /\ Len(trail'[a]) >= Len(trail[a])
  BY LenInNat DEF Grows
<1>2. notice.at \in 1..Len(trail[a]) /\ trail'[a][notice.at] = trail[a][notice.at]
  BY DEF Backed, Grows
<1>3. Len(trail'[a]) \in Nat => notice.at \in 1..Len(trail'[a])
  BY <1>1, <1>2
<1>4. QED
  BY <1>1, <1>2, <1>3 DEF Backed, OwnerKept

\* A notification goes to the inbox of its case, about the event just audited.
LEMMA NotifyAdds ==
    ASSUME TypeOK, NEW b \in App, NEW to, NEW subject, Notify(b, to, subject),
           NEW a \in App, NEW notice \in inbox'[a], notice \notin inbox[a]
    PROVE  /\ a = b
           /\ notice = [to |-> to, subject |-> subject, at |-> Len(trail'[b])]
           /\ to # Null
BY DEF Notify, TypeOK

LEMMA NewNoticeBacked ==
    ASSUME TypeOK, [Next]_vars,
           NEW a \in App, NEW notice \in inbox'[a], notice \notin inbox[a]
    PROVE  Exists(a) /\ Backed(a, notice)'
<1>1. ASSUME NEW b \in App, Submit(b) PROVE Exists(a) /\ Backed(a, notice)'
  <2>1. PICK n \in Made(3) :
            /\ HasRoom(b) /\ SubmitRow(b, n)
            /\ IF n = 3
               THEN /\ Audit(b, "submitted", Null, "submitted")
                    /\ Notify(b, app[b].owner, "submitted")
               ELSE Quiet
    BY <1>1 DEF Submit
  <2>2. n = 3
    BY <2>1 DEF Quiet
  <2>3. a = b /\ notice = [to |-> app[b].owner, subject |-> "submitted",
                            at |-> Len(trail'[b])]
    BY <2>1, <2>2, NotifyAdds
  <2>4. /\ Len(trail'[b]) = Len(trail[b]) + 1
        /\ trail'[b][Len(trail'[b])] =
                [action |-> "submitted", was |-> Null, is |-> "submitted"]
    BY <2>1, <2>2, AuditTyped, NullIsAuditValue DEF AuditAction, Status
  <2>5. Len(trail'[b]) \in 1..Len(trail'[b])
    BY <2>4, LenInNat
  <2>6. app'[b].owner = app[b].owner
    BY <2>1, SubmitWrites DEF TypeOK, RecordsTypeOK
  <2>7. QED
    BY <2>1, <2>3, <2>4, <2>5, <2>6 DEF Backed, SubmitRow
<1>2. ASSUME NEW b \in App, ChangeStatus(b) PROVE Exists(a) /\ Backed(a, notice)'
  <2>1. PICK status \in Status, n \in Made(2) :
            /\ HasRoom(b) /\ StatusRow(b, status)
            /\ IF n = 2
               THEN /\ Audit(b, "status_changed", app[b].status, status)
                    /\ Notify(b, app[b].owner, status)
               ELSE Quiet
    BY <1>2 DEF ChangeStatus
  <2>2. n = 2
    BY <2>1 DEF Quiet
  <2>3. a = b /\ notice = [to |-> app[b].owner, subject |-> status,
                            at |-> Len(trail'[b])]
    BY <2>1, <2>2, NotifyAdds
  <2>4. /\ app[b].status \in AuditValue /\ status \in AuditValue
        /\ status \notin {"assigned", "message"}
    BY <2>1, RowsTyped, NullIsAuditValue DEF StatusRow, Status
  <2>5. /\ Len(trail'[b]) = Len(trail[b]) + 1
        /\ trail'[b][Len(trail'[b])] =
                [action |-> "status_changed", was |-> app[b].status, is |-> status]
    BY <2>1, <2>2, <2>4, AuditTyped DEF AuditAction
  <2>6. Len(trail'[b]) \in 1..Len(trail'[b])
    BY <2>5, LenInNat
  <2>7. app'[b].owner = app[b].owner
    BY <2>1, StatusWrites DEF TypeOK, RecordsTypeOK
  <2>8. QED
    BY <2>1, <2>3, <2>4, <2>5, <2>6, <2>7 DEF Backed, StatusRow
<1>3. ASSUME NEW b \in App, Assign(b) PROVE Exists(a) /\ Backed(a, notice)'
  <2>1. PICK officer \in Officer \cup {Null}, n \in Made(2) :
            /\ HasRoom(b) /\ AssignRow(b, officer)
            /\ IF n = 2
               THEN /\ Audit(b, "assigned", app[b].assignedTo, officer)
                    /\ Notify(b, officer, "assigned")
               ELSE Quiet
    BY <1>3 DEF Assign
  <2>2. n = 2
    BY <2>1 DEF Quiet
  <2>3. a = b /\ notice = [to |-> officer, subject |-> "assigned",
                            at |-> Len(trail'[b])]
    BY <2>1, <2>2, NotifyAdds
  <2>4. app[b].assignedTo \in AuditValue /\ officer \in AuditValue
    BY <2>1, RowsTyped DEF AssignRow, AuditValue
  <2>5. /\ Len(trail'[b]) = Len(trail[b]) + 1
        /\ trail'[b][Len(trail'[b])] =
                [action |-> "assigned", was |-> app[b].assignedTo, is |-> officer]
    BY <2>1, <2>2, <2>4, AuditTyped DEF AuditAction
  <2>6. Len(trail'[b]) \in 1..Len(trail'[b])
    BY <2>5, LenInNat
  <2>7. QED
    BY <2>1, <2>3, <2>5, <2>6 DEF Backed, AssignRow
<1>4. ASSUME NEW b \in App, SendMessage(b) PROVE Exists(a) /\ Backed(a, notice)'
  <2> DEFINE to(from) == IF from = "staff" THEN app[b].owner ELSE app[b].assignedTo
  <2>1. PICK from \in Direction, n \in Made(2) :
            /\ HasRoom(b) /\ Exists(b)
            /\ IF n = 2
               THEN /\ Audit(b, "message_sent", Null, from)
                    /\ Notify(b, to(from), "message")
               ELSE Quiet
            /\ UNCHANGED app
    BY <1>4 DEF SendMessage
  <2>2. n = 2
    BY <2>1 DEF Quiet
  <2>3. /\ a = b
        /\ notice = [to |-> to(from), subject |-> "message", at |-> Len(trail'[b])]
        /\ to(from) # Null
    BY <2>1, <2>2, NotifyAdds
  <2>4. /\ Len(trail'[b]) = Len(trail[b]) + 1
        /\ trail'[b][Len(trail'[b])] =
                [action |-> "message_sent", was |-> Null, is |-> from]
    BY <2>1, <2>2, AuditTyped, NullIsAuditValue DEF AuditAction
  <2>5. Len(trail'[b]) \in 1..Len(trail'[b])
    BY <2>4, LenInNat
  <2>6. from = "staff" => notice.to = app'[b].owner
    BY <2>1, <2>3
  <2>7. from = "applicant" => notice.to \in Officer
    BY <2>1, <2>3, RowsTyped
  <2>8. QED
    BY <2>1, <2>3, <2>4, <2>5, <2>6, <2>7 DEF Backed
<1>5. UNCHANGED inbox => FALSE
  OBVIOUS
<1>6. QED
  BY <1>1, <1>2, <1>3, <1>4, <1>5
     DEF Next, Handler, Create, Edit, Recommend, Override, AddEntry, Quiet, vars

\* Nobody is told of a case that does not exist yet.
NoticeInv ==
    /\ TypeOK
    /\ NoticesAreBacked
    /\ \A a \in App : ~Exists(a) => inbox[a] = {}

(***************************************************************************)
(* Wherever a handler is cut short, a notification is about the audit      *)
(* event written just before it, and that event stays as it was: nobody    *)
(* is told of something the trail does not record.                         *)
(***************************************************************************)
THEOREM NoticesBacked == Spec => []NoticesAreBacked
<1>1. Init => NoticeInv
  BY InitTyped DEF Init, NoticeInv, NoticesAreBacked
<1>2. NoticeInv /\ [Next]_vars => NoticeInv'
  <2> SUFFICES ASSUME NoticeInv, [Next]_vars PROVE NoticeInv'
    OBVIOUS
  <2>0. TypeOK /\ TypeOK'
    BY StepTyped DEF NoticeInv
  <2>1. \A a \in App : Grows(a) /\ OwnerKept(a)
    BY <2>0, RecordsKept
  <2>2. ASSUME NEW a \in App, NEW notice \in inbox'[a]
        PROVE  Exists(a) /\ Backed(a, notice)'
    <3>1. CASE notice \in inbox[a]
      <4>1. Exists(a) /\ Backed(a, notice)
        BY <3>1 DEF NoticeInv, NoticesAreBacked
      <4>2. QED
        BY <4>1, <2>0, <2>1, OldNoticeBacked
    <3>2. CASE notice \notin inbox[a]
      BY <3>2, <2>0, NewNoticeBacked
    <3>3. QED
      BY <3>1, <3>2
  <2>3. NoticesAreBacked'
    BY <2>2 DEF NoticesAreBacked
  <2>4. \A a \in App : ~Exists(a)' => inbox'[a] = {}
    BY <2>0, <2>1, <2>2 DEF OwnerKept, TypeOK
  <2>5. QED
    BY <2>0, <2>3, <2>4 DEF NoticeInv
<1>3. NoticeInv => NoticesAreBacked
  BY DEF NoticeInv
<1>4. QED
  BY <1>1, <1>2, <1>3, PTL DEF Spec

-----------------------------------------------------------------------------
(***************************************************************************)
(* A decision is left only by a submission, which keeps the recommendation *)
(* and the assignment and dates the case again unless it was cut short: no *)
(* staff transition and no form leads out of a decision.                   *)
(***************************************************************************)
THEOREM DecisionStands == Spec => DecisionStandsUntilResubmitted
<1> DEFINE Left(a) == /\ Exists(a) /\ app[a].status \in Decided
                      /\ app'[a].status # app[a].status
           Resubmitted(a) ==
                /\ app'[a].status = "submitted"
                /\ Interruptible \/ app'[a].submittedAt = today
                /\ rec'[a] = rec[a] /\ app'[a].assignedTo = app[a].assignedTo
<1>1. TypeOK /\ [Next]_vars => [\A a \in App : Left(a) => Resubmitted(a)]_vars
  <2> SUFFICES ASSUME TypeOK, Next, NEW a \in App, Left(a) PROVE Resubmitted(a)
    OBVIOUS
  <2>1. ASSUME NEW b \in App, Create(b) PROVE Resubmitted(a)
    BY <2>1 DEF Create, CreateRow, TypeOK, RecordsTypeOK
  <2>2. ASSUME NEW b \in App, Edit(b) PROVE Resubmitted(a)
    BY <2>2 DEF Edit, EditRow, Decided, TypeOK, RecordsTypeOK
  <2>3. ASSUME NEW b \in App, Submit(b) PROVE Resubmitted(a)
    <3>1. PICK n \in Made(3) : SubmitRow(b, n)
      BY <2>3 DEF Submit
    <3>2. PICK row \in AppRow :
                /\ app' = [app EXCEPT ![b] = row]
                /\ row.status = "submitted"
                /\ n >= 2 => row.submittedAt = today
                /\ row.assignedTo = app[b].assignedTo
      BY <3>1, SubmitWrites
    <3>3. Interruptible \/ n = 3
      BY DEF Made
    <3>4. QED
      BY <3>1, <3>2, <3>3 DEF SubmitRow, TypeOK, RecordsTypeOK
  <2>4. ASSUME NEW b \in App, ChangeStatus(b) PROVE Resubmitted(a)
    <3>1. PICK status \in Status : StatusRow(b, status)
      BY <2>4 DEF ChangeStatus
    <3>2. app[b].status \notin Decided
      BY <3>1 DEF StatusRow, ValidTransitions, Decided
    <3>3. app'[a] = app[a] \/ a = b
      BY <3>1 DEF StatusRow, TypeOK, RecordsTypeOK
    <3>4. QED
      BY <3>2, <3>3
  <2>5. ASSUME NEW b \in App, Assign(b) PROVE Resubmitted(a)
    <3>1. PICK officer \in Officer \cup {Null} : AssignRow(b, officer)
      BY <2>5 DEF Assign
    <3>2. QED
      BY <3>1, AssignWrites DEF TypeOK, RecordsTypeOK
  <2>6. ASSUME NEW b \in App, Recommend(b) \/ Override(b) PROVE Resubmitted(a)
    BY <2>6 DEF Recommend, RecommendRow, Override, OverrideRow
  <2>7. ASSUME NEW b \in App, AddEntry(b) \/ SendMessage(b) PROVE Resubmitted(a)
    BY <2>7 DEF AddEntry, SendMessage
  <2>8. CASE NewDay /\ Quiet
    BY <2>8 DEF NewDay
  <2>9. QED
    BY <2>1, <2>2, <2>3, <2>4, <2>5, <2>6, <2>7, <2>8 DEF Next, Handler
<1>2. QED
  BY <1>1, TypeCorrect, PTL DEF Spec, DecisionStandsUntilResubmitted

-----------------------------------------------------------------------------
(***************************************************************************)
(* What appending one event does to a trail that replays to a value: an    *)
(* event of another action changes nothing, a recorded one replays to its  *)
(* own value if it records the old one as previous, and an unrecorded one  *)
(* to any.                                                                 *)
(***************************************************************************)
LEMMA ReplaysAppend ==
    ASSUME NEW events \in Seq(AuditEvent), NEW e \in AuditEvent,
           NEW recorded, NEW unrecorded, NEW chained \in SUBSET recorded,
           NEW old, NEW new,
           Replays(events, recorded, unrecorded, chained, old),
           e.action \in recorded \ unrecorded => e.is = new,
           e.action \in chained => e.was = old,
           e.action \notin recorded \cup unrecorded => new = old
    PROVE  Replays(Append(events, e), recorded, unrecorded, chained, new)
<1> DEFINE longer == Append(events, e)
           n == Len(events)
           writes == recorded \cup unrecorded
<1>1. /\ longer \in Seq(AuditEvent) /\ Len(longer) = n + 1 /\ n \in Nat
      /\ longer[n + 1] = e
      /\ \A i \in 1..n : longer[i] = events[i]
  BY AppendProperties, LenProperties
<1>0. /\ \A i \in 1..n :
            IsLastOf(events, i, writes) /\ events[i].action \notin unrecorded =>
                events[i].is = old
      /\ \A i, j \in 1..n :
            (/\ IsNextOf(events, i, j, writes)
             /\ events[i].action \notin unrecorded /\ events[j].action \in chained) =>
                events[j].was = events[i].is
  BY DEF Replays
<1>5. /\ e.action \in writes /\ e.action \notin unrecorded => e.is = new
      /\ e.action \notin writes => new = old
  OBVIOUS
<1> HIDE DEF longer, n, writes
<1>2. ASSUME NEW i \in 1..n + 1, IsLastOf(longer, i, writes),
             longer[i].action \notin unrecorded
      PROVE  longer[i].is = new
  <2>1. CASE e.action \in writes
    <3>1. i = n + 1
      BY <1>1, <1>2, <2>1 DEF IsLastOf
    <3>2. QED
      BY <1>1, <1>2, <1>5, <2>1, <3>1
  <2>2. CASE e.action \notin writes
    <3>1. i \in 1..n
      BY <1>1, <1>2, <2>2 DEF IsLastOf
    <3>2. IsLastOf(events, i, writes)
      BY <1>1, <1>2, <3>1 DEF IsLastOf, n
    <3>3. QED
      BY <1>0, <1>1, <1>2, <1>5, <2>2, <3>1, <3>2
  <2>3. QED
    BY <2>1, <2>2
<1>3. ASSUME NEW i \in 1..n + 1, NEW j \in 1..n + 1,
             IsNextOf(longer, i, j, writes),
             longer[i].action \notin unrecorded, longer[j].action \in chained
      PROVE  longer[j].was = longer[i].is
  <2>1. i \in 1..n /\ j \in i + 1..n + 1
    BY <1>1, <1>3 DEF IsNextOf
  <2>2. CASE j = n + 1
    <3>1. IsLastOf(events, i, writes)
      BY <1>1, <1>3, <2>1, <2>2 DEF IsNextOf, IsLastOf, n
    <3>2. longer[i].is = old
      BY <1>0, <1>1, <1>3, <2>1, <3>1
    <3>3. QED
      BY <1>1, <1>3, <2>2, <3>2
  <2>3. CASE j # n + 1
    <3>1. j \in 1..n /\ longer[j] = events[j] /\ longer[i] = events[i]
      BY <1>1, <2>1, <2>3
    <3>2. IsNextOf(events, i, j, writes)
      BY <1>1, <1>3, <2>1, <3>1 DEF IsNextOf, n
    <3>3. QED
      BY <1>0, <1>3, <2>1, <3>1, <3>2
  <2>4. QED
    BY <2>2, <2>3
<1>4. QED
  BY <1>1, <1>2, <1>3 DEF Replays, longer, n, writes

LEMMA ReplaysEmpty ==
    ASSUME NEW recorded, NEW unrecorded, NEW chained, NEW current
    PROVE  Replays(<<>>, recorded, unrecorded, chained, current)
BY DEF Replays

\* The same, of the trail of a case that a handler audits.
LEMMA ReplaysAudit ==
    ASSUME TypeOK, NEW a \in App, NEW action \in AuditAction,
           NEW was \in AuditValue, NEW is \in AuditValue,
           Audit(a, action, was, is),
           NEW recorded, NEW unrecorded, NEW chained \in SUBSET recorded,
           NEW old, NEW new,
           Replays(trail[a], recorded, unrecorded, chained, old),
           action \in recorded \ unrecorded => is = new,
           action \in chained => was = old,
           action \notin recorded \cup unrecorded => new = old
    PROVE  Replays(trail'[a], recorded, unrecorded, chained, new)
<1> DEFINE e == [action |-> action, was |-> was, is |-> is]
<1>1. e \in AuditEvent /\ trail[a] \in Seq(AuditEvent)
  BY DEF AuditEvent, TypeOK
<1>2. trail'[a] = Append(trail[a], e)
  BY DEF Audit, TypeOK
<1>3. e.action = action /\ e.was = was /\ e.is = is
  OBVIOUS
<1> HIDE DEF e
<1>4. QED
  BY <1>1, <1>2, <1>3, ReplaysAppend

\* An application that does not exist yet has no trail.
ReplayInv ==
    /\ TypeOK
    /\ TrailReplays
    /\ \A a \in App : ~Exists(a) => trail[a] = <<>>

\* A handler that writes the row of a case and audits it.
LEMMA ReplayStep ==
    ASSUME ReplayInv, TypeOK', NEW a \in App, NEW row \in AppRow,
           app' = [app EXCEPT ![a] = row],
           NEW action \in AuditAction, NEW was \in AuditValue, NEW is \in AuditValue,
           Audit(a, action, was, is),
           action \in StatusActions \ Unrecorded("status") => is = row.status,
           action = "assigned" => is = row.assignedTo,
           ~Exists(a) => action = "created",
           Exists(a) =>
                /\ action \notin StatusActions \cup Unrecorded("status") =>
                        row.status = app[a].status
                /\ action = "status_changed" => was = app[a].status
                /\ action \notin {"assigned"} \cup Unrecorded("assignedTo") =>
                        row.assignedTo = app[a].assignedTo
                /\ action = "assigned" => was = app[a].assignedTo
    PROVE  ReplayInv'
<1>1. app'[a] = row /\ row # Null /\ \A b \in App \ {a} : app'[b] = app[b]
  BY NullAssumption DEF ReplayInv, TypeOK, RecordsTypeOK
<1>2. \A b \in App \ {a} : trail'[b] = trail[b]
  BY DEF ReplayInv, TypeOK, Audit
<1>3. Replays(trail'[a], StatusActions, Unrecorded("status"), {"status_changed"},
              row.status)
  <2>1. PICK old : /\ Replays(trail[a], StatusActions, Unrecorded("status"),
                              {"status_changed"}, old)
                   /\ action = "status_changed" => was = old
                   /\ action \notin StatusActions \cup Unrecorded("status") =>
                            row.status = old
    <3>1. CASE Exists(a)
      BY <3>1 DEF ReplayInv, TrailReplays
    <3>2. CASE ~Exists(a)
      <4>1. trail[a] = <<>> /\ action = "created"
        BY <3>2 DEF ReplayInv
      <4>2. Replays(trail[a], StatusActions, Unrecorded("status"), {"status_changed"},
                    Null)
        BY <4>1, ReplaysEmpty
      <4>3. QED
        BY <4>1, <4>2 DEF StatusActions
    <3>3. QED
      BY <3>1, <3>2
  <2>2. {"status_changed"} \in SUBSET StatusActions
    BY DEF StatusActions
  <2>3. QED
    BY <2>1, <2>2, ReplaysAudit DEF ReplayInv
<1>4. Replays(trail'[a], {"assigned"}, Unrecorded("assignedTo"), {"assigned"},
              row.assignedTo)
  <2>1. PICK old : /\ Replays(trail[a], {"assigned"}, Unrecorded("assignedTo"),
                              {"assigned"}, old)
                   /\ action = "assigned" => was = old
                   /\ action \notin {"assigned"} \cup Unrecorded("assignedTo") =>
                            row.assignedTo = old
    <3>1. CASE Exists(a)
      BY <3>1 DEF ReplayInv, TrailReplays
    <3>2. CASE ~Exists(a)
      <4>1. trail[a] = <<>> /\ action = "created"
        BY <3>2 DEF ReplayInv
      <4>2. Replays(trail[a], {"assigned"}, Unrecorded("assignedTo"), {"assigned"},
                    row.assignedTo)
        BY <4>1, ReplaysEmpty
      <4>3. QED
        BY <4>1, <4>2
    <3>3. QED
      BY <3>1, <3>2
  <2>2. {"assigned"} \in SUBSET {"assigned"}
    OBVIOUS
  <2>3. QED
    BY <2>1, <2>2, ReplaysAudit DEF ReplayInv
<1>5. TrailReplays'
  <2> SUFFICES ASSUME NEW b \in App, Exists(b)'
               PROVE  /\ Replays(trail'[b], StatusActions, Unrecorded("status"),
                                 {"status_changed"}, app'[b].status)
                      /\ Replays(trail'[b], {"assigned"}, Unrecorded("assignedTo"),
                                 {"assigned"}, app'[b].assignedTo)
    BY DEF TrailReplays
  <2>1. CASE b = a
    BY <1>1, <1>3, <1>4, <2>1
  <2>2. CASE b # a
    BY <1>1, <1>2, <2>2 DEF ReplayInv, TrailReplays, Exists
  <2>3. QED
    BY <2>1, <2>2
<1>6. \A b \in App : ~Exists(b)' => trail'[b] = <<>>
  BY <1>1, <1>2 DEF ReplayInv, Exists
<1>7. QED
  BY <1>5, <1>6 DEF ReplayInv

\* The status and the assignment a form leaves are those it found, or it may
\* carry them.
LEMMA BodyRecorded ==
    ASSUME NEW row, NEW default, BodyLeaves(row, default)
    PROVE  /\ "updated" \notin Unrecorded("status") => row.status = default.status
           /\ "updated" \notin Unrecorded("assignedTo") =>
                    row.assignedTo = default.assignedTo
           /\ "created" \notin Unrecorded("status") => row.status = default.status
<1>1. "status" \notin BodyCarries => row.status = default.status
  BY DEF BodyLeaves
<1>2. "assignedTo" \notin BodyCarries => row.assignedTo = default.assignedTo
  BY DEF BodyLeaves
<1>3. QED
  BY <1>1, <1>2 DEF Unrecorded

(***************************************************************************)
(* When no handler is cut short, the audit trail of a case replays to its  *)
(* status and its assignment, whatever columns forms carry: see            *)
(* TrailReplays for what a form that carries one does to the chain.        *)
(***************************************************************************)
THEOREM TrailsReplay ==
    ASSUME Interruptible = FALSE
    PROVE  Spec => []TrailReplays
<1>1. Init => ReplayInv
  <2> SUFFICES ASSUME Init PROVE ReplayInv
    OBVIOUS
  <2>1. \A a \in App : trail[a] = <<>>
    BY DEF Init
  <2>2. QED
    BY <2>1, InitTyped, ReplaysEmpty DEF ReplayInv, TrailReplays
<1>2. ReplayInv /\ [Next]_vars => ReplayInv'
  <2> SUFFICES ASSUME ReplayInv, [Next]_vars PROVE ReplayInv'
    OBVIOUS
  <2>1. TypeOK /\ TypeOK'
    BY StepTyped DEF ReplayInv
  <2>2. \A k : Made(k) = {k}
    BY DEF Made
  <2>3. ASSUME NEW a \in App, Create(a) PROVE ReplayInv'
    <3>1. PICK row \in AppRow : /\ CreateRow(a, row)
                                /\ Audit(a, "created", Null, "draft")
      BY <2>2, <2>3 DEF Create
    <3>2. "created" \notin Unrecorded("status") => row.status = "draft"
      <4>1. BodyLeaves(row, [status |-> "draft", submittedAt |-> Null, assignedTo |-> Null])
        BY <3>1 DEF CreateRow
      <4>2. QED
        BY <4>1, BodyRecorded
    <3>3. "created" \in AuditAction /\ "draft" \in AuditValue
      BY NullIsAuditValue DEF AuditAction, Status
    <3>4. QED
      BY <2>1, <3>1, <3>2, <3>3, NullIsAuditValue, ReplayStep DEF CreateRow
  <2>4. ASSUME NEW a \in App, Edit(a) PROVE ReplayInv'
    <3>1. PICK row \in AppRow : /\ EditRow(a, row)
                                /\ Audit(a, "updated", Null, Null)
      BY <2>2, <2>4 DEF Edit
    <3>2. /\ "updated" \notin Unrecorded("status") => row.status = app[a].status
          /\ "updated" \notin Unrecorded("assignedTo") =>
                    row.assignedTo = app[a].assignedTo
      BY <3>1, BodyRecorded DEF EditRow
    <3>3. "updated" \in AuditAction /\ "updated" \notin StatusActions
      BY DEF AuditAction, StatusActions
    <3>4. QED
      BY <2>1, <3>1, <3>2, <3>3, NullIsAuditValue, ReplayStep DEF EditRow
  <2>5. ASSUME NEW a \in App, Submit(a) PROVE ReplayInv'
    <3>1. /\ SubmitRow(a, 3)
          /\ Audit(a, "submitted", Null, "submitted")
      BY <2>2, <2>5 DEF Submit
    <3>2. PICK row \in AppRow :
                /\ app' = [app EXCEPT ![a] = row]
                /\ row.status = "submitted"
                /\ row.assignedTo = app[a].assignedTo
      BY <2>1, <3>1, SubmitWrites
    <3>3. "submitted" \in AuditAction /\ "submitted" \in AuditValue
      BY NullIsAuditValue DEF AuditAction, Status
    <3>4. "submitted" \in StatusActions
      BY DEF StatusActions
    <3>5. QED
      BY <2>1, <3>1, <3>2, <3>3, <3>4, NullIsAuditValue, ReplayStep DEF SubmitRow
  <2>6. ASSUME NEW a \in App, ChangeStatus(a) PROVE ReplayInv'
    <3>1. PICK status \in Status :
                /\ StatusRow(a, status)
                /\ Audit(a, "status_changed", app[a].status, status)
      BY <2>2, <2>6 DEF ChangeStatus
    <3>2. PICK row \in AppRow :
                /\ app' = [app EXCEPT ![a] = row]
                /\ row.status = status
                /\ row.assignedTo = app[a].assignedTo
      BY <2>1, <3>1, StatusWrites
    <3>3. /\ "status_changed" \in AuditAction /\ Exists(a)
          /\ status \in AuditValue /\ app[a].status \in AuditValue
      BY <2>1, <3>1, RowsTyped, NullIsAuditValue DEF AuditAction, StatusRow
    <3>4. "status_changed" \in StatusActions
      BY DEF StatusActions
    <3>5. QED
      BY <2>1, <3>1, <3>2, <3>3, <3>4, ReplayStep
  <2>7. ASSUME NEW a \in App, Assign(a) PROVE ReplayInv'
    <3>1. PICK officer \in Officer \cup {Null} :
                /\ AssignRow(a, officer)
                /\ Audit(a, "assigned", app[a].assignedTo, officer)
      BY <2>2, <2>7 DEF Assign
    <3>2. PICK row \in AppRow :
                /\ app' = [app EXCEPT ![a] = row]
                /\ row.assignedTo = officer
                /\ row.status = app[a].status
      BY <2>1, <3>1, AssignWrites
    <3>3. /\ "assigned" \in AuditAction /\ Exists(a)
          /\ officer \in AuditValue /\ app[a].assignedTo \in AuditValue
      BY <2>1, <3>1, RowsTyped DEF AuditAction, AuditValue, AssignRow
    <3>4. "assigned" \notin StatusActions
      BY DEF StatusActions
    <3>5. QED
      BY <2>1, <3>1, <3>2, <3>3, <3>4, ReplayStep
  <2>8. ASSUME UNCHANGED <<app, trail>> PROVE ReplayInv'
    BY <2>1, <2>8 DEF ReplayInv, TrailReplays, Exists
  <2>9. ASSUME NEW a \in App, Override(a) PROVE ReplayInv'
    <3>1. PICK product \in EngineProduct :
                /\ OverrideRow(a, product)
                /\ Audit(a, "overridden", rec[a].product, product)
      BY <2>2, <2>9 DEF Override
    <3>2. app[a] \in AppRow /\ app' = [app EXCEPT ![a] = app[a]] /\ Exists(a)
      BY <2>1, <3>1 DEF OverrideRow, Exists, TypeOK, RecordsTypeOK
    <3>3. rec[a].product \in AuditValue /\ product \in AuditValue
      BY <2>1, <3>1, RowsTyped, RecordsAssumption DEF OverrideRow, RecRow, AuditValue
    <3>4. "overridden" \in AuditAction /\ "overridden" \notin StatusActions
      BY DEF AuditAction, StatusActions
    <3>5. QED
      BY <2>1, <3>1, <3>2, <3>3, <3>4, ReplayStep
  <2>10. ASSUME NEW a \in App, NEW action \in {"note_added", "claim_submitted",
                                               "message_sent"},
                NEW is \in Direction \cup {Null}, Exists(a), UNCHANGED app,
                Audit(a, action, Null, is)
         PROVE  ReplayInv'
    <3>1. app[a] \in AppRow /\ app' = [app EXCEPT ![a] = app[a]]
      BY <2>1, <2>10 DEF Exists, TypeOK, RecordsTypeOK
    <3>2. action \in AuditAction /\ action \notin StatusActions \cup {"assigned"}
      BY DEF AuditAction, StatusActions
    <3>3. QED
      BY <2>1, <2>10, <3>1, <3>2, NullIsAuditValue, ReplayStep DEF StatusActions
  <2>11. ASSUME NEW a \in App, AddEntry(a) PROVE ReplayInv'
    BY <2>2, <2>10, <2>11 DEF AddEntry
  <2>12. ASSUME NEW a \in App, SendMessage(a) PROVE ReplayInv'
    BY <2>2, <2>10, <2>12 DEF SendMessage
  <2>13. QED
    BY <2>3, <2>4, <2>5, <2>6, <2>7, <2>8, <2>9, <2>11, <2>12
       DEF Next, Handler, Recommend, RecommendRow, Quiet, NewDay, vars
<1>3. ReplayInv => TrailReplays
  BY DEF ReplayInv
<1>4. QED
  BY <1>1, <1>2, <1>3, PTL DEF Spec

-----------------------------------------------------------------------------
DateInv == TypeOK /\ DatedWhenSubmitted

(***************************************************************************)
(* When no handler is cut short and no form carries case columns, a case   *)
(* has a submission date exactly when it is not a draft: the clocks of a   *)
(* case staff work on always have a day to run from.                       *)
(***************************************************************************)
THEOREM CasesAreDated ==
    ASSUME Interruptible = FALSE, BodyCarries = {}
    PROVE  Spec => []DatedWhenSubmitted
<1> DEFINE Dated(row) == row.status = "draft" <=> row.submittedAt = Null
<1>1. Init => DateInv
  <2> SUFFICES ASSUME Init PROVE DatedWhenSubmitted
    BY InitTyped DEF DateInv
  <2>1. PICK seed \in [App -> SeedCase] : app = [a \in App |-> seed[a].row]
    BY DEF Init, InitRecords
  <2>2. 0..BootDay \subseteq Day
    BY RecordsAssumption DEF Day
  <2>3. \A s \in SeedCase : s.row # Null => Dated(s.row)
    BY <2>2, NullAssumption DEF SeedCase, Decided
  <2>4. QED
    BY <2>1, <2>3 DEF DatedWhenSubmitted, Exists
<1>2. DateInv /\ [Next]_vars => DateInv'
  <2> SUFFICES ASSUME DateInv, [Next]_vars PROVE DatedWhenSubmitted'
    BY StepTyped DEF DateInv
  <2>1. TypeOK /\ today \in Day
    BY DEF DateInv, TypeOK, RecordsTypeOK
  <2>2. ASSUME NEW a \in App, NEW row, Dated(row), app' = [app EXCEPT ![a] = row]
        PROVE  DatedWhenSubmitted'
    BY <2>1, <2>2 DEF DateInv, DatedWhenSubmitted, Exists, TypeOK, RecordsTypeOK
  <2>3. ASSUME NEW a \in App, Create(a) PROVE DatedWhenSubmitted'
    <3>1. PICK row : CreateRow(a, row)
      BY <2>3 DEF Create
    <3>2. Dated(row)
      BY <3>1 DEF CreateRow, BodyLeaves
    <3>3. QED
      BY <2>2, <3>1, <3>2 DEF CreateRow
  <2>4. ASSUME NEW a \in App, Edit(a) PROVE DatedWhenSubmitted'
    <3>1. PICK row : EditRow(a, row)
      BY <2>4 DEF Edit
    <3>2. Dated(row)
      BY <3>1 DEF EditRow, BodyLeaves, DateInv, DatedWhenSubmitted
    <3>3. QED
      BY <2>2, <3>1, <3>2 DEF EditRow
  <2>5. ASSUME NEW a \in App, Submit(a) PROVE DatedWhenSubmitted'
    <3>1. SubmitRow(a, 3)
      BY <2>5 DEF Submit, Made
    <3>2. PICK row : /\ app' = [app EXCEPT ![a] = row]
                     /\ row.status = "submitted" /\ row.submittedAt = today
      BY <2>1, <3>1, SubmitWrites
    <3>3. Dated(row)
      BY <2>1, <3>2, NullAssumption
    <3>4. QED
      BY <2>2, <3>2, <3>3
  <2>6. ASSUME NEW a \in App, ChangeStatus(a) PROVE DatedWhenSubmitted'
    <3>1. PICK status \in Status : StatusRow(a, status)
      BY <2>6 DEF ChangeStatus
    <3>2. PICK row : /\ app' = [app EXCEPT ![a] = row]
                     /\ row.status = status
                     /\ row.submittedAt = app[a].submittedAt
      BY <2>1, <3>1, StatusWrites
    <3>3. app[a].status # "draft" /\ status # "draft" /\ Exists(a)
      BY <3>1 DEF StatusRow, ValidTransitions, Decided
    <3>4. Dated(row)
      BY <3>2, <3>3 DEF DateInv, DatedWhenSubmitted
    <3>5. QED
      BY <2>2, <3>2, <3>4
  <2>7. ASSUME NEW a \in App, Assign(a) PROVE DatedWhenSubmitted'
    <3>1. PICK officer \in Officer \cup {Null} : AssignRow(a, officer)
      BY <2>7 DEF Assign
    <3>2. PICK row : /\ app' = [app EXCEPT ![a] = row]
                     /\ row.status = app[a].status
                     /\ row.submittedAt = app[a].submittedAt
      BY <2>1, <3>1, AssignWrites
    <3>3. Dated(row)
      BY <3>1, <3>2 DEF AssignRow, DateInv, DatedWhenSubmitted
    <3>4. QED
      BY <2>2, <3>2, <3>3
  <2>8. ASSUME UNCHANGED app PROVE DatedWhenSubmitted'
    BY <2>8 DEF DateInv, DatedWhenSubmitted, Exists
  <2>9. QED
    BY <2>3, <2>4, <2>5, <2>6, <2>7, <2>8
       DEF Next, Handler, Recommend, RecommendRow, Override, OverrideRow,
           AddEntry, SendMessage, NewDay, vars
<1>3. DateInv => DatedWhenSubmitted
  BY DEF DateInv
<1>4. QED
  BY <1>1, <1>2, <1>3, PTL DEF Spec

-----------------------------------------------------------------------------
\* The last override on record chose a standing one over the engine's product.
Explained(a) ==
    rec[a] # Null /\ rec[a].override # Null =>
        \E i \in 1..Len(trail[a]) :
            /\ IsLastOf(trail[a], i, {"overridden"})
            /\ trail[a][i].is = rec[a].override
            /\ trail[a][i].was = rec[a].product

LEMMA ExplainedStays ==
    ASSUME TypeOK, NEW a \in App, HasRoom(a), Explained(a), rec'[a] = rec[a],
           NEW action \in AuditAction \ {"overridden"},
           NEW was \in AuditValue, NEW is \in AuditValue,
           Audit(a, action, was, is)
    PROVE  Explained(a)'
<1>1. /\ Len(trail'[a]) = Len(trail[a]) + 1 /\ Len(trail[a]) \in Nat
      /\ trail'[a][Len(trail'[a])].action # "overridden"
      /\ \A i \in 1..Len(trail[a]) : trail'[a][i] = trail[a][i]
  <2>1. /\ Len(trail'[a]) = Len(trail[a]) + 1
        /\ trail'[a][Len(trail'[a])] = [action |-> action, was |-> was, is |-> is]
        /\ \A i \in 1..Len(trail[a]) : trail'[a][i] = trail[a][i]
    BY AuditTyped
  <2>2. QED
    BY <2>1, LenInNat
<1>2. ASSUME NEW i \in 1..Len(trail[a]), IsLastOf(trail[a], i, {"overridden"})
      PROVE  IsLastOf(trail'[a], i, {"overridden"})
  BY <1>1, <1>2 DEF IsLastOf
<1>3. QED
  BY <1>1, <1>2 DEF Explained

ExplainInv ==
    /\ TypeOK
    /\ \A a \in App : Explained(a)

(***************************************************************************)
(* When no handler is cut short, a standing override is the last one the   *)
(* trail records, chosen over the product the recommendation still holds:  *)
(* a recommendation made again carries no earlier decision.                *)
(***************************************************************************)
THEOREM OverridesExplained ==
    ASSUME Interruptible = FALSE
    PROVE  Spec => []OverrideIsExplained
<1>1. Init => ExplainInv
  <2> SUFFICES ASSUME Init, NEW a \in App PROVE Explained(a)
    BY InitTyped DEF ExplainInv
  <2>1. PICK seed \in [App -> SeedCase] : rec = [b \in App |-> seed[b].rec]
    BY DEF Init, InitRecords
  <2>2. \A s \in SeedCase : s.rec = Null \/ s.rec.override = Null
    BY DEF SeedCase
  <2>3. QED
    BY <2>1, <2>2 DEF Explained
<1>2. ExplainInv /\ [Next]_vars => ExplainInv'
  <2> SUFFICES ASSUME ExplainInv, [Next]_vars, NEW b \in App PROVE Explained(b)'
    BY StepTyped DEF ExplainInv
  <2>1. TypeOK /\ Explained(b) /\ \A k : Made(k) = {k}
    BY DEF ExplainInv, Made
  <2>2. ASSUME rec'[b] = rec[b], trail'[b] = trail[b] PROVE Explained(b)'
    BY <2>1, <2>2 DEF Explained
  <2>3. ASSUME NEW a \in App, HasRoom(a), rec' = rec,
               NEW action \in AuditAction \ {"overridden"},
               NEW was \in AuditValue, NEW is \in AuditValue,
               Audit(a, action, was, is)
        PROVE  Explained(b)'
    <3>1. CASE a = b
      BY <2>1, <2>3, <3>1, ExplainedStays
    <3>2. CASE a # b
      BY <2>1, <2>2, <2>3, <3>2, AuditTyped
    <3>3. QED
      BY <3>1, <3>2
  <2>4. ASSUME NEW a \in App, Create(a) \/ Edit(a) PROVE Explained(b)'
    BY <2>1, <2>3, <2>4, NullIsAuditValue
       DEF Create, CreateRow, Edit, EditRow, AuditAction, Status
  <2>5. ASSUME NEW a \in App, Submit(a) PROVE Explained(b)'
    BY <2>1, <2>3, <2>5, NullIsAuditValue DEF Submit, SubmitRow, AuditAction, Status
  <2>6. ASSUME NEW a \in App, ChangeStatus(a) PROVE Explained(b)'
    <3>1. PICK status \in Status :
                /\ HasRoom(a) /\ StatusRow(a, status)
                /\ Audit(a, "status_changed", app[a].status, status)
      BY <2>1, <2>6 DEF ChangeStatus
    <3>2. app[a].status \in AuditValue /\ status \in AuditValue /\ rec' = rec
      BY <2>1, <3>1, RowsTyped, NullIsAuditValue DEF StatusRow
    <3>3. QED
      BY <2>3, <3>1, <3>2 DEF AuditAction
  <2>7. ASSUME NEW a \in App, Assign(a) PROVE Explained(b)'
    <3>1. PICK officer \in Officer \cup {Null} :
                /\ HasRoom(a) /\ AssignRow(a, officer)
                /\ Audit(a, "assigned", app[a].assignedTo, officer)
      BY <2>1, <2>7 DEF Assign
    <3>2. app[a].assignedTo \in AuditValue /\ officer \in AuditValue /\ rec' = rec
      BY <2>1, <3>1, RowsTyped DEF AssignRow, AuditValue
    <3>3. QED
      BY <2>3, <3>1, <3>2 DEF AuditAction
  <2>8. ASSUME NEW a \in App, Recommend(a) PROVE Explained(b)'
    <3>1. PICK product \in EngineProduct :
                rec' = [rec EXCEPT ![a] = [product |-> product, override |-> Null]]
      <4>1. PICK p \in EngineProduct : RecommendRow(a, p, 2)
        BY <2>1, <2>8 DEF Recommend
      <4>2. rec' = [rec EXCEPT ![a] = [product |-> p, override |-> Null]]
        BY <4>1 DEF RecommendRow
      <4>3. QED
        BY <4>2
    <3>2. UNCHANGED trail
      BY <2>8 DEF Recommend, Quiet
    <3>3. CASE a = b
      <4>1. rec'[b] = [product |-> product, override |-> Null]
        BY <2>1, <3>1, <3>3 DEF TypeOK, RecordsTypeOK
      <4>2. QED
        BY <4>1 DEF Explained
    <3>4. CASE a # b
      BY <2>1, <2>2, <3>1, <3>2, <3>4 DEF TypeOK, RecordsTypeOK
    <3>5. QED
      BY <3>3, <3>4
  <2>9. ASSUME NEW a \in App, Override(a) PROVE Explained(b)'
    <3>1. PICK product \in EngineProduct :
                /\ HasRoom(a) /\ OverrideRow(a, product)
                /\ Audit(a, "overridden", rec[a].product, product)
      BY <2>1, <2>9 DEF Override
    <3>2. rec[a] \in RecRow /\ product \in Product
      BY <2>1, <3>1, RowsTyped, RecordsAssumption DEF OverrideRow
    <3>3. rec[a].product \in AuditValue /\ product \in AuditValue
      BY <3>2 DEF RecRow, AuditValue
    <3>4. /\ Len(trail'[a]) = Len(trail[a]) + 1 /\ Len(trail[a]) \in Nat
          /\ trail'[a][Len(trail'[a])] =
                [action |-> "overridden", was |-> rec[a].product, is |-> product]
          /\ \A c \in App \ {a} : trail'[c] = trail[c]
      BY <2>1, <3>1, <3>3, AuditTyped, LenInNat DEF AuditAction
    <3>5. /\ rec'[a].override = product /\ rec'[a].product = rec[a].product
          /\ \A c \in App \ {a} : rec'[c] = rec[c]
      BY <2>1, <3>1, <3>2 DEF OverrideRow, TypeOK, RecordsTypeOK, RecRow
    <3>6. CASE a = b
      <4>1. IsLastOf(trail'[a], Len(trail'[a]), {"overridden"})
        BY <3>4 DEF IsLastOf
      <4>2. Len(trail'[a]) \in 1..Len(trail'[a])
        BY <3>4
      <4>3. QED
        BY <3>4, <3>5, <3>6, <4>1, <4>2 DEF Explained
    <3>7. CASE a # b
      BY <2>1, <2>2, <3>4, <3>5, <3>7
    <3>8. QED
      BY <3>6, <3>7
  <2>10. ASSUME NEW a \in App, AddEntry(a) \/ SendMessage(a) PROVE Explained(b)'
    BY <2>1, <2>3, <2>10, NullIsAuditValue DEF AddEntry, SendMessage, AuditAction
  <2>11. CASE (NewDay /\ Quiet) \/ UNCHANGED vars
    BY <2>2, <2>11 DEF NewDay, Quiet, vars
  <2>12. QED
    BY <2>4, <2>5, <2>6, <2>7, <2>8, <2>9, <2>10, <2>11 DEF Next, Handler
<1>3. ExplainInv => OverrideIsExplained
  BY DEF ExplainInv, Explained, OverrideIsExplained
<1>4. QED
  BY <1>1, <1>2, <1>3, PTL DEF Spec
=============================================================================
