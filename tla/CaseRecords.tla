---------------------------- MODULE CaseRecords ----------------------------
(***************************************************************************)
(* The rows of the tables `applications` and `recommendations`, and what   *)
(* each request of the API gateway and of the recommendation service does  *)
(* to them (services/api-gateway/src/routes/applications.ts,               *)
(* services/recommendation-service/src/routes/recommend.ts and their       *)
(* repositories).  The audit trail and the notifications the same handlers *)
(* write are added by CaseFile; the SLA worker, which reads these rows, is *)
(* added by SlaWorker.                                                     *)
(*                                                                         *)
(* Handlers are synchronous, so they are atomic for each other, but only   *)
(* the creation of an application runs in a transaction: every other       *)
(* handler commits one SQL statement at a time.  An exception or the end   *)
(* of the process between two statements leaves the first ones committed.  *)
(* Each operator below takes the number n of its writes that were made.    *)
(***************************************************************************)
EXTENDS SqlNull, Integers

CONSTANTS
    App,            \* application ids
    Owner,          \* debtors' user ids
    Officer,        \* active staff users a case may be assigned to
    Product,        \* product strings a recommendation row may hold
    EngineProduct,  \* those the rules engine writes
    SeedProduct,    \* those the demonstration data of a first boot holds
    BodyCarries,    \* case columns that form bodies carry
    Interruptible,  \* may a handler stop between two of its writes?
    BootDay,        \* the day of the first boot; seeded cases are older
    MaxDay          \* the last day modelled

ASSUME RecordsAssumption ==
    /\ EngineProduct \subseteq Product /\ SeedProduct \subseteq Product
    /\ Interruptible \in BOOLEAN
    /\ MaxDay \in Nat /\ BootDay \in 0..MaxDay

VARIABLES
    app,            \* applications, Null before it is created
    rec,            \* recommendations, at most one per application
    today           \* the server's date

recordVars == <<app, rec, today>>

Status == {"draft", "submitted", "under_review", "additional_info_required",
           "recommendation_issued", "approved", "rejected"}

OpenStatus == {"submitted", "under_review", "additional_info_required",
               "recommendation_issued"}

Decided == {"approved", "rejected"}

ASSUME BodyAssumption == BodyCarries \subseteq {"status", "submittedAt", "assignedTo"}

Day == 0..MaxDay

AppRow == [status : Status, submittedAt : Day \cup {Null},
           owner : Owner \cup {Null}, assignedTo : Officer \cup {Null}]

RecRow == [product : Product, override : Product \cup {Null}]

\* Null stands for the SQL NULL and for a row that is not there.
ASSUME NullAssumption ==
    Null \notin AppRow /\ Null \notin RecRow /\ Null \notin Day /\ Null \notin Status

RecordsTypeOK ==
    /\ app \in [App -> AppRow \cup {Null}]
    /\ rec \in [App -> RecRow \cup {Null}]
    /\ today \in Day

\* How many of a handler's k writes are made.
Made(k) == IF Interruptible THEN 1..k ELSE {k}

Exists(a) == app[a] # Null

-----------------------------------------------------------------------------
(***************************************************************************)
(* The first boot fills an empty database with demonstration cases; some   *)
(* open ones get a recommendation and the demonstration officer.  The rest *)
(* of App are created by requests.                                         *)
(***************************************************************************)
SeedCase ==
    LET Row(s, d, u) ==
            [status |-> s, submittedAt |-> d, owner |-> Null, assignedTo |-> u]
    IN  {[row |-> Null, rec |-> Null], [row |-> Row("draft", Null, Null), rec |-> Null]}
        \cup {[row |-> Row(s, d, Null), rec |-> Null] :
                s \in {"submitted", "under_review", "additional_info_required"}
                        \cup Decided,
                d \in 0..BootDay}
        \cup {[row |-> Row(s, d, u), rec |-> [product |-> p, override |-> Null]] :
                s \in {"submitted", "under_review", "additional_info_required"},
                d \in 0..BootDay, u \in Officer, p \in SeedProduct}

InitRecords ==
    /\ \E seed \in [App -> SeedCase] :
            /\ app = [a \in App |-> seed[a].row]
            /\ rec = [a \in App |-> seed[a].rec]
    /\ today = BootDay

-----------------------------------------------------------------------------
\* The columns of row that the body does not carry are those of another row.
BodyLeaves(row, default) ==
    \A column \in {"status", "submittedAt", "assignedTo"} \ BodyCarries :
        row[column] = default[column]

\* POST /applications: one transaction, owned by the caller when signed in.
CreateRow(a, row) ==
    /\ ~Exists(a)
    /\ BodyLeaves(row, [status |-> "draft", submittedAt |-> Null,
                        assignedTo |-> Null])
    /\ app' = [app EXCEPT ![a] = row]
    /\ UNCHANGED <<rec, today>>

\* A mutant: an edit is not refused once the case has been decided.
EditAnyRow(a, row) ==
    /\ Exists(a)
    /\ row.owner = app[a].owner /\ BodyLeaves(row, app[a])
    /\ app' = [app EXCEPT ![a] = row]
    /\ UNCHANGED <<rec, today>>

(***************************************************************************)
(* PUT /applications/:id: the body is handed to the repository whole, so   *)
(* any of the case columns it names is written with the form's data.       *)
(***************************************************************************)
EditRow(a, row) ==
    /\ Exists(a)
    /\ app[a].status \in {"draft", "additional_info_required"}
    /\ row.owner = app[a].owner /\ BodyLeaves(row, app[a])
    /\ app' = [app EXCEPT ![a] = row]
    /\ UNCHANGED <<rec, today>>

\* A mutant: the submission date is never written.
SubmitUndated(a, n) ==
    /\ Exists(a)
    /\ app' = [app EXCEPT ![a].status = "submitted"]
    /\ UNCHANGED <<rec, today>>

(***************************************************************************)
(* POST /applications/:id/submit: the status, then the submission date, in *)
(* two statements.  The handler does not look at the current status.       *)
(***************************************************************************)
SubmitRow(a, n) ==
    /\ Exists(a)
    /\ app' = [app EXCEPT ![a].status = "submitted",
                           ![a].submittedAt = IF n >= 2 THEN today ELSE @]
    /\ UNCHANGED <<rec, today>>

\* PATCH /applications/:id/status, by staff allowed to make the decision.
ValidTransitions(from) ==
    CASE from = "submitted" ->
            {"under_review", "additional_info_required", "rejected"}
      [] from = "under_review" ->
            {"recommendation_issued", "additional_info_required"} \cup Decided
      [] from = "additional_info_required" -> {"under_review", "submitted"}
      [] from = "recommendation_issued" ->
            {"additional_info_required"} \cup Decided
      [] OTHER -> {}

StatusRow(a, status) ==
    /\ Exists(a)
    /\ status \in ValidTransitions(app[a].status)
    /\ app' = [app EXCEPT ![a].status = status]
    /\ UNCHANGED <<rec, today>>

\* PATCH /applications/:id/assign: Null clears the assignment.
AssignRow(a, officer) ==
    /\ Exists(a)
    /\ app' = [app EXCEPT ![a].assignedTo = officer]
    /\ UNCHANGED <<rec, today>>

\* A mutant: an upsert, which leaves the override columns as they were.
RecommendUpsert(a, product, n) ==
    /\ Exists(a)
    /\ rec' = [rec EXCEPT ![a] =
                    IF rec[a] = Null THEN [product |-> product, override |-> Null]
                    ELSE [@ EXCEPT !.product = product]]
    /\ UNCHANGED <<app, today>>

(***************************************************************************)
(* POST /recommendations with an applicationId: the row is deleted, then   *)
(* inserted again with the engine's product and no override.  For an       *)
(* application that does not exist the insert fails and is swallowed.      *)
(***************************************************************************)
RecommendRow(a, product, n) ==
    /\ Exists(a)
    /\ rec' = [rec EXCEPT ![a] =
                    IF n >= 2 THEN [product |-> product, override |-> Null]
                    ELSE Null]
    /\ UNCHANGED <<app, today>>

\* PATCH /applications/:id/recommendation/override
OverrideRow(a, product) ==
    /\ Exists(a)
    /\ rec[a] # Null
    /\ rec' = [rec EXCEPT ![a].override = product]
    /\ UNCHANGED <<app, today>>

NewDay ==
    /\ today < MaxDay
    /\ today' = today + 1
    /\ UNCHANGED <<app, rec>>
=============================================================================
