-------------------------- MODULE ApplyClientProofs --------------------------
(***************************************************************************)
(* What the application form leaves behind, for any number of visits,      *)
(* losses, fields, applications and requests on their way: one draft a     *)
(* visit, a submitted form nobody edits, a submission that is not          *)
(* forgotten. The last theorem puts the form beside Sessions (MCAccess).   *)
(***************************************************************************)
EXTENDS MCAccess, SessionsProofs, FiniteSetTheorems

\* What has been begun: on the server, or its creation on its way.
Begun == {a \in App : Exists(a) \/ \E c \in creations : c.app = a}

\* What the visits, the losses and the creation in hand allow for.
Allowance == visits + lost + (IF created THEN 1 ELSE 0)

Shape ==
    /\ app = [a \in App |-> app[a]]
    /\ creations \subseteq Creation
    /\ created \in BOOLEAN
    /\ lost \in Nat /\ visits \in Nat

BegunInv ==
    IsFiniteSet(Begun) /\ Cardinality(Begun) \in Nat /\ Cardinality(Begun) <= Allowance

\* A step that begins nothing and takes no allowance away.
LEMMA NothingBegun ==
  ASSUME Shape, Shape', BegunInv, Begun' \subseteq Begun, Allowance' >= Allowance
  PROVE  BegunInv'
<1>1. IsFiniteSet(Begun') /\ Cardinality(Begun') <= Cardinality(Begun)
  BY FS_Subset DEF BegunInv
<1>2. Cardinality(Begun') \in Nat
  BY <1>1, FS_CardinalityType
<1>3. Allowance \in Nat /\ Allowance' \in Nat
  BY DEF Shape, Allowance
<1> QED BY <1>1, <1>2, <1>3 DEF BegunInv

\* ensureApplicationExists begins one application at most, and takes note of it.
LEMMA EnsureBegins ==
  ASSUME Shape, BegunInv, NEW id, EnsureApplicationExists(id), UNCHANGED app,
         visits' = visits, lost' \in Nat, lost' >= lost
  PROVE  Shape' /\ BegunInv'
<1>1. CASE UNCHANGED <<created, creations>>
  <2>1. Shape' /\ Begun' \subseteq Begun /\ Allowance' >= Allowance
    BY <1>1 DEF Shape, Begun, Exists, Allowance
  <2> QED BY <2>1, NothingBegun
<1>2. ASSUME NEW a \in App, ~created, a \notin Begun, created' = TRUE,
             creations' = creations \cup {[app |-> a, done |-> FALSE, by |-> "here"]}
      PROVE  Shape' /\ BegunInv'
  <2> DEFINE new == [app |-> a, done |-> FALSE, by |-> "here"]
  <2>a. new \in Creation /\ new.app = a
    BY DEF Creation
  <2>b. app' = app /\ created' \in BOOLEAN /\ creations' = creations \cup {new}
    BY <1>2
  <2>c. visits' \in Nat /\ lost' \in Nat
    BY DEF Shape
  <2> HIDE DEF new
  <2>1. Shape'
    BY <2>a, <2>b, <2>c DEF Shape
  <2>2. Begun' = Begun \cup {a}
    <3>1. ASSUME NEW b \in App
          PROVE  (\E c \in creations' : c.app = b) <=>
                     b = a \/ \E c \in creations : c.app = b
      BY <2>a, <2>b
    <3>2. Begun' = {b \in App : Exists(b) \/ \E c \in creations' : c.app = b}
      BY <2>b DEF Begun, Exists
    <3> QED BY <3>1, <3>2 DEF Begun
  <2>3. /\ IsFiniteSet(Begun \cup {a})
        /\ Cardinality(Begun \cup {a}) = Cardinality(Begun) + 1
    BY <1>2, FS_AddElement DEF BegunInv
  <2>4. Allowance' >= Allowance + 1
    BY <1>2 DEF Shape, Allowance
  <2>5. Allowance \in Nat /\ Allowance' \in Nat
    BY <2>1 DEF Shape, Allowance
  <2> QED BY <2>1, <2>2, <2>3, <2>4, <2>5 DEF BegunInv
<1>3. CASE ~created /\ id = Null
  <2>1. PICK a \in App :
            /\ ~Exists(a) /\ a \notin {c.app : c \in creations}
            /\ created' = TRUE
            /\ creations' = creations \cup {[app |-> a, done |-> FALSE, by |-> "here"]}
    BY <1>3 DEF EnsureApplicationExists
  <2>2. a \notin Begun
    BY <2>1 DEF Begun
  <2> QED BY <1>2, <1>3, <2>1, <2>2
<1> QED BY <1>1, <1>3 DEF EnsureApplicationExists

LEMMA CompleteBegins ==
  ASSUME Shape, BegunInv, NEW m, Complete(m), UNCHANGED app,
         visits' = visits, lost' \in Nat, lost' >= lost
  PROVE  Shape' /\ BegunInv'
<1>1. CASE EnsureApplicationExists(m.id)
  BY <1>1, EnsureBegins
<1>2. CASE UNCHANGED <<created, creations>>
  <2>1. Shape' /\ Begun' \subseteq Begun /\ Allowance' >= Allowance
    BY <1>2 DEF Shape, Begun, Exists, Allowance
  <2> QED BY <2>1, NothingBegun
<1> QED BY <1>1, <1>2 DEF Complete, UpdateField

\* What the server does with a request begins nothing.
LEMMA ServeBegins ==
  ASSUME Shape, BegunInv, Serve
  PROVE  Shape' /\ BegunInv'
<1> SUFFICES Shape' /\ Begun' \subseteq Begun /\ Allowance' >= Allowance
  BY NothingBegun
<1>1. ASSUME NEW c \in creations, CreationServed(c)
      PROVE  Shape' /\ Begun' \subseteq Begun /\ Allowance' >= Allowance
  <2>1. c \in Creation /\ [c EXCEPT !.done = TRUE] \in Creation
        /\ [c EXCEPT !.done = TRUE].app = c.app
    BY <1>1 DEF Shape, Creation
  <2>2. /\ \A d \in creations' : d \in Creation /\ \E e \in creations : e.app = d.app
        /\ UNCHANGED <<created, lost, visits>>
    BY <1>1, <2>1 DEF CreationServed, Answer, Shape, page, counts
  <2>3. /\ app' = [a \in App |-> app'[a]]
        /\ \A a \in App : a # c.app => app'[a] = app[a]
    BY <1>1, <2>1 DEF CreationServed, CreateRow, Shape, Creation
  <2>4. Shape'
    BY <2>2, <2>3 DEF Shape
  <2>5. Begun' \subseteq Begun
    BY <1>1, <2>2, <2>3 DEF Begun, Exists
  <2> QED BY <2>2, <2>4, <2>5 DEF Allowance, Shape
<1>2. ASSUME NEW s \in saves, SaveServed(s)
      PROVE  Shape' /\ Begun' \subseteq Begun /\ Allowance' >= Allowance
  <2>1. UNCHANGED <<creations, created, lost, visits>>
    BY <1>2 DEF SaveServed, page, counts
  <2>2. app' = [a \in App |-> app'[a]] /\ \A a \in App : Exists(a)' => Exists(a)
    BY <1>2 DEF SaveServed, EditRow, server, Exists, Shape
  <2> QED BY <2>1, <2>2 DEF Shape, Begun, Allowance
<1>3. ASSUME NEW m \in submits, SubmitServed(m)
      PROVE  Shape' /\ Begun' \subseteq Begun /\ Allowance' >= Allowance
  <2>1. UNCHANGED <<creations, created, lost, visits>>
    BY <1>3 DEF SubmitServed, page, counts
  <2>2. app' = [a \in App |-> app'[a]] /\ \A a \in App : Exists(a)' => Exists(a)
    BY <1>3 DEF SubmitServed, SubmitRow, Exists, Shape
  <2> QED BY <2>1, <2>2 DEF Shape, Begun, Allowance
<1> QED BY <1>1, <1>2, <1>3 DEF Serve

\* Nor does an answer, or its loss, unless it shows a page that goes on saving.
LEMMA ReceiveBegins ==
  ASSUME Shape, BegunInv, Receive
  PROVE  Shape' /\ BegunInv'
<1>1. ASSUME NEW c \in creations, CreationAnswered(c) \/ CreationLost(c)
      PROVE  Shape' /\ BegunInv'
  <2>1. /\ app' = app /\ creations' \subseteq creations
        /\ created' \in BOOLEAN /\ visits' = visits
        /\ \/ created' = created /\ lost' \in {lost, lost + 1}
           \/ lost' = lost + 1
    BY <1>1 DEF CreationAnswered, CreationLost, Lose, counts, server, Shape
  <2>2. Shape' /\ Begun' \subseteq Begun /\ Allowance' >= Allowance
    BY <2>1 DEF Shape, Begun, Exists, Allowance
  <2> QED BY <2>2, NothingBegun
<1>2. ASSUME NEW s \in saves, SaveLost(s) PROVE Shape' /\ BegunInv'
  <2>1. Shape' /\ Begun' \subseteq Begun /\ Allowance' >= Allowance
    BY <1>2 DEF SaveLost, Lose, server, page, Shape, Begun, Exists, Allowance
  <2> QED BY <2>1, NothingBegun
<1>3. ASSUME NEW m \in submits, SubmitAnswered(m) PROVE Shape' /\ BegunInv'
  <2>1. UNCHANGED <<app, lost, visits>> /\ Complete(m)
    BY <1>3 DEF SubmitAnswered, EndSubmit, server, counts
  <2> QED BY <2>1, CompleteBegins DEF Shape
<1>4. ASSUME NEW m \in submits, SubmitFailed(m) PROVE Shape' /\ BegunInv'
  <2>1. UNCHANGED <<app, visits>> /\ lost' = lost + 1 /\ Complete(m)
    BY <1>4 DEF SubmitFailed, EndSubmit, Lose, server
  <2> QED BY <2>1, CompleteBegins DEF Shape
<1>5. ASSUME NEW m \in submits, RetryAnswered(m) PROVE Shape' /\ BegunInv'
  <2>1. UNCHANGED <<app, lost, visits>> /\ Complete(m)
    BY <1>5 DEF RetryAnswered, server, counts
  <2> QED BY <2>1, CompleteBegins DEF Shape
<1>6. ASSUME NEW m \in submits, RetryLost(m) PROVE Shape' /\ BegunInv'
  <2>1. Shape' /\ Begun' \subseteq Begun /\ Allowance' >= Allowance
    BY <1>6 DEF RetryLost, Lose, server, page, Shape, Begun, Exists, Allowance
  <2> QED BY <2>1, NothingBegun
<1> QED BY <1>1, <1>2, <1>3, <1>4, <1>5, <1>6 DEF Receive

\* A visit gives back the creation it takes away.
LEMMA FreshBegins ==
  ASSUME Shape, BegunInv, Leave \/ Reload
  PROVE  Shape' /\ BegunInv'
<1>1. Fresh /\ UNCHANGED <<app, lost>>
  BY DEF Leave, Reload, server
<1>2. \A c \in Creation, by \in {"here", "left", "gone"} :
            [c EXCEPT !.by = by] \in Creation /\ [c EXCEPT !.by = by].app = c.app
  BY DEF Creation
<1>3. \A d \in creations' : d \in Creation /\ \E c \in creations : d.app = c.app
  <2>1. CASE Leave
    <3>1. ASSUME NEW c \in creations
          PROVE  c.by \in {"here", "left", "gone"}
      BY DEF Shape, Creation
    <3>2. ASSUME NEW d \in creations'
          PROVE  d \in Creation /\ \E c \in creations : d.app = c.app
      <4>1. PICK c \in creations :
                d = [c EXCEPT !.by = IF c.by = "here" THEN "left" ELSE c.by]
        BY <2>1, <3>2 DEF Leave
      <4>2. CASE c.by = "here"
        BY <1>2, <4>1, <4>2 DEF Shape
      <4>3. CASE c.by # "here"
        BY <1>2, <3>1, <4>1, <4>3 DEF Shape
      <4> QED BY <4>2, <4>3
    <3> QED BY <3>2
  <2>2. CASE Reload
    <3>1. ASSUME NEW d \in creations'
          PROVE  d \in Creation /\ \E c \in creations : d.app = c.app
      <4>1. PICK c \in creations : d = [c EXCEPT !.by = "gone"]
        BY <2>2, <3>1 DEF Reload
      <4> QED BY <1>2, <4>1 DEF Shape
    <3> QED BY <3>1
  <2> QED BY <2>1, <2>2
<1>4. Shape'
  <2>1. app' = app /\ created' = FALSE /\ lost' = lost /\ visits' = visits + 1
    BY <1>1 DEF Fresh
  <2>2. creations' \subseteq Creation /\ created' \in BOOLEAN
    BY <1>3, <2>1
  <2> QED BY <2>1, <2>2 DEF Shape
<1>5. Begun' \subseteq Begun
  BY <1>1, <1>3 DEF Begun, Exists
<1>6. Allowance' >= Allowance
  BY <1>1 DEF Fresh, Shape, Allowance
<1> QED BY <1>4, <1>5, <1>6, NothingBegun

(***************************************************************************)
(* Each visit leaves at most one application on the server, and one more   *)
(* for each answer that was lost: for any number of visits and losses.     *)
(***************************************************************************)
THEOREM DraftsAreBounded == ApplySpec => []OneDraftPerVisit
<1>1. ApplyInit => Shape /\ BegunInv
  <2> SUFFICES ASSUME ApplyInit PROVE Shape /\ BegunInv
    OBVIOUS
  <2>1. Begun = {}
    BY DEF ApplyInit, Begun, Exists
  <2>2. Shape
    BY DEF ApplyInit, Shape
  <2>3. Allowance = 0
    BY DEF ApplyInit, Allowance
  <2> QED BY <2>1, <2>2, <2>3, FS_EmptySet DEF BegunInv
<1>2. Shape /\ BegunInv /\ [ApplyNext]_applyVars => (Shape /\ BegunInv)'
  <2> SUFFICES ASSUME Shape, BegunInv, [ApplyNext]_applyVars
               PROVE  Shape' /\ BegunInv'
    OBVIOUS
  <2>1. ASSUME (\E f \in Field : Edit(f)) \/ PressOffline
        PROVE  Shape' /\ BegunInv'
    <3>1. EnsureApplicationExists(appId) /\ UNCHANGED <<app, lost, visits>>
      BY <2>1 DEF Edit, PressOffline, UpdateField, server, counts
    <3> QED BY <3>1, EnsureBegins DEF Shape
  <2>2. ASSUME UNCHANGED <<app, creations, created, lost, visits>>
        PROVE  Shape' /\ BegunInv'
    <3>1. Shape' /\ Begun' \subseteq Begun /\ Allowance' >= Allowance
      BY <2>2 DEF Shape, Begun, Exists, Allowance
    <3> QED BY <3>1, NothingBegun
  <2>3. ASSUME \/ FireTimer \/ Press \/ OpenPayment \/ ClosePayment
               \/ UNCHANGED applyVars
        PROVE  UNCHANGED <<app, creations, created, lost, visits>>
    BY <2>3 DEF FireTimer, Press, OpenPayment, ClosePayment, applyVars, server, page, network, counts
  <2> QED
    BY <2>1, <2>2, <2>3, ServeBegins, ReceiveBegins, FreshBegins DEF ApplyNext
<1>3. Shape /\ BegunInv => OneDraftPerVisit
  <2> SUFFICES ASSUME Shape, BegunInv PROVE OneDraftPerVisit
    OBVIOUS
  <2> DEFINE rows == {a \in App : Exists(a)}
  <2>1. rows \in SUBSET Begun
    BY DEF Begun
  <2>2. Cardinality(rows) <= Cardinality(Begun) /\ IsFiniteSet(rows)
    BY <2>1, FS_Subset DEF BegunInv
  <2>3. Cardinality(rows) \in Nat
    BY <2>2, FS_CardinalityType
  <2>4. Allowance <= 1 + visits + lost /\ Allowance \in Nat
    BY DEF Allowance, Shape
  <2> QED BY <2>2, <2>3, <2>4 DEF OneDraftPerVisit, BegunInv, Shape
<1> QED BY <1>1, <1>2, <1>3, PTL DEF ApplySpec

(***************************************************************************)
(* What the form holds on the server is written only by a save, which the  *)
(* gateway refuses once the application is submitted: whatever is on its   *)
(* way, in whatever order it arrives.                                      *)
(***************************************************************************)
THEOREM FormsAreFrozen == ApplySpec => SubmittedFormIsFrozen
<1> DEFINE DataShape == data = [a \in App |-> data[a]]
<1>1. ApplyInit => DataShape
  BY DEF ApplyInit
<1>2. DataShape /\ [ApplyNext]_applyVars =>
          /\ DataShape'
          /\ \A a \in App : (Exists(a) /\ app[a].status = "submitted") =>
                  data'[a] = data[a]
  <2> SUFFICES ASSUME DataShape, [ApplyNext]_applyVars
               PROVE  /\ DataShape'
                      /\ \A a \in App : (Exists(a) /\ app[a].status = "submitted") =>
                              data'[a] = data[a]
    OBVIOUS
  <2>1. CASE UNCHANGED data
    BY <2>1
  <2>2. ASSUME NEW s \in saves, SaveServed(s), ~UNCHANGED data
        PROVE  /\ DataShape'
               /\ \A a \in App : (Exists(a) /\ app[a].status = "submitted") =>
                       data'[a] = data[a]
    <3>1. EditRow(s.app, app[s.app]) /\ data' = [data EXCEPT ![s.app] = s.data]
      BY <2>2 DEF SaveServed, server
    <3>2. app[s.app].status # "submitted"
      BY <3>1 DEF EditRow
    <3> QED BY <3>1, <3>2
  <2>3. UNCHANGED data \/ \E s \in saves : SaveServed(s)
    BY DEF ApplyNext, Edit, FireTimer, Press, PressOffline, OpenPayment, ClosePayment,
           Leave, Reload, Serve, Receive, CreationServed, SubmitServed, CreationAnswered,
           CreationLost, SaveLost, SubmitAnswered, SubmitFailed, RetryAnswered,
           RetryLost, applyVars, server
  <2> QED BY <2>1, <2>2, <2>3
<1>3. ApplySpec => [](DataShape) /\ [][ApplyNext]_applyVars
  BY <1>1, <1>2, PTL DEF ApplySpec
<1> QED BY <1>2, <1>3, PTL DEF SubmittedFormIsFrozen

-----------------------------------------------------------------------------
(***************************************************************************)
(* Types.  Each part of the state has lemmas for the steps that change it. *)
(***************************************************************************)
USE RecordsAssumption, NullAssumption, ApplyAssumption

LEMMA RowsTyped ==
  ASSUME ApplyTypeOK,
         \/ UNCHANGED <<app, rec, today>>
         \/ \E c \in Creation : CreateRow(c.app, [status |-> "draft",
                submittedAt |-> Null, owner |-> Null, assignedTo |-> Null])
         \/ \E b \in App : EditRow(b, app[b])
         \/ \E b \in App : SubmitRow(b, 2)
  PROVE  RecordsTypeOK'
<1>1. CASE UNCHANGED <<app, rec, today>>
  BY <1>1 DEF ApplyTypeOK, RecordsTypeOK
<1>2. ASSUME NEW c \in Creation,
             CreateRow(c.app, [status |-> "draft", submittedAt |-> Null,
                               owner |-> Null, assignedTo |-> Null])
      PROVE  RecordsTypeOK'
  BY <1>2 DEF ApplyTypeOK, RecordsTypeOK, CreateRow, AppRow, Status
<1>3. ASSUME NEW b \in App, EditRow(b, app[b]) PROVE RecordsTypeOK'
  BY <1>3 DEF ApplyTypeOK, RecordsTypeOK, EditRow
<1>4. ASSUME NEW b \in App, SubmitRow(b, 2) PROVE RecordsTypeOK'
  <2>1. app[b] \in AppRow /\ today \in Day
    BY <1>4 DEF ApplyTypeOK, RecordsTypeOK, SubmitRow, Exists
  <2>2. [app[b] EXCEPT !.status = "submitted", !.submittedAt = today] \in AppRow
    BY <2>1 DEF AppRow, Status
  <2> QED BY <1>4, <2>2 DEF ApplyTypeOK, RecordsTypeOK, SubmitRow
<1> QED BY <1>1, <1>2, <1>3, <1>4

\* form, created, timer and creations.
PageTypeOK ==
    /\ form \in Form /\ created \in BOOLEAN
    /\ timer \in Timer \cup {Null}
    /\ creations \subseteq Creation

LEMMA UpdateTyped ==
  ASSUME ApplyTypeOK, NEW filled \in Form, NEW id \in App \cup {Null},
         NEW off \in BOOLEAN, UpdateField(filled, id, off)
  PROVE  PageTypeOK'
<1>1. created' \in BOOLEAN /\ creations' \subseteq Creation
  <2>1. CASE UNCHANGED <<created, creations>>
    BY <2>1 DEF ApplyTypeOK
  <2>2. ASSUME NEW a \in App, created' = TRUE,
               creations' = creations \cup {[app |-> a, done |-> FALSE, by |-> "here"]}
        PROVE  created' \in BOOLEAN /\ creations' \subseteq Creation
    <3>1. [app |-> a, done |-> FALSE, by |-> "here"] \in Creation
      BY DEF Creation
    <3> QED BY <2>2, <3>1 DEF ApplyTypeOK
  <2> QED BY <2>1, <2>2 DEF UpdateField, EnsureApplicationExists
<1>2. [data |-> filled, to |-> IF off THEN Null ELSE id] \in Timer
  BY DEF ApplyTypeOK, Timer
<1> QED BY <1>1, <1>2 DEF PageTypeOK, UpdateField

LEMMA CompleteTyped ==
  ASSUME ApplyTypeOK, NEW m \in Submission, Complete(m)
  PROVE  PageTypeOK' /\ completed' \in BOOLEAN
<1>1. CASE UpdateField(form, m.id, m.offline) /\ completed' = TRUE
  <2>1. m.id \in App \cup {Null} /\ m.offline \in BOOLEAN /\ form \in Form
    BY DEF Submission, ApplyTypeOK
  <2> QED BY <1>1, <2>1, UpdateTyped
<1>2. CASE UNCHANGED <<completed, form, created, timer, creations>>
  BY <1>2 DEF ApplyTypeOK, PageTypeOK
<1> QED BY <1>1, <1>2 DEF Complete

LEMMA EndTyped ==
  ASSUME ApplyTypeOK, NEW m \in Submission, EndSubmit(m)
  PROVE  PageTypeOK' /\ completed' \in BOOLEAN /\ submitting' \in BOOLEAN
BY CompleteTyped DEF EndSubmit, ApplyTypeOK

LEMMA SendTyped ==
  ASSUME ApplyTypeOK, NEW a \in App, NEW kind \in {"press", "retry"},
         NEW by \in {"section", "page"}, Send(a, kind, by)
  PROVE  submits' \subseteq Submission
<1>1. ASSUME NEW slot \in Slot
      PROVE  [slot |-> slot, app |-> a, done |-> FALSE, kind |-> kind, by |-> by,
              id |-> appId, offline |-> offline] \in Submission
  BY DEF ApplyTypeOK, Submission
<1> QED BY <1>1 DEF Send, ApplyTypeOK

LEMMA SentTyped ==
  ASSUME ApplyTypeOK
  PROVE  saves \cup Sent(timer) \subseteq Save
BY DEF ApplyTypeOK, Sent, Save, Timer

LEMMA RequestsTyped ==
  ASSUME ApplyTypeOK
  PROVE  /\ \A c \in creations : c \in Creation /\ c.app \in App
         /\ \A m \in submits : m \in Submission /\ m.app \in App
         /\ \A c \in creations : Answer(c) \subseteq Creation
         /\ \A m \in submits : Answer(m) \subseteq Submission
         /\ \A m \in submits : Unawaited(m) \subseteq Submission
<1>1. \A c \in creations : c \in Creation /\ c.app \in App
  BY DEF ApplyTypeOK, Creation
<1>2. \A m \in submits : m \in Submission /\ m.app \in App
  BY DEF ApplyTypeOK, Submission
<1>3. \A c \in creations : Answer(c) \subseteq Creation
  BY <1>1 DEF Answer, Creation
<1>4. \A m \in submits : Answer(m) \subseteq Submission
  BY <1>2 DEF Answer, Submission
<1>5. \A m \in submits : Unawaited(m) \subseteq Submission
  BY <1>2 DEF Unawaited, Submission
<1> QED BY <1>1, <1>2, <1>3, <1>4, <1>5

\* All but the page's own part, which the lemmas above type.
RestOfFormOK ==
    /\ data \in [App -> Form]
    /\ appId \in App \cup {Null} /\ offline \in BOOLEAN
    /\ saves \subseteq Save /\ submits \subseteq Submission
    /\ blob \in App \cup {Null}
    /\ paying \in BOOLEAN /\ submitting \in BOOLEAN /\ completed \in BOOLEAN
    /\ promised \subseteq App /\ aside \subseteq App
    /\ lost \in 0..MaxLost /\ visits \in 0..MaxVisits

LEMMA PartsTyped ==
  ASSUME RecordsTypeOK', PageTypeOK', RestOfFormOK'
  PROVE  ApplyTypeOK'
BY DEF ApplyTypeOK, PageTypeOK, RestOfFormOK

LEMMA WholeTyped ==
  ASSUME ApplyTypeOK
  PROVE  RecordsTypeOK /\ PageTypeOK /\ RestOfFormOK
BY DEF ApplyTypeOK, PageTypeOK, RestOfFormOK

LEMMA LoseTyped ==
  ASSUME ApplyTypeOK, Lose
  PROVE  lost' \in 0..MaxLost /\ visits' = visits
BY DEF ApplyTypeOK, Lose

\* Submissions that are told what has become of the page are typed still.
LEMMA TypedAnew ==
  ASSUME NEW m \in Submission, NEW by \in {"section", "page", "left", "gone"}
  PROVE  [m EXCEPT !.by = by] \in Submission
BY DEF Submission

LEMMA FormActionTyped ==
  ASSUME ApplyTypeOK,
         \/ (\E f \in Field : Edit(f)) \/ FireTimer \/ Press \/ PressOffline
         \/ OpenPayment \/ ClosePayment
  PROVE  ApplyTypeOK'
<1> SUFFICES PageTypeOK' /\ RestOfFormOK' /\ UNCHANGED <<app, rec, today>>
  BY RowsTyped, PartsTyped
<1> USE WholeTyped
<1>1. ASSUME NEW f \in Field, Edit(f)
      PROVE  PageTypeOK' /\ RestOfFormOK' /\ UNCHANGED <<app, rec, today>>
  <2>1. form \cup {f} \in Form
    BY DEF PageTypeOK, Form
  <2>2. PageTypeOK'
    BY <1>1, <2>1, UpdateTyped DEF Edit, RestOfFormOK
  <2> QED BY <1>1, <2>2 DEF Edit, RestOfFormOK, server, counts, section, pending
<1>2. ASSUME FireTimer
      PROVE  PageTypeOK' /\ RestOfFormOK' /\ UNCHANGED <<app, rec, today>>
  BY <1>2, SentTyped
  DEF FireTimer, PageTypeOK, RestOfFormOK, server, counts, section, pending
<1>3. ASSUME Press
      PROVE  PageTypeOK' /\ RestOfFormOK' /\ UNCHANGED <<app, rec, today>>
  <2>1. appId \in App /\ Send(appId, "press", "section")
    BY <1>3 DEF Press, RestOfFormOK
  <2>2. submits' \subseteq Submission
    BY <2>1, SendTyped
  <2> QED
    BY <1>3, <2>2 DEF Press, PageTypeOK, RestOfFormOK, server, counts, pending
<1>4. ASSUME PressOffline
      PROVE  PageTypeOK' /\ RestOfFormOK' /\ UNCHANGED <<app, rec, today>>
  <2>1. PageTypeOK'
    BY <1>4, UpdateTyped DEF PressOffline, PageTypeOK, RestOfFormOK
  <2> QED BY <1>4, <2>1 DEF PressOffline, RestOfFormOK, server, counts, pending
<1>5. ASSUME OpenPayment
      PROVE  PageTypeOK' /\ RestOfFormOK' /\ UNCHANGED <<app, rec, today>>
  <2>1. submits' \subseteq Submission
    <3>1. CASE blob = Null
      BY <1>5, <3>1 DEF OpenPayment, RestOfFormOK
    <3>2. CASE blob # Null
      <4>1. blob \in App /\ Send(blob, "retry", "page")
        BY <1>5, <3>2 DEF OpenPayment, RestOfFormOK
      <4> QED BY <4>1, SendTyped
    <3> QED BY <3>1, <3>2
  <2> QED
    BY <1>5, <2>1 DEF OpenPayment, PageTypeOK, RestOfFormOK, server, counts, pending
<1>6. ASSUME ClosePayment
      PROVE  PageTypeOK' /\ RestOfFormOK' /\ UNCHANGED <<app, rec, today>>
  <2>1. ASSUME NEW d \in submits' PROVE d \in Submission
    <3>1. PICK m \in submits :
            d = [m EXCEPT !.by = IF m.by = "section" THEN "page" ELSE m.by]
      BY <1>6, <2>1 DEF ClosePayment
    <3>2. m \in Submission
      BY DEF RestOfFormOK
    <3>3. (IF m.by = "section" THEN "page" ELSE m.by)
                \in {"section", "page", "left", "gone"}
      BY <3>2 DEF Submission
    <3> QED BY <3>1, <3>2, <3>3, TypedAnew
  <2> QED
    BY <1>6, <2>1 DEF ClosePayment, PageTypeOK, RestOfFormOK, server, counts, pending
<1> QED BY <1>1, <1>2, <1>3, <1>4, <1>5, <1>6

LEMMA ServeTyped ==
  ASSUME ApplyTypeOK, Serve
  PROVE  ApplyTypeOK'
<1> SUFFICES RecordsTypeOK' /\ PageTypeOK' /\ RestOfFormOK'
  BY PartsTyped
<1> USE WholeTyped, RequestsTyped
<1>1. ASSUME NEW c \in creations, CreationServed(c)
      PROVE  RecordsTypeOK' /\ PageTypeOK' /\ RestOfFormOK'
  <2>1. RecordsTypeOK'
    BY <1>1, RowsTyped DEF CreationServed
  <2>2. creations' \subseteq Creation
    BY <1>1 DEF CreationServed, PageTypeOK
  <2> QED
    BY <1>1, <2>1, <2>2 DEF CreationServed, PageTypeOK, RestOfFormOK, page, section,
                            counts, pending
<1>2. ASSUME NEW s \in saves, SaveServed(s)
      PROVE  RecordsTypeOK' /\ PageTypeOK' /\ RestOfFormOK'
  <2>1. s.app \in App /\ s.data \in Form
    BY DEF RestOfFormOK, Save
  <2>2. RecordsTypeOK' /\ data' \in [App -> Form]
    BY <1>2, <2>1, RowsTyped DEF SaveServed, RestOfFormOK, server
  <2> QED
    BY <1>2, <2>2 DEF SaveServed, PageTypeOK, RestOfFormOK, page, section, counts,
                            pending
<1>3. ASSUME NEW m \in submits, SubmitServed(m)
      PROVE  RecordsTypeOK' /\ PageTypeOK' /\ RestOfFormOK'
  <2>1. RecordsTypeOK'
    BY <1>3, RowsTyped DEF SubmitServed
  <2>2. submits' \subseteq Submission
    BY <1>3 DEF SubmitServed, RestOfFormOK
  <2> QED
    BY <1>3, <2>1, <2>2 DEF SubmitServed, PageTypeOK, RestOfFormOK, page, section,
                            counts, pending
<1> QED BY <1>1, <1>2, <1>3 DEF Serve

LEMMA ReceiveTyped ==
  ASSUME ApplyTypeOK, Receive
  PROVE  ApplyTypeOK'
<1> SUFFICES PageTypeOK' /\ RestOfFormOK' /\ UNCHANGED <<app, rec, today>>
  BY RowsTyped, PartsTyped
<1> USE WholeTyped, RequestsTyped
<1>1. ASSUME NEW c \in creations, CreationAnswered(c)
      PROVE  PageTypeOK' /\ RestOfFormOK' /\ UNCHANGED <<app, rec, today>>
  BY <1>1 DEF CreationAnswered, PageTypeOK, RestOfFormOK, server, counts, section, pending
<1>2. ASSUME NEW c \in creations, CreationLost(c)
      PROVE  PageTypeOK' /\ RestOfFormOK' /\ UNCHANGED <<app, rec, today>>
  BY <1>2, LoseTyped DEF CreationLost, PageTypeOK, RestOfFormOK, server, section, pending
<1>3. ASSUME NEW s \in saves, SaveLost(s)
      PROVE  PageTypeOK' /\ RestOfFormOK' /\ UNCHANGED <<app, rec, today>>
  BY <1>3, LoseTyped DEF SaveLost, PageTypeOK, RestOfFormOK, server, page, section, pending
<1>4. ASSUME NEW m \in submits, SubmitAnswered(m)
      PROVE  PageTypeOK' /\ RestOfFormOK' /\ UNCHANGED <<app, rec, today>>
  <2>1. PageTypeOK' /\ completed' \in BOOLEAN /\ submitting' \in BOOLEAN
    BY <1>4, EndTyped DEF SubmitAnswered
  <2> QED BY <1>4, <2>1 DEF SubmitAnswered, RestOfFormOK, server, counts, pending
<1>5. ASSUME NEW m \in submits, SubmitFailed(m)
      PROVE  PageTypeOK' /\ RestOfFormOK' /\ UNCHANGED <<app, rec, today>>
  <2>1. PageTypeOK' /\ completed' \in BOOLEAN /\ submitting' \in BOOLEAN
    BY <1>5, EndTyped DEF SubmitFailed
  <2>2. submits' \subseteq Submission
    BY <1>5 DEF SubmitFailed, RestOfFormOK
  <2>3. blob' \in App /\ promised' \subseteq App /\ aside' \subseteq App
    BY <1>5 DEF SubmitFailed, Promise, RestOfFormOK
  <2> QED BY <1>5, <2>1, <2>2, <2>3, LoseTyped DEF SubmitFailed, RestOfFormOK, server
<1>6. ASSUME NEW m \in submits, RetryAnswered(m)
      PROVE  PageTypeOK' /\ RestOfFormOK' /\ UNCHANGED <<app, rec, today>>
  <2>1. PageTypeOK' /\ completed' \in BOOLEAN
    BY <1>6, CompleteTyped DEF RetryAnswered
  <2> QED BY <1>6, <2>1 DEF RetryAnswered, RestOfFormOK, server, counts
<1>7. ASSUME NEW m \in submits, RetryLost(m)
      PROVE  PageTypeOK' /\ RestOfFormOK' /\ UNCHANGED <<app, rec, today>>
  BY <1>7, LoseTyped DEF RetryLost, PageTypeOK, RestOfFormOK, server, page, section, pending
<1> QED BY <1>1, <1>2, <1>3, <1>4, <1>5, <1>6, <1>7 DEF Receive

LEMMA FreshTyped ==
  ASSUME ApplyTypeOK, Leave \/ Reload
  PROVE  ApplyTypeOK'
<1> SUFFICES PageTypeOK' /\ RestOfFormOK' /\ UNCHANGED <<app, rec, today>>
  BY RowsTyped, PartsTyped
<1> USE WholeTyped, RequestsTyped
<1>1. \A by \in {"here", "left", "gone"}, c \in creations :
            [c EXCEPT !.by = by] \in Creation
  BY DEF Creation
<1>2. \A by \in {"section", "page", "left", "gone"}, m \in submits :
            [m EXCEPT !.by = by] \in Submission
  BY TypedAnew
<1>3. \A c \in creations : c.by \in {"here", "left", "gone"}
  BY DEF Creation
<1>4. ASSUME Fresh
      PROVE  /\ form' \in Form /\ created' \in BOOLEAN /\ timer' = Null
             /\ paying' = FALSE /\ submitting' = FALSE /\ completed' = FALSE
             /\ offline' \in BOOLEAN
             /\ visits' \in 0..MaxVisits
  <2>1. visits \in 0..MaxVisits /\ visits < MaxVisits /\ visits' = visits + 1
    BY <1>4 DEF Fresh, RestOfFormOK
  <2>2. visits' \in 0..MaxVisits
    BY <2>1
  <2> QED BY <1>4, <2>2 DEF Fresh, Form
<1>5. CASE Leave
  <2>1. ASSUME NEW d \in creations' PROVE d \in Creation
    <3>1. PICK c \in creations :
            d = [c EXCEPT !.by = IF c.by = "here" THEN "left" ELSE c.by]
      BY <1>5, <2>1 DEF Leave
    <3>2. (IF c.by = "here" THEN "left" ELSE c.by) \in {"here", "left", "gone"}
      BY <1>3
    <3> QED BY <1>1, <3>1, <3>2
  <2>2. ASSUME NEW d \in submits' PROVE d \in Submission
    <3>1. PICK m \in submits :
            d = [m EXCEPT !.by = IF m.by = "gone" THEN m.by ELSE "left"]
      BY <1>5, <2>2 DEF Leave
    <3>2. (IF m.by = "gone" THEN m.by ELSE "left") \in {"section", "page", "left", "gone"}
      OBVIOUS
    <3> QED BY <1>2, <3>1, <3>2
  <2>3. saves' \subseteq Save
    BY <1>5, SentTyped DEF Leave
  <2> QED
    BY <1>4, <1>5, <2>1, <2>2, <2>3
    DEF Leave, PageTypeOK, RestOfFormOK, server, pending
<1>6. CASE Reload
  <2>1. ASSUME NEW d \in creations' PROVE d \in Creation
    <3>1. PICK c \in creations : d = [c EXCEPT !.by = "gone"]
      BY <1>6, <2>1 DEF Reload
    <3> QED BY <1>1, <3>1
  <2>2. ASSUME NEW d \in submits' PROVE d \in Submission
    <3>1. PICK m \in submits : d = [m EXCEPT !.by = "gone"]
      BY <1>6, <2>2 DEF Reload
    <3> QED BY <1>2, <3>1
  <2> QED
    BY <1>4, <1>6, <2>1, <2>2
    DEF Reload, PageTypeOK, RestOfFormOK, server, pending
<1> QED BY <1>5, <1>6

LEMMA ApplyInitTyped ==
  ASSUME ApplyInit
  PROVE  ApplyTypeOK
<1>1. RecordsTypeOK
  BY DEF ApplyInit, RecordsTypeOK, Day
<1>2. PageTypeOK
  BY DEF ApplyInit, PageTypeOK, Form
<1>3. RestOfFormOK
  <2>1. data \in [App -> Form] /\ 0 \in 0..MaxLost /\ 0 \in 0..MaxVisits
    BY DEF ApplyInit, Form
  <2> QED BY <2>1 DEF ApplyInit, RestOfFormOK
<1> QED BY <1>1, <1>2, <1>3 DEF ApplyTypeOK, PageTypeOK, RestOfFormOK

LEMMA ApplyStepTyped ==
  ASSUME ApplyTypeOK, [ApplyNext]_applyVars
  PROVE  ApplyTypeOK'
<1>1. CASE UNCHANGED applyVars
  <2>1. RecordsTypeOK' /\ PageTypeOK' /\ RestOfFormOK'
    BY <1>1, WholeTyped
    DEF applyVars, server, page, section, network, counts, pending, RecordsTypeOK,
        PageTypeOK, RestOfFormOK
  <2> QED BY <2>1, PartsTyped
<1> QED
  BY <1>1, FormActionTyped, ServeTyped, ReceiveTyped, FreshTyped DEF ApplyNext

(***************************************************************************)
(* Every state of the form, of its requests on their way and of the        *)
(* applications they reach has its type, for any fields and bounds.        *)
(***************************************************************************)
THEOREM FormTypeCorrect == ApplySpec => []ApplyTypeOK
<1> QED BY ApplyInitTyped, ApplyStepTyped, PTL DEF ApplySpec

-----------------------------------------------------------------------------
(***************************************************************************)
(* The one place for a pending submission.  What a retry sends was put     *)
(* aside, and what was answered is submitted: so only the submission of    *)
(* another application, put aside as well, can take the place of one.      *)
(***************************************************************************)
RetriesWereAside ==
    \A m \in submits : m.kind = "retry" => m.app \in aside

AnsweredAreSubmitted == \A m \in submits : m.done => IsSubmitted(m.app)

PlaceInv ==
    /\ blob # Null => blob \in aside
    /\ RetriesWereAside
    /\ AnsweredAreSubmitted
    /\ PromiseIsKept

LEMMA SubmittedNow ==
  ASSUME ApplyTypeOK, NEW b \in App, SubmitRow(b, 2)
  PROVE  IsSubmitted(b)'
<1>1. app[b] \in AppRow /\ app \in [App -> AppRow \cup {Null}] /\ today \in Day
  BY DEF ApplyTypeOK, RecordsTypeOK, SubmitRow, Exists
<1>2. app'[b] = [app[b] EXCEPT !.status = "submitted", !.submittedAt = today]
  BY <1>1 DEF SubmitRow
<1>3. app'[b] \in AppRow /\ app'[b].status = "submitted"
  BY <1>1, <1>2 DEF AppRow, Status
<1> QED BY <1>3 DEF IsSubmitted, Exists

\* What the rows undergo: a submitted application stays one.
LEMMA SubmittedStays ==
  ASSUME ApplyTypeOK,
         \/ UNCHANGED app
         \/ \E c \in Creation : CreateRow(c.app, [status |-> "draft",
                submittedAt |-> Null, owner |-> Null, assignedTo |-> Null])
         \/ \E b \in App : EditRow(b, app[b])
         \/ \E b \in App : SubmitRow(b, 2)
  PROVE  \A a \in App : IsSubmitted(a) => IsSubmitted(a)'
<1> SUFFICES ASSUME NEW a \in App, IsSubmitted(a) PROVE IsSubmitted(a)'
  OBVIOUS
<1>1. app[a] \in AppRow /\ app[a].status = "submitted" /\ Exists(a)
      /\ app \in [App -> AppRow \cup {Null}]
  BY DEF ApplyTypeOK, RecordsTypeOK, IsSubmitted, Exists
<1>2. ASSUME app'[a] = app[a] PROVE IsSubmitted(a)'
  BY <1>1, <1>2 DEF IsSubmitted, Exists
<1>3. ASSUME NEW c \in Creation,
             CreateRow(c.app, [status |-> "draft", submittedAt |-> Null,
                               owner |-> Null, assignedTo |-> Null])
      PROVE  IsSubmitted(a)'
  BY <1>1, <1>2, <1>3 DEF CreateRow
<1>4. ASSUME NEW b \in App, EditRow(b, app[b]) PROVE IsSubmitted(a)'
  BY <1>1, <1>2, <1>4 DEF EditRow
<1>5. ASSUME NEW b \in App, SubmitRow(b, 2) PROVE IsSubmitted(a)'
  BY <1>1, <1>2, <1>5, SubmittedNow DEF SubmitRow, IsSubmitted, Exists
<1> QED BY <1>2, <1>3, <1>4, <1>5

\* A step that sends no new retry, gets no new answer and keeps the place.
LEMMA PlaceKept ==
  ASSUME ApplyTypeOK, PlaceInv,
         \A a \in App : IsSubmitted(a) => IsSubmitted(a)',
         \A m \in submits' :
            /\ m.kind = "retry" => m.app \in aside
            /\ m.done => IsSubmitted(m.app)',
         UNCHANGED pending
  PROVE  PlaceInv'
<1>1. RetriesWereAside' /\ AnsweredAreSubmitted'
  BY DEF RetriesWereAside, AnsweredAreSubmitted, pending
<1>2. PromiseIsKept'
  BY DEF PlaceInv, PromiseIsKept, pending, ApplyTypeOK
<1> QED BY <1>1, <1>2 DEF PlaceInv, pending

\* The submissions a step leaves as they are.
LEMMA OldSubmits ==
  ASSUME ApplyTypeOK, PlaceInv, NEW m \in submits,
         \A a \in App : IsSubmitted(a) => IsSubmitted(a)'
  PROVE  /\ m \in Submission /\ m.app \in App
         /\ m.kind = "retry" => m.app \in aside
         /\ m.done => IsSubmitted(m.app)'
<1>1. m \in Submission /\ m.app \in App
  BY DEF ApplyTypeOK, Submission
<1>2. m.kind = "retry" => m.app \in aside
  BY DEF PlaceInv, RetriesWereAside
<1>3. m.done => IsSubmitted(m.app)'
  BY <1>1 DEF PlaceInv, AnsweredAreSubmitted
<1> QED BY <1>1, <1>2, <1>3

\* What Leave, Reload and an answer change of a submission.
LEMMA NewStage ==
  ASSUME NEW m \in Submission
  PROVE  /\ \A by \in {"section", "page", "left", "gone"} :
                /\ [m EXCEPT !.by = by].app = m.app
                /\ [m EXCEPT !.by = by].kind = m.kind
                /\ [m EXCEPT !.by = by].done = m.done
         /\ [m EXCEPT !.done = TRUE].app = m.app
         /\ [m EXCEPT !.done = TRUE].kind = m.kind
         /\ m.by \in {"section", "page", "left", "gone"}
BY DEF Submission

\* A submission is sent for the application of the page, or tried again.
LEMMA PlaceSend ==
  ASSUME ApplyTypeOK, PlaceInv, NEW a, NEW kind, NEW by, Send(a, kind, by),
         kind = "retry" => a \in aside,
         NEW m \in submits',
         \A b \in App : IsSubmitted(b) => IsSubmitted(b)'
  PROVE  /\ m.kind = "retry" => m.app \in aside
         /\ m.done => IsSubmitted(m.app)'
<1>1. CASE m \in submits
  BY <1>1, OldSubmits
<1>2. CASE m.kind = kind /\ m.app = a /\ ~m.done
  BY <1>2
<1> QED BY <1>1, <1>2 DEF Send

LEMMA PlaceFormAction ==
  ASSUME ApplyTypeOK, PlaceInv,
         \/ (\E f \in Field : Edit(f)) \/ FireTimer \/ Press \/ PressOffline
         \/ OpenPayment \/ ClosePayment
  PROVE  PlaceInv'
<1>1. app' = app /\ UNCHANGED pending
  BY DEF Edit, FireTimer, Press, PressOffline, OpenPayment, ClosePayment, server
<1>2. \A a \in App : IsSubmitted(a) => IsSubmitted(a)'
  BY <1>1, SubmittedStays
<1>3. ASSUME NEW m \in submits'
      PROVE  /\ m.kind = "retry" => m.app \in aside
             /\ m.done => IsSubmitted(m.app)'
  <2>1. CASE m \in submits
    BY <1>2, <2>1, OldSubmits
  <2>2. CASE Press
    BY <1>2, <2>2, PlaceSend DEF Press
  <2>3. CASE OpenPayment /\ blob # Null
    <3>1. Send(blob, "retry", "page") /\ blob \in aside
      BY <2>3 DEF OpenPayment, PlaceInv
    <3> QED BY <1>2, <3>1, PlaceSend
  <2>4. CASE ClosePayment
    <3>1. PICK n \in submits :
            m = [n EXCEPT !.by = IF n.by = "section" THEN "page" ELSE n.by]
      BY <2>4, <1>3 DEF ClosePayment
    <3>2. n \in Submission
      BY RequestsTyped
    <3>3. (IF n.by = "section" THEN "page" ELSE n.by)
                \in {"section", "page", "left", "gone"}
      BY <3>2, NewStage
    <3>4. m.app = n.app /\ m.kind = n.kind /\ m.done = n.done
      BY <3>1, <3>2, <3>3, NewStage
    <3> QED BY <1>2, <3>4, OldSubmits
  <2> QED
    BY <2>1, <2>2, <2>3, <2>4 DEF Edit, FireTimer, PressOffline, OpenPayment
<1> QED BY <1>1, <1>2, <1>3, PlaceKept

LEMMA PlaceServe ==
  ASSUME ApplyTypeOK, PlaceInv, Serve
  PROVE  PlaceInv'
<1>1. \A a \in App : IsSubmitted(a) => IsSubmitted(a)'
  <2>1. ASSUME NEW c \in creations, CreationServed(c)
        PROVE  \A a \in App : IsSubmitted(a) => IsSubmitted(a)'
    BY <2>1, SubmittedStays, RequestsTyped DEF CreationServed
  <2>2. ASSUME NEW s \in saves, SaveServed(s)
        PROVE  \A a \in App : IsSubmitted(a) => IsSubmitted(a)'
    <3>1. s.app \in App
      BY DEF ApplyTypeOK, Save
    <3> QED BY <2>2, <3>1, SubmittedStays DEF SaveServed, server
  <2>3. ASSUME NEW m \in submits, SubmitServed(m)
        PROVE  \A a \in App : IsSubmitted(a) => IsSubmitted(a)'
    BY <2>3, SubmittedStays, RequestsTyped DEF SubmitServed
  <2> QED BY <2>1, <2>2, <2>3 DEF Serve
<1>2. ASSUME NEW m \in submits'
      PROVE  /\ m.kind = "retry" => m.app \in aside
             /\ m.done => IsSubmitted(m.app)'
  <2>1. CASE m \in submits
    BY <1>1, <2>1, OldSubmits
  <2>2. ASSUME NEW n \in submits, SubmitServed(n), m = [n EXCEPT !.done = TRUE]
        PROVE  /\ m.kind = "retry" => m.app \in aside
               /\ m.done => IsSubmitted(m.app)'
    <3>1. /\ n.app \in App /\ m.app = n.app /\ m.kind = n.kind
          /\ n.kind = "retry" => n.app \in aside
      BY <1>1, <2>2, OldSubmits, NewStage
    <3>2. IsSubmitted(n.app)'
      BY <2>2, <3>1, SubmittedNow DEF SubmitServed, IsSubmitted, Exists
    <3> QED BY <3>1, <3>2
  <2>3. \/ m \in submits
        \/ \E n \in submits : SubmitServed(n) /\ m = [n EXCEPT !.done = TRUE]
    BY DEF Serve, CreationServed, SaveServed, SubmitServed, Answer
  <2> QED BY <2>1, <2>2, <2>3
<1>3. UNCHANGED pending
  BY DEF Serve, CreationServed, SaveServed, SubmitServed
<1> QED BY <1>1, <1>2, <1>3, PlaceKept

LEMMA PlaceReceive ==
  ASSUME ApplyTypeOK, PlaceInv, Receive
  PROVE  PlaceInv'
<1>1. app' = app
  BY DEF Receive, CreationAnswered, CreationLost, SaveLost, SubmitAnswered,
         SubmitFailed, RetryAnswered, RetryLost, server
<1>2. \A a \in App : IsSubmitted(a) <=> IsSubmitted(a)'
  BY <1>1 DEF IsSubmitted, Exists
<1>3. ASSUME NEW m \in submits, submits' \in {submits \ {m}, Unawaited(m)}
      PROVE  \A n \in submits' :
                /\ n.kind = "retry" => n.app \in aside
                /\ n.done => IsSubmitted(n.app)'
  <2>1. ASSUME NEW n \in submits'
        PROVE  n \in submits \/ (n = [m EXCEPT !.by = "gone"] /\ ~m.done)
    BY <1>3 DEF Unawaited
  <2>2. ASSUME NEW n, n = [m EXCEPT !.by = "gone"], ~m.done
        PROVE  n.kind = m.kind /\ n.app = m.app /\ ~n.done
    <3>1. m \in Submission
      BY RequestsTyped
    <3> QED BY <2>2, <3>1, NewStage
  <2> QED BY <1>2, <2>1, <2>2, OldSubmits
<1>4. ASSUME NEW m \in submits, SubmitFailed(m) PROVE PlaceInv'
  <2>1. /\ submits' \in {submits \ {m}, Unawaited(m)}
        /\ blob' = m.app /\ aside' = aside \cup {m.app}
        /\ promised' \in {promised, promised \cup {m.app}}
    BY <1>4 DEF SubmitFailed, Promise
  <2>2. RetriesWereAside' /\ AnsweredAreSubmitted'
    BY <1>3, <2>1 DEF RetriesWereAside, AnsweredAreSubmitted
  <2>3. PromiseIsKept'
    BY <2>1 DEF PromiseIsKept
  <2> QED BY <2>1, <2>2, <2>3 DEF PlaceInv
<1>5. ASSUME NEW m \in submits, RetryAnswered(m) PROVE PlaceInv'
  <2>1. /\ m.done /\ m.kind = "retry" /\ submits' = submits \ {m}
        /\ blob' = Null /\ UNCHANGED <<promised, aside>>
    BY <1>5 DEF RetryAnswered
  <2>2. m.app \in aside /\ IsSubmitted(m.app)' /\ m.app \in App
    BY <1>2, <2>1, OldSubmits
  <2>3. RetriesWereAside' /\ AnsweredAreSubmitted'
    BY <1>3, <2>1 DEF RetriesWereAside, AnsweredAreSubmitted
  <2>4. \A a \in promised : IsSubmitted(a)' \/ \E b \in aside : b # a
    BY <2>2
  <2>5. PromiseIsKept'
    BY <2>1, <2>4 DEF PromiseIsKept
  <2> QED BY <2>1, <2>3, <2>5 DEF PlaceInv
<1>6. ASSUME NEW m \in submits, SubmitAnswered(m) \/ RetryLost(m) PROVE PlaceInv'
  <2>1. submits' = submits \ {m} /\ UNCHANGED pending
    BY <1>6 DEF SubmitAnswered, RetryLost
  <2> QED BY <1>2, <1>3, <2>1, PlaceKept
<1>7. ASSUME UNCHANGED <<submits, pending>> PROVE PlaceInv'
  BY <1>2, <1>7, OldSubmits, PlaceKept
<1>8. ASSUME \/ \E c \in creations : CreationAnswered(c) \/ CreationLost(c)
             \/ \E s \in saves : SaveLost(s)
      PROVE  UNCHANGED <<submits, pending>>
  BY <1>8 DEF CreationAnswered, CreationLost, SaveLost
<1> QED BY <1>4, <1>5, <1>6, <1>7, <1>8 DEF Receive

LEMMA PlaceFresh ==
  ASSUME ApplyTypeOK, PlaceInv, Leave \/ Reload
  PROVE  PlaceInv'
<1>1. app' = app /\ UNCHANGED pending
  BY DEF Leave, Reload, server
<1>2. \A a \in App : IsSubmitted(a) => IsSubmitted(a)'
  BY <1>1, SubmittedStays
<1>3. ASSUME NEW n \in submits'
      PROVE  /\ n.kind = "retry" => n.app \in aside
             /\ n.done => IsSubmitted(n.app)'
  <2>1. CASE Leave
    <3>1. PICK m \in submits :
            n = [m EXCEPT !.by = IF m.by = "gone" THEN m.by ELSE "left"]
      BY <2>1, <1>3 DEF Leave
    <3>2. m \in Submission
      BY RequestsTyped
    <3>3. n.app = m.app /\ n.kind = m.kind /\ n.done = m.done
      BY <3>1, <3>2, NewStage
    <3> QED BY <1>2, <3>3, OldSubmits
  <2>2. CASE Reload
    <3>1. PICK m \in submits : n = [m EXCEPT !.by = "gone"] /\ ~m.done
      BY <2>2, <1>3 DEF Reload
    <3>2. m \in Submission
      BY RequestsTyped
    <3>3. n.app = m.app /\ n.kind = m.kind /\ ~n.done
      BY <3>1, <3>2, NewStage
    <3> QED BY <1>2, <3>3, OldSubmits
  <2> QED BY <2>1, <2>2
<1> QED BY <1>1, <1>2, <1>3, PlaceKept

(***************************************************************************)
(* What the form promised an applicant whose submission failed is kept     *)
(* while no other application has been put aside: whatever is lost,        *)
(* however often the form is left or loaded again, and for any number of   *)
(* retries on their way.                                                   *)
(***************************************************************************)
THEOREM PromisesAreKept == ApplySpec => []PromiseIsKept
<1>1. ApplyInit => PlaceInv
  BY DEF ApplyInit, PlaceInv, RetriesWereAside, AnsweredAreSubmitted, PromiseIsKept
<1>2. ApplyTypeOK /\ PlaceInv /\ [ApplyNext]_applyVars => PlaceInv'
  <2> SUFFICES ASSUME ApplyTypeOK, PlaceInv, [ApplyNext]_applyVars PROVE PlaceInv'
    OBVIOUS
  <2>1. CASE UNCHANGED applyVars
    <3>1. app' = app /\ submits' = submits /\ UNCHANGED pending
      BY <2>1 DEF applyVars, server, network
    <3>2. \A a \in App : IsSubmitted(a) => IsSubmitted(a)'
      BY <3>1, SubmittedStays
    <3> QED BY <3>1, <3>2, OldSubmits, PlaceKept
  <2> QED
    BY <2>1, PlaceFormAction, PlaceServe, PlaceReceive, PlaceFresh DEF ApplyNext
<1>3. PlaceInv => PromiseIsKept
  BY DEF PlaceInv
<1> QED BY <1>1, <1>2, <1>3, FormTypeCorrect, PTL DEF ApplySpec

-----------------------------------------------------------------------------
(***************************************************************************)
(* Checked together, sessions and form are each what they are alone, so    *)
(* both keep their types.                                                  *)
(***************************************************************************)
THEOREM AccessTypeCorrect == AccessSpec => []AccessTypeOK
<1>1. AccessInit => SessionInit /\ ApplyInit
  BY DEF AccessInit
<1>2. [AccessNext]_<<focus, sessionVars, applyVars>> =>
          [SessionNext]_sessionVars /\ [ApplyNext]_applyVars
  BY DEF AccessNext
<1>3. AccessSpec => SessionSpec /\ ApplySpec
  BY <1>1, <1>2, PTL DEF AccessSpec, SessionSpec, ApplySpec
<1>4. AccessTypeOK <=> SessionTypeOK /\ ApplyTypeOK
  BY DEF AccessTypeOK
<1> QED BY <1>3, <1>4, TypeCorrect, FormTypeCorrect, PTL
=============================================================================
