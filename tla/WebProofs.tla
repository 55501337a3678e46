------------------------------ MODULE WebProofs ------------------------------
(***************************************************************************)
(* What a tab of the web application shows is true: the user of the stored *)
(* token (BrowserSession, which keeps to TokenLife), the decisions in an   *)
(* officer's queue and panel (StaffQueue), the state of the connection     *)
(* (ApiStatus). The three share no state; each has its own specification   *)
(* here.                                                                   *)
(***************************************************************************)
EXTENDS BrowserSession, StaffQueue, ApiStatus, TLAPS

-----------------------------------------------------------------------------
(***************************************************************************)
(* Browser session                                                         *)
(***************************************************************************)
LEMMA BrowserTypeStart == BrowserInit => BrowserTypeOK
BY DEF BrowserInit, BrowserTypeOK, TokenInit, Standing

LEMMA IssueTyped ==
    ASSUME BrowserTypeOK, NEW t \in Token, NEW u \in User, Issue(t, u)
    PROVE  /\ holder' \in [Token -> User \cup {Null}]
           /\ standing' \in [Token -> Standing]
           /\ holder'[t] = u
BY DEF BrowserTypeOK, Issue, Standing

LEMMA BrowserTypeStep ==
    ASSUME BrowserTypeOK, [BrowserNext]_browserVars
    PROVE  BrowserTypeOK'
<1> USE DEF BrowserTypeOK
<1>1. CASE UNCHANGED browserVars
  BY <1>1 DEF browserVars
<1>2. ASSUME NEW w \in Tab, Poll(w)
      PROVE  BrowserTypeOK'
  <2>1. AuthToken(w) \in Token
    BY <1>2 DEF Poll, AuthToken
  <2> QED BY <1>2, <2>1 DEF Poll
<1>3. ASSUME NEW w \in Tab, Accepted(w)
      PROVE  BrowserTypeOK'
  BY <1>3 DEF Accepted
<1>4. ASSUME NEW w \in Tab, Refused(w)
      PROVE  BrowserTypeOK'
  BY <1>4 DEF Refused, ClearClientSession
<1>5. ASSUME NEW w \in Tab, Navigate(w)
      PROVE  BrowserTypeOK'
  BY <1>5 DEF Navigate, PageLoad
<1>6. ASSUME NEW w \in Tab, LogOut(w)
      PROVE  BrowserTypeOK'
  BY <1>6 DEF LogOut, PageLoad
<1>7. ASSUME NEW w \in Tab, Dismiss(w)
      PROVE  BrowserTypeOK'
  BY <1>7 DEF Dismiss
<1>8. ASSUME NEW w \in Tab, SignOut(w)
      PROVE  BrowserTypeOK'
  BY <1>8 DEF SignOut, PageLoad
<1>9. ASSUME NEW w \in Tab, NEW t \in Token, NEW u \in User, NEW named \in BOOLEAN,
             CompleteSignIn(w, t, u, named)
      PROVE  BrowserTypeOK'
  BY <1>9, IssueTyped DEF CompleteSignIn
<1>10. ASSUME NEW t \in Token, TokenDies(t)
       PROVE  BrowserTypeOK'
  BY <1>10 DEF TokenDies, Die, Standing
<1> QED
  BY <1>1, <1>2, <1>3, <1>4, <1>5, <1>6, <1>7, <1>8, <1>9, <1>10
     DEF BrowserNext, Polling

\* The state of browser and tokens keeps its type.
THEOREM BrowserTypeCorrect == BrowserSpec => []BrowserTypeOK
<1>1. BrowserTypeOK /\ [BrowserNext]_browserVars => BrowserTypeOK'
  BY BrowserTypeStep
<1> QED BY <1>1, BrowserTypeStart, PTL DEF BrowserSpec

(***************************************************************************)
(* Each step writes token and user together, removes both, or leaves both: *)
(* only a sign-in writes them, and it writes the one the token is issued   *)
(* to.  A token is issued once, so its holder never changes.               *)
(***************************************************************************)
LEMMA IdentityStep ==
    ASSUME BrowserTypeOK, StoredIdentityMatches, [BrowserNext]_browserVars
    PROVE  StoredIdentityMatches'
<1> USE DEF StoredIdentityMatches
<1>1. ASSUME UNCHANGED <<holder, stored, storedUser>>
      PROVE  StoredIdentityMatches'
  BY <1>1
<1>2. ASSUME stored' = Null, storedUser' = Null
      PROVE  StoredIdentityMatches'
  BY <1>2
<1>3. ASSUME NEW w \in Tab, NEW t \in Token, NEW u \in User, NEW named \in BOOLEAN,
             CompleteSignIn(w, t, u, named)
      PROVE  StoredIdentityMatches'
  <2>1. holder'[t] = u /\ t # Null
    BY <1>3, IssueTyped, BrowserAssumption DEF CompleteSignIn
  <2> QED BY <1>3, <2>1 DEF CompleteSignIn
<1> QED
  BY <1>1, <1>2, <1>3
     DEF BrowserNext, Polling, Poll, Accepted, Refused, ClearClientSession, Navigate,
         LogOut, Dismiss, SignOut, TokenDies, Die, browserVars

(***************************************************************************)
(* The stored user is the one the stored token was issued to, for any      *)
(* number of tabs, users and tokens (apiClient.ts: completeSignIn,         *)
(* clearClientSession and logout).                                         *)
(***************************************************************************)
THEOREM IdentityMatches == BrowserSpec => []StoredIdentityMatches
<1>1. BrowserInit => StoredIdentityMatches
  BY DEF BrowserInit, StoredIdentityMatches
<1>2. BrowserTypeOK /\ StoredIdentityMatches /\ [BrowserNext]_browserVars
        => StoredIdentityMatches'
  BY IdentityStep
<1> QED BY <1>1, <1>2, BrowserTypeCorrect, PTL DEF BrowserSpec

(***************************************************************************)
(* The browser does to tokens only what TokenLife, which Sessions          *)
(* implements, lets happen to them: a sign-in issues one, a death ends     *)
(* one, and polls, refusals and signing out change none (logout and        *)
(* clearClientSession of apiClient.ts do not call the server).             *)
(***************************************************************************)
THEOREM BrowserKeepsTokenLife == BrowserSpec => TokenSpec
<1>1. BrowserInit => TokenInit
  BY DEF BrowserInit
<1>2. [BrowserNext]_browserVars => [TokenNext]_tokenVars
  <2> SUFFICES ASSUME [BrowserNext]_browserVars
               PROVE  TokenNext \/ UNCHANGED tokenVars
    OBVIOUS
  <2>1. ASSUME NEW w \in Tab, NEW t \in Token, NEW u \in User, NEW named \in BOOLEAN,
               CompleteSignIn(w, t, u, named)
        PROVE  TokenNext
    BY <2>1 DEF CompleteSignIn, TokenNext
  <2>2. ASSUME NEW t \in Token, TokenDies(t)
        PROVE  TokenNext
    BY <2>2 DEF TokenDies, TokenNext
  <2>3. ASSUME NEW w \in Tab,
               Polling(w) \/ Navigate(w) \/ LogOut(w) \/ Dismiss(w) \/ SignOut(w)
        PROVE  UNCHANGED tokenVars
    BY <2>3 DEF Polling, Poll, Accepted, Refused, Navigate, LogOut, Dismiss, SignOut,
                tokenVars
  <2>4. CASE UNCHANGED browserVars
    BY <2>4 DEF browserVars, tokenVars
  <2> QED BY <2>1, <2>2, <2>3, <2>4 DEF BrowserNext
<1> QED BY <1>1, <1>2, PTL DEF BrowserSpec, TokenSpec

-----------------------------------------------------------------------------
(***************************************************************************)
(* Officers' dashboard                                                     *)
(***************************************************************************)
LEMMA QueueTypeStart == QueueInit => QueueTypeOK
<1> SUFFICES ASSUME QueueInit PROVE QueueTypeOK
  OBVIOUS
<1>1. PICK seed \in [App -> SeedCase] :
        /\ app = [a \in App |-> seed[a].row]
        /\ rec = [a \in App |-> seed[a].rec]
  BY DEF QueueInit, InitRecords
<1>2. \A c \in SeedCase : c.row \in AppRow \cup {Null} /\ c.rec \in RecRow \cup {Null}
  BY RecordsAssumption DEF SeedCase, AppRow, RecRow, Status, Decided, Day
<1>3. RecordsTypeOK
  BY <1>1, <1>2, RecordsAssumption DEF QueueInit, InitRecords, RecordsTypeOK, Day
<1>4. Empty \in Queue
  BY DEF Empty, Queue
<1> QED
  BY <1>3, <1>4 DEF QueueInit, QueueTypeOK, QueuePoll

LEMMA TransitionsTyped == \A from : ValidTransitions(from) \subseteq Status
BY DEF ValidTransitions, Status, Decided

\* The two changes of a row that the dashboard meets, and what both remember.
LEMMA ChangeTyped ==
    ASSUME QueueTypeOK, NEW a \in App, Remember(a),
           SubmitRow(a, 2) \/ \E status \in Status : StatusRow(a, status)
    PROVE  /\ RecordsTypeOK'
           /\ decisions' \in [App -> SUBSET Decided]
           /\ \A b \in App : decisions[b] \subseteq decisions'[b]
           /\ \A b \in App \ {a} : app'[b] = app[b]
           /\ Exists(a)' /\ {app'[a].status} \cap Decided \subseteq decisions'[a]
<1> USE DEF QueueTypeOK, RecordsTypeOK
<1>1. app[a] \in AppRow
  BY DEF SubmitRow, StatusRow, Exists
<1>2. /\ app' \in [App -> AppRow \cup {Null}] /\ app'[a] \in AppRow
      /\ \A b \in App \ {a} : app'[b] = app[b]
  <2>1. CASE SubmitRow(a, 2)
    BY <1>1, <2>1 DEF SubmitRow, AppRow, Status
  <2>2. ASSUME NEW status \in Status, StatusRow(a, status)
        PROVE  <1>2!:
    BY <1>1, <2>2 DEF StatusRow, AppRow
  <2> QED BY <2>1, <2>2
<1>3. UNCHANGED <<rec, today>>
  BY DEF SubmitRow, StatusRow
<1>4. /\ decisions' \in [App -> SUBSET Decided]
      /\ \A b \in App : decisions[b] \subseteq decisions'[b]
      /\ {app'[a].status} \cap Decided \subseteq decisions'[a]
  BY DEF Remember
<1>5. Exists(a)'
  BY <1>2, NullAssumption DEF Exists
<1> QED BY <1>2, <1>3, <1>4, <1>5

\* Where a press is served, its row is one the officer chose.
LEMMA ServePressCases ==
    ASSUME QueueTypeOK, NEW d \in Desk, ServePress(d)
    PROVE  /\ press[d].row \in Row
           /\ press'[d] \in [row : Row, answer : {"none", "done", "failed"}]
           /\ press' \in [Desk -> [row : Row, answer : {"none", "done", "failed"}] \cup {Null}]
           /\ press'[d].row = press[d].row
           /\ \A e \in Desk \ {d} : press'[e] = press[e]
           /\ \/ /\ StatusRow(press[d].row.app, press[d].row.status)
                 /\ Remember(press[d].row.app)
              \/ press'[d].answer = "failed" /\ UNCHANGED records
           /\ UNCHANGED <<visible, interval, polls, queue, panel, alert>>
<1>1. press[d] \in [row : Row, answer : {"none", "done", "failed"}]
  BY DEF ServePress, QueueTypeOK
<1>2. PICK answer \in {"done", "failed"} :
        /\ press' = [press EXCEPT ![d].answer = answer]
        /\ \/ /\ StatusRow(press[d].row.app, press[d].row.status)
              /\ Remember(press[d].row.app)
           \/ answer = "failed" /\ UNCHANGED records
  BY DEF ServePress
<1>3. /\ press'[d] = [press[d] EXCEPT !.answer = answer]
      /\ \A e \in Desk \ {d} : press'[e] = press[e]
      /\ DOMAIN press' = Desk
  BY <1>2 DEF QueueTypeOK
<1> QED BY <1>1, <1>2, <1>3 DEF ServePress, QueueTypeOK

LEMMA QueueTypeStep ==
    ASSUME QueueTypeOK, [QueueNext]_queueVars
    PROVE  QueueTypeOK'
<1> USE DEF QueueTypeOK
<1>1. CASE UNCHANGED queueVars
  BY <1>1 DEF queueVars, RecordsTypeOK
<1>2. ASSUME NEW a \in App, WorkElsewhere(a)
      PROVE  QueueTypeOK'
  BY <1>2, ChangeTyped, QueueAssumption DEF WorkElsewhere
<1>3. ASSUME NEW d \in Desk, Fetch(d)
      PROVE  polls' \subseteq QueuePoll
  BY <1>3 DEF Fetch, QueuePoll
<1>4. ASSUME NEW d \in Desk, PollAgain(d) \/ Show(d) \/ Hide(d)
      PROVE  QueueTypeOK'
  BY <1>3, <1>4 DEF PollAgain, Show, Hide, records, RecordsTypeOK
<1>5. ASSUME NEW d \in Desk, ServePoll(d)
      PROVE  QueueTypeOK'
  <2>1. [a \in App |-> RowStatus(a)] \in Queue
    BY DEF RecordsTypeOK, RowStatus, Exists, AppRow, Queue
  <2> QED BY <1>5, <2>1 DEF ServePoll, QueuePoll, records, RecordsTypeOK
<1>6. ASSUME NEW d \in Desk, ReceiveRows(d) \/ LosePoll(d)
      PROVE  QueueTypeOK'
  BY <1>6 DEF ReceiveRows, LosePoll, QueuePoll, records, RecordsTypeOK
<1>7. ASSUME NEW d \in Desk, NEW a \in App, Select(d, a)
      PROVE  QueueTypeOK'
  BY <1>7 DEF Select, Queue, Row, records, RecordsTypeOK
<1>8. ASSUME NEW d \in Desk, NEW status \in Offered, Press(d, status)
      PROVE  QueueTypeOK'
  <2>1. status \in Status
    BY QueueAssumption DEF Status
  <2> QED BY <1>8, <2>1 DEF Press, Row, records, RecordsTypeOK
<1>9. ASSUME NEW d \in Desk, ServePress(d)
      PROVE  QueueTypeOK'
  <2>1. CASE UNCHANGED records
    BY <1>9, <2>1, ServePressCases DEF records, RecordsTypeOK
  <2>2. CASE /\ StatusRow(press[d].row.app, press[d].row.status)
             /\ Remember(press[d].row.app)
    BY <1>9, <2>2, ServePressCases, ChangeTyped DEF Row
  <2> QED BY <1>9, <2>1, <2>2, ServePressCases
<1>10. ASSUME NEW d \in Desk, ReceivePress(d)
       PROVE  QueueTypeOK'
  <2>1. press[d].row \in Row
    BY <1>10 DEF ReceivePress
  <2>2. UNCHANGED <<app, rec, today, decisions, visible, interval, polls, queue>>
    BY <1>10 DEF ReceivePress, records
  <2>3. panel' \in [Desk -> Row \cup {Null}]
    BY <1>10, <2>1 DEF ReceivePress
  <2>4. alert' \in [Desk -> Row \cup {Null}]
    BY <1>10, <2>1 DEF ReceivePress
  <2>5. press' \in [Desk -> [row : Row, answer : {"none", "done", "failed"}] \cup {Null}]
    BY <1>10 DEF ReceivePress
  <2> QED BY <2>2, <2>3, <2>4, <2>5 DEF RecordsTypeOK
<1> QED
  BY <1>1, <1>2, <1>4, <1>5, <1>6, <1>7, <1>8, <1>9, <1>10 DEF QueueNext

\* Queues, panels, presses and polls hold statuses of applications.
THEOREM QueueTypeCorrect == QueueSpec => []QueueTypeOK
<1>1. QueueTypeOK /\ [QueueNext]_queueVars => QueueTypeOK'
  BY QueueTypeStep
<1> QED BY <1>1, QueueTypeStart, PTL DEF QueueSpec

(***************************************************************************)
(* Everything that may become visible as a decision was one when it was    *)
(* read, and `decisions` only grows: the row a poll reads, the rows a      *)
(* reply carries, and a press whose change was made.                       *)
(***************************************************************************)
Backed(a, status) == status \in Decided => status \in decisions[a]

RowsBacked == \A a \in App : Backed(a, RowStatus(a))

RepliesBacked ==
    \A p \in polls : p.rows # Null => \A a \in App : Backed(a, p.rows[a])

PressesBacked ==
    \A d \in Desk :
        press[d] # Null /\ press[d].answer = "done" =>
            Backed(press[d].row.app, press[d].row.status)

QueueInv ==
    QueueTypeOK /\ RowsBacked /\ RepliesBacked /\ PressesBacked /\ NoPhantomDecision

\* Without a change of a row or of what is remembered, rows stay backed.
LEMMA RowsRest == RowsBacked /\ UNCHANGED records => RowsBacked'
BY DEF RowsBacked, Backed, RowStatus, Exists, records

\* A change of one row is remembered, and takes nothing back.
LEMMA ChangeBacked ==
    ASSUME QueueInv, NEW a \in App, Remember(a),
           SubmitRow(a, 2) \/ \E status \in Status : StatusRow(a, status)
    PROVE  /\ RowsBacked'
           /\ \A b \in App : \A s : Backed(b, s) => Backed(b, s)'
<1>1. /\ \A b \in App : decisions[b] \subseteq decisions'[b]
      /\ \A b \in App \ {a} : app'[b] = app[b]
      /\ Exists(a)' /\ {app'[a].status} \cap Decided \subseteq decisions'[a]
  BY ChangeTyped DEF QueueInv
<1>2. ASSUME NEW b \in App, NEW s, Backed(b, s)
      PROVE  Backed(b, s)'
  BY <1>1, <1>2 DEF Backed
<1>3. RowsBacked'
  <2>1. Backed(a, RowStatus(a))'
    BY <1>1 DEF Backed, RowStatus
  <2>2. ASSUME NEW b \in App \ {a}
        PROVE  Backed(b, RowStatus(b))'
    BY <1>1 DEF QueueInv, RowsBacked, Backed, RowStatus, Exists
  <2> QED BY <2>1, <2>2 DEF RowsBacked
<1> QED BY <1>2, <1>3

LEMMA QueueStart == QueueInit => QueueInv
<1> SUFFICES ASSUME QueueInit PROVE QueueInv
  OBVIOUS
<1>1. QueueTypeOK
  BY QueueTypeStart
<1>2. Null \notin Decided
  BY NullAssumption DEF Status, Decided
<1>3. RowsBacked
  BY <1>2 DEF QueueInit, RowsBacked, Backed, RowStatus
<1>4. RepliesBacked /\ PressesBacked
  BY DEF QueueInit, RepliesBacked, PressesBacked
<1>5. NoPhantomDecision
  BY <1>2 DEF QueueInit, NoPhantomDecision, Empty
<1> QED BY <1>1, <1>3, <1>4, <1>5 DEF QueueInv

LEMMA QueueStep == QueueInv /\ [QueueNext]_queueVars => QueueInv'
<1> SUFFICES ASSUME QueueInv, [QueueNext]_queueVars PROVE QueueInv'
  OBVIOUS
<1> USE DEF QueueInv
<1>0. QueueTypeOK'
  BY QueueTypeStep
<1> DEFINE Rest == RowsBacked' /\ RepliesBacked' /\ PressesBacked' /\ NoPhantomDecision'
<1>1. ASSUME UNCHANGED queueVars
      PROVE  Rest
  <2>1. UNCHANGED records /\ UNCHANGED <<polls, queue, panel, press>>
    BY <1>1 DEF queueVars, records
  <2>2. RepliesBacked' /\ PressesBacked'
    BY <2>1 DEF RepliesBacked, PressesBacked, Backed, records
  <2>3. NoPhantomDecision'
    BY <2>1 DEF NoPhantomDecision, records
  <2> QED BY <2>1, <2>2, <2>3, RowsRest
<1>2. ASSUME NEW a \in App, WorkElsewhere(a)
      PROVE  Rest
  <2>1. RowsBacked' /\ \A b \in App : \A s : Backed(b, s) => Backed(b, s)'
    BY <1>2, ChangeBacked, QueueAssumption DEF WorkElsewhere
  <2>2. UNCHANGED <<polls, queue, panel, press>>
    BY <1>2 DEF WorkElsewhere
  <2>3. RepliesBacked'
    BY <2>1, <2>2 DEF RepliesBacked
  <2>4. PressesBacked'
    BY <2>1, <2>2 DEF PressesBacked, QueueTypeOK, Row
  <2>5. NoPhantomDecision'
    BY <2>1, <2>2 DEF NoPhantomDecision, Backed, QueueTypeOK, Row
  <2> QED BY <2>1, <2>3, <2>4, <2>5
<1>3. ASSUME NEW d \in Desk,
             PollAgain(d) \/ Show(d) \/ Hide(d) \/ ServePoll(d) \/ ReceiveRows(d)
                \/ LosePoll(d)
      PROVE  Rest
  <2>1. UNCHANGED records /\ UNCHANGED <<panel, press>>
    BY <1>3 DEF PollAgain, Show, Hide, ServePoll, ReceiveRows, LosePoll, records
  <2>2. RowsBacked' /\ \A b \in App : \A s : Backed(b, s)' <=> Backed(b, s)
    BY <2>1, RowsRest DEF Backed, records
  <2>3. RepliesBacked'
    <3>1. ASSUME NEW p \in polls', p.rows # Null
          PROVE  p \in polls \/ p.rows = [a \in App |-> RowStatus(a)]
      BY <1>3, <3>1 DEF PollAgain, Show, Hide, ServePoll, ReceiveRows, LosePoll, Fetch
    <3> QED BY <2>2, <3>1 DEF RepliesBacked, RowsBacked
  <2>4. PressesBacked'
    BY <2>1 DEF PressesBacked, Backed, records
  <2>5. NoPhantomDecision'
    <3>1. \A e \in Desk :
            \/ queue'[e] = queue[e]
            \/ \E p \in polls : p.rows # Null /\ queue'[e] = p.rows
      BY <1>3
         DEF PollAgain, Show, Hide, ServePoll, ReceiveRows, LosePoll, QueueTypeOK
    <3>2. \A e \in Desk, a \in App :
            queue'[e][a] \in Decided => queue'[e][a] \in decisions[a]
      BY <3>1 DEF NoPhantomDecision, RepliesBacked, Backed
    <3> QED BY <2>1, <3>2 DEF NoPhantomDecision, records
  <2> QED BY <2>2, <2>3, <2>4, <2>5
<1>4. ASSUME NEW d \in Desk, NEW a \in App, Select(d, a)
      PROVE  Rest
  <2>1. UNCHANGED records /\ UNCHANGED <<polls, queue, press>>
    BY <1>4 DEF Select
  <2>2. RowsBacked' /\ RepliesBacked' /\ PressesBacked'
    BY <2>1, RowsRest DEF RepliesBacked, PressesBacked, Backed, records
  <2>3. NoPhantomDecision'
    <3>1. \A e \in Desk :
            \/ panel'[e] = panel[e] \/ panel'[e] = Null
            \/ panel'[e] = [app |-> a, status |-> queue[e][a]]
      BY <1>4 DEF Select, QueueTypeOK
    <3>2. UNCHANGED <<decisions, queue>>
      BY <2>1 DEF records
    <3>3. ASSUME NEW e \in Desk, panel'[e] # Null, panel'[e].status \in Decided
          PROVE  panel'[e].status \in decisions[panel'[e].app]
      <4>1. CASE panel'[e] = panel[e]
        BY <3>3, <4>1 DEF NoPhantomDecision
      <4>2. CASE panel'[e] = [app |-> a, status |-> queue[e][a]]
        BY <3>3, <4>2 DEF NoPhantomDecision
      <4> QED BY <3>1, <3>3, <4>1, <4>2
    <3> QED BY <3>2, <3>3 DEF NoPhantomDecision
  <2> QED BY <2>2, <2>3
<1>5. ASSUME NEW d \in Desk, NEW status \in Offered, Press(d, status)
      PROVE  Rest
  <2>1. UNCHANGED records /\ UNCHANGED <<polls, queue, panel>>
    BY <1>5 DEF Press
  <2>2. \A e \in Desk :
            press'[e] = press[e]
                \/ press'[e] = [row |-> [app |-> panel[d].app, status |-> status],
                                answer |-> "none"]
    BY <1>5 DEF Press, QueueTypeOK
  <2> QED
    BY <2>1, <2>2, RowsRest
       DEF RepliesBacked, PressesBacked, NoPhantomDecision, Backed, records
<1>6. ASSUME NEW d \in Desk, ServePress(d)
      PROVE  Rest
  <2>1. UNCHANGED <<polls, queue, panel>>
    BY <1>6 DEF ServePress
  <2>2. CASE press'[d].answer = "failed" /\ UNCHANGED records
    BY <1>6, <2>1, <2>2, ServePressCases, RowsRest
       DEF RepliesBacked, PressesBacked, NoPhantomDecision, Backed, records
  <2>3. CASE /\ StatusRow(press[d].row.app, press[d].row.status)
             /\ Remember(press[d].row.app)
    <3>1. PICK a \in App, s \in Status :
            /\ press[d].row.app = a /\ press[d].row.status = s
            /\ StatusRow(a, s) /\ Remember(a)
      BY <1>6, <2>3, ServePressCases DEF Row
    <3>2. RowsBacked' /\ \A b \in App : \A t : Backed(b, t) => Backed(b, t)'
      BY <3>1, ChangeBacked
    <3>3. app'[a].status = s
      BY <3>1 DEF StatusRow, Exists, QueueTypeOK, RecordsTypeOK, AppRow
    <3>4. Backed(a, s)'
      <4>1. {app'[a].status} \cap Decided \subseteq decisions'[a]
        BY <3>1, ChangeTyped
      <4> QED BY <3>3, <4>1 DEF Backed
    <3>5. RepliesBacked'
      BY <2>1, <3>2 DEF RepliesBacked
    <3>6. PressesBacked'
      BY <1>6, <3>1, <3>2, <3>4, ServePressCases DEF PressesBacked, QueueTypeOK, Row
    <3>7. NoPhantomDecision'
      BY <2>1, <3>2 DEF NoPhantomDecision, Backed, QueueTypeOK, Row
    <3> QED BY <3>2, <3>5, <3>6, <3>7
  <2> QED BY <1>6, <2>2, <2>3, ServePressCases
<1>7. ASSUME NEW d \in Desk, ReceivePress(d)
      PROVE  Rest
  <2>1. UNCHANGED records /\ UNCHANGED <<polls, queue>>
    BY <1>7 DEF ReceivePress
  <2>2. \A e \in Desk :
            /\ press'[e] = press[e] \/ press'[e] = Null
            /\ \/ panel'[e] = panel[e]
               \/ /\ press[e] # Null /\ press[e].answer = "done"
                  /\ panel'[e] = press[e].row
    BY <1>7 DEF ReceivePress, QueueTypeOK
  <2>3. PressesBacked'
    BY <2>1, <2>2 DEF PressesBacked, Backed, records
  <2>4. NoPhantomDecision'
    BY <2>1, <2>2 DEF NoPhantomDecision, PressesBacked, Backed, records
  <2> QED
    BY <2>1, <2>3, <2>4, RowsRest DEF RepliesBacked, Backed, records
<1> QED
  BY <1>0, <1>1, <1>2, <1>3, <1>4, <1>5, <1>6, <1>7 DEF QueueNext

(***************************************************************************)
(* A decision a panel or a queue holds was made, with any number of        *)
(* officers, cases and overlapping polls (dashboard/page.tsx: fetchApps    *)
(* and the panel's buttons).                                               *)
(***************************************************************************)
THEOREM DecisionsAreReal == QueueSpec => []NoPhantomDecision
<1>1. QueueInv => NoPhantomDecision
  BY DEF QueueInv
<1> QED BY <1>1, QueueStart, QueueStep, PTL DEF QueueSpec

-----------------------------------------------------------------------------
(***************************************************************************)
(* Connection status                                                       *)
(***************************************************************************)
LEMMA DelayBounded == \A n \in 0..MaxFailures : DelayFor(n) \in 1..MaxDelay
<1> SUFFICES ASSUME NEW n \in 0..MaxFailures PROVE DelayFor(n) \in 1..MaxDelay
  OBVIOUS
<1>1. MaxDelay \in Nat \ {0}
  BY StatusAssumption
<1>2. Least(n, 4) \in 0..4
  BY DEF Least, MaxFailures
<1>3. 2 ^ Least(n, 4) \in Nat \ {0}
  <2>1. 2 ^ 0 = 1 /\ 2 ^ 1 = 2 /\ 2 ^ 2 = 4 /\ 2 ^ 3 = 8 /\ 2 ^ 4 = 16
    OBVIOUS
  <2>2. Least(n, 4) \in {0, 1, 2, 3, 4}
    BY <1>2
  <2>3. ASSUME NEW k \in {0, 1, 2, 3, 4}
        PROVE  2 ^ k \in Nat \ {0}
    <3>1. 2 ^ k = 2 ^ 0 \/ 2 ^ k = 2 ^ 1 \/ 2 ^ k = 2 ^ 2 \/ 2 ^ k = 2 ^ 3
            \/ 2 ^ k = 2 ^ 4
      OBVIOUS
    <3>2. 2 ^ k \in {1, 2, 4, 8, 16}
      BY <2>1, <3>1, Zenon
    <3> QED BY <3>2
  <2> QED BY <2>2, <2>3
<1> QED BY <1>1, <1>3 DEF DelayFor, Least

LEMMA StatusTypeStart == StatusInit => StatusTypeOK
<1> SUFFICES ASSUME StatusInit PROVE StatusTypeOK
  OBVIOUS
<1>1. timer \in Nat /\ failCount \in 0..MaxFailures /\ steady \in 0..(MaxDelay + 1)
  BY StatusAssumption DEF StatusInit, MaxFailures
<1>2. responseTimes \in Seq(Elapsed) /\ Len(responseTimes) <= Window
  BY StatusAssumption DEF StatusInit
<1> QED BY <1>1, <1>2 DEF StatusInit, StatusTypeOK

\* The response times kept are as many as the window holds.
LEMMA TimesKept ==
    ASSUME NEW s \in Seq(Elapsed), Len(s) <= Window, NEW e \in Elapsed
    PROVE  LET times == Append(s, e)
               kept  == IF Len(times) > Window THEN Tail(times) ELSE times
           IN  kept \in Seq(Elapsed) /\ Len(kept) <= Window
BY StatusAssumption

LEMMA StatusTypeStep ==
    ASSUME StatusTypeOK, [StatusNext]_statusVars
    PROVE  StatusTypeOK'
<1> USE StatusAssumption DEF StatusTypeOK
<1>1. CASE UNCHANGED statusVars
  BY <1>1 DEF statusVars
<1>2. CASE Run
  BY <1>2, DelayBounded DEF Run, world, shownStatus
<1>3. CASE GoAway
  <2>1. steady' \in 0..(MaxDelay + 1)
    BY <1>3 DEF GoAway
  <2>2. inView' \in BOOLEAN /\ probe' \in [Probe -> {"idle", "sent", "ok", "unwell", "failed"}]
    BY <1>3 DEF GoAway
  <2> QED BY <1>3, <2>1, <2>2 DEF GoAway, shownStatus
<1>4. CASE ComeBack
  <2>1. steady' \in 0..(MaxDelay + 1)
    BY <1>4 DEF ComeBack
  <2>2. inView' \in BOOLEAN /\ probe' \in [Probe -> {"idle", "sent", "ok", "unwell", "failed"}]
    BY <1>4 DEF ComeBack
  <2> QED BY <1>4, <2>1, <2>2 DEF ComeBack, shownStatus
<1>5. CASE Turn
  BY <1>5 DEF Turn, shownStatus
<1>6. CASE HalfMinute
  BY <1>6 DEF HalfMinute, shownStatus, Least
<1>7. ASSUME NEW p \in Probe, GetAnswer(p)
      PROVE  StatusTypeOK'
  BY <1>7 DEF GetAnswer, world, shownStatus
<1>8. ASSUME NEW p \in Probe, Fail(p)
      PROVE  StatusTypeOK'
  <2>1. failCount' \in 0..MaxFailures
    BY <1>8 DEF Fail, Least, MaxFailures
  <2>2. timer' \in Nat
    BY <1>8, <2>1, DelayBounded DEF Fail, ScheduleNext
  <2> QED BY <1>8, <2>1, <2>2 DEF Fail, world
<1>9. ASSUME NEW p \in Probe, NEW elapsed \in Elapsed, Succeed(p, elapsed)
      PROVE  StatusTypeOK'
  <2>1. failCount' \in 0..MaxFailures
    BY <1>9 DEF Succeed, MaxFailures
  <2>2. timer' \in Nat
    BY <1>9, <2>1, DelayBounded DEF Succeed, ScheduleNext
  <2>3. responseTimes' \in Seq(Elapsed) /\ Len(responseTimes') <= Window
    BY <1>9, TimesKept DEF Succeed
  <2>4. isSlow' \in BOOLEAN
    BY <1>9 DEF Succeed
  <2> QED BY <1>9, <2>1, <2>2, <2>3, <2>4 DEF Succeed, world
<1> QED
  BY <1>1, <1>2, <1>3, <1>4, <1>5, <1>6, <1>7, <1>8, <1>9 DEF StatusNext

\* The provider's state keeps its type: no more response times than its window.
THEOREM StatusTypeCorrect == StatusSpec => []StatusTypeOK
<1>1. StatusTypeOK /\ [StatusNext]_statusVars => StatusTypeOK'
  BY StatusTypeStep
<1> QED BY <1>1, StatusTypeStart, PTL DEF StatusSpec

(***************************************************************************)
(* While the API is up and the tab in view, only the chain probes, and     *)
(* hears that all is well.  Until it does, each tick of `steady` is one    *)
(* less on the timer, which started with MaxDelay at most.                 *)
(***************************************************************************)
TimerBounded ==
    timer <= MaxDelay /\ (probe["chain"] # "idle" => timer = 0)

SteadyProbes ==
    steady > 0 =>
        /\ up /\ inView
        /\ probe["chain"] \in {"idle", "sent", "ok"}
        /\ \A p \in Extra : probe[p] = "idle"

NoticedInTime ==
    steady > 0 /\ apiStatus # "connected" => steady <= MaxDelay - timer

StatusInv == StatusTypeOK /\ TimerBounded /\ SteadyProbes /\ NoticedInTime

LEMMA StatusStart == StatusInit => StatusInv
BY StatusTypeStart, StatusAssumption
   DEF StatusInit, StatusInv, TimerBounded, SteadyProbes, NoticedInTime, Probe

LEMMA StatusStep == StatusInv /\ [StatusNext]_statusVars => StatusInv'
<1> SUFFICES ASSUME StatusInv, [StatusNext]_statusVars PROVE StatusInv'
  OBVIOUS
<1>0. StatusTypeOK /\ StatusTypeOK'
  BY StatusTypeStep DEF StatusInv
<1>a. MaxDelay \in Nat \ {0} /\ timer \in Nat /\ steady \in Nat /\ timer' \in Nat
        /\ "chain" \in Probe /\ \A p \in Extra : p \in Probe /\ p # "chain"
  BY <1>0, StatusAssumption DEF StatusTypeOK, Probe
<1> DEFINE Rest == TimerBounded' /\ SteadyProbes' /\ NoticedInTime'
<1> USE <1>0, <1>a DEF StatusInv, TimerBounded, SteadyProbes, NoticedInTime
<1>1. ASSUME UNCHANGED statusVars
      PROVE  Rest
  BY <1>1 DEF statusVars
<1>2. ASSUME Run
      PROVE  Rest
  <2>1. DelayFor(failCount) \in 1..MaxDelay
    BY DelayBounded DEF StatusTypeOK
  <2>2. UNCHANGED <<up, inView, steady, apiStatus>>
    BY <1>2 DEF Run, world, shownStatus
  <2>3. CASE inView
    BY <1>2, <2>2, <2>3 DEF Run, StatusTypeOK
  <2>4. CASE ~inView
    BY <1>2, <2>1, <2>2, <2>4 DEF Run, StatusTypeOK
  <2> QED BY <2>3, <2>4
<1>3. ASSUME GoAway \/ Turn
      PROVE  Rest
  BY <1>3 DEF GoAway, Turn
<1>4. ASSUME ComeBack
      PROVE  Rest
  <2>1. steady' = 0 /\ timer' = timer
    BY <1>4 DEF ComeBack
  <2>2. probe'["chain"] = probe["chain"]
    BY <1>4 DEF ComeBack, StatusTypeOK
  <2> QED BY <2>1, <2>2
<1>5. ASSUME HalfMinute
      PROVE  Rest
  <2>1. /\ timer' = timer - 1 /\ timer > 0 /\ probe' = probe
        /\ \A p \in Probe : probe[p] = "idle"
        /\ apiStatus' = apiStatus /\ up' = up /\ inView' = inView
    BY <1>5 DEF HalfMinute, shownStatus
  <2>2. CASE up /\ inView
    <3>1. steady' \in Nat /\ steady' <= steady + 1
      BY <1>5, <2>2 DEF HalfMinute, Least
    <3>2. TimerBounded'
      BY <2>1
    <3>3. SteadyProbes'
      BY <2>1, <2>2
    <3>4. NoticedInTime'
      BY <2>1, <2>2, <3>1
    <3> QED BY <3>2, <3>3, <3>4
  <2>3. CASE ~(up /\ inView)
    BY <1>5, <2>1, <2>3 DEF HalfMinute
  <2> QED BY <2>2, <2>3
<1>6. ASSUME NEW p \in Probe, GetAnswer(p)
      PROVE  Rest
  <2>1. UNCHANGED <<up, inView, steady, timer, apiStatus>>
    BY <1>6 DEF GetAnswer, world, shownStatus
  <2>2. /\ probe[p] = "sent" /\ probe'[p] \in {"ok", "unwell", "failed"}
        /\ up => probe'[p] = "ok"
        /\ \A q \in Probe \ {p} : probe'[q] = probe[q]
    BY <1>6 DEF GetAnswer, StatusTypeOK
  <2> QED BY <2>1, <2>2
<1>7. ASSUME NEW p \in Probe, Fail(p)
      PROVE  Rest
  <2>1. UNCHANGED steady /\ probe[p] \in {"unwell", "failed"} /\ probe'[p] = "idle"
          /\ \A q \in Probe \ {p} : probe'[q] = probe[q]
    BY <1>7 DEF Fail, world, StatusTypeOK
  <2>2. steady = 0
    BY <2>1 DEF Probe
  <2>3. timer' = timer \/ (p = "chain" /\ timer' \in 1..MaxDelay)
    BY <1>7, DelayBounded DEF Fail, ScheduleNext, StatusTypeOK
  <2> QED BY <2>1, <2>2, <2>3
<1>8. ASSUME NEW p \in Probe, NEW elapsed \in Elapsed, Succeed(p, elapsed)
      PROVE  Rest
  <2>1. UNCHANGED <<up, inView, steady>> /\ apiStatus' = "connected"
          /\ probe'[p] = "idle" /\ \A q \in Probe \ {p} : probe'[q] = probe[q]
    BY <1>8 DEF Succeed, world, StatusTypeOK
  <2>2. timer' = timer \/ (p = "chain" /\ timer' \in 1..MaxDelay)
    BY <1>8, DelayBounded DEF Succeed, ScheduleNext, StatusTypeOK
  <2> QED BY <2>1, <2>2
<1> QED
  BY <1>1, <1>2, <1>3, <1>4, <1>5, <1>6, <1>7, <1>8 DEF StatusNext

(***************************************************************************)
(* An API that is back is noticed within MaxDelay ticks, five minutes in   *)
(* the code, with any number of probes overlapping (ApiStatus.tsx).        *)
(***************************************************************************)
THEOREM NoticedWithinCap == StatusSpec => []RecoveryIsNoticed
<1>1. StatusInv => RecoveryIsNoticed
  BY StatusAssumption
     DEF StatusInv, StatusTypeOK, NoticedInTime, RecoveryIsNoticed
<1> QED BY <1>1, StatusStart, StatusStep, PTL DEF StatusSpec
=============================================================================
