---------------------------- MODULE ServicesProofs ----------------------------
(***************************************************************************)
(* Theorems about the services that await something between two writes:    *)
(* DocumentScan for any number of documents, overlapping scans and faults, *)
(* Payments for any number of payments and approvals, CreditCheckCache for *)
(* any persons, overlapping checks and resolution of the clock. The last   *)
(* theorem puts them beside the parts of WebProofs and the search by name  *)
(* of NameSimilarityProofs (MCServices).                                   *)
(***************************************************************************)
EXTENDS MCServices, WebProofs, NameSimilarityProofs

-----------------------------------------------------------------------------
(***************************************************************************)
(* Documents                                                               *)
(***************************************************************************)
\* The rows keep their type under an update of the scan status.
LEMMA StatusSetType ==
    ASSUME doc \in [Document -> DocRow \cup {Null}],
           NEW d \in Document, NEW status \in ScanStatus,
           NEW result \in ScanResult \cup {Null},
           ScanStatusSet(d, status, result)
    PROVE  doc' \in [Document -> DocRow \cup {Null}]
  BY DEF ScanStatusSet, DocRow

\* A recorded result of a scan settles on a status of the vocabulary.
LEMMA SettleType ==
    ASSUME ScanTypeOK, NEW r \in ScanRequest, scan[r] # Null,
           NEW result \in ScanResult, Settle(r, result)
    PROVE  ScanTypeOK'
<1>1. StatusOf(result) \in ScanStatus
  BY DEF StatusOf, ScanStatus, ScanResult
<1>2. scan[r].of \in Document
  BY DEF ScanTypeOK, Scan
<1>3. doc' \in [Document -> DocRow \cup {Null}]
  BY <1>1, <1>2, StatusSetType DEF ScanTypeOK, Settle
<1> QED BY <1>3 DEF ScanTypeOK, Settle

\* Both outcomes a scan may settle on are results.
LEMMA Outcomes ==
    /\ NotScanned \in ScanResult
    /\ [scanned |-> TRUE, infected |-> FALSE] \in ScanResult
    /\ \A r \in ScanRequest :
            [scanned |-> TRUE, infected |-> scan[r].of \in Infected] \in ScanResult
  BY DEF NotScanned, ScanResult

(***************************************************************************)
(* A handler that finishes or is cut short keeps the count of faults typed. *)
(***************************************************************************)
LEMMA WritesType ==
    ASSUME faults \in 0..MaxFaults, NEW n \in 1..2, Writes(n, 2)
    PROVE  faults' \in 0..MaxFaults
  BY DocumentAssumption DEF Writes

(***************************************************************************)
(* Type correctness of every handler, of the scan and of a crash.          *)
(***************************************************************************)
THEOREM ScanTypeCorrect == ScanSpec => []ScanTypeOK
<1>1. ScanInit => ScanTypeOK
  <2>1. 0 \in 0..MaxFaults
    BY DocumentAssumption
  <2> QED BY <2>1, Zenon DEF ScanInit, ScanTypeOK
<1>2. ScanTypeOK /\ [ScanNext]_scanVars => ScanTypeOK'
  <2> SUFFICES ASSUME ScanTypeOK, [ScanNext]_scanVars PROVE ScanTypeOK'
    OBVIOUS
  <2>1. ASSUME NEW d \in Document, ReceiveFile(d) PROVE ScanTypeOK'
    BY <2>1 DEF ScanTypeOK, ReceiveFile
  <2>2. ASSUME NEW d \in Document, Upload(d) PROVE ScanTypeOK'
    <3>1. doc' \in [Document -> DocRow \cup {Null}]
      BY <2>2 DEF ScanTypeOK, Upload, DocRow, ScanStatus
    <3>2. faults' \in 0..MaxFaults
      BY <2>2, WritesType DEF ScanTypeOK, Upload
    <3> QED BY <2>2, <3>1, <3>2 DEF ScanTypeOK, Upload
  <2>3. ASSUME NEW d \in Document, RefuseUpload(d) PROVE ScanTypeOK'
    BY <2>3 DEF ScanTypeOK, RefuseUpload
  <2>4. ASSUME NEW d \in Document, Delete(d) PROVE ScanTypeOK'
    <3>1. faults' \in 0..MaxFaults
      BY <2>4, WritesType DEF ScanTypeOK, Delete
    <3> QED BY <2>4, <3>1 DEF ScanTypeOK, Delete
  <2>5. ASSUME NEW r \in ScanRequest, NEW d \in Document, RequestScan(r, d)
        PROVE  ScanTypeOK'
    <3>1. doc' \in [Document -> DocRow \cup {Null}]
      BY <2>5, StatusSetType DEF ScanTypeOK, RequestScan, ScanStatus
    <3>2. scan' \in [ScanRequest -> Scan \cup {Null}]
      BY <2>5 DEF ScanTypeOK, RequestScan, Scan
    <3> QED BY <2>5, <3>1, <3>2 DEF ScanTypeOK, RequestScan
  <2>6. ASSUME NEW r \in ScanRequest, NoScanner(r) PROVE ScanTypeOK'
    <3>1. scan[r].of \in Document
      BY <2>6 DEF ScanTypeOK, NoScanner, Scan
    <3>2. doc' \in [Document -> DocRow \cup {Null}]
      BY <2>6, <3>1, StatusSetType DEF ScanTypeOK, NoScanner, ScanStatus
    <3> QED BY <2>6, <3>2 DEF ScanTypeOK, NoScanner
  <2>7. ASSUME NEW r \in ScanRequest, GotScanner(r) PROVE ScanTypeOK'
    BY <2>7 DEF ScanTypeOK, GotScanner, Scan
  <2>8. ASSUME NEW r \in ScanRequest, ReadFile(r) PROVE ScanTypeOK'
    <3>1. CASE scan[r].of \in file
      BY <2>8, <3>1 DEF ScanTypeOK, ReadFile, Scan
    <3>2. CASE scan[r].of \notin file
      BY <2>8, <3>2, SettleType, Outcomes DEF ReadFile
    <3> QED BY <3>1, <3>2
  <2>9. ASSUME NEW r \in ScanRequest, Replied(r) PROVE ScanTypeOK'
    BY <2>9, SettleType, Outcomes DEF Replied
  <2>10. ASSUME NEW r \in ScanRequest, ReplyLost(r) PROVE ScanTypeOK'
    BY <2>10, SettleType, Outcomes DEF ReplyLost
  <2>11. CASE Crash
    <3>1. faults' \in 0..MaxFaults
      BY <2>11, DocumentAssumption DEF ScanTypeOK, Crash
    <3> QED BY <2>11, <3>1, Zenon DEF ScanTypeOK, Crash
  <2>12. ASSUME NEW r \in ScanRequest, HangsUp(r) PROVE ScanTypeOK'
    <3>1. faults' \in 0..MaxFaults
      BY <2>12, DocumentAssumption DEF ScanTypeOK, HangsUp
    <3>2. scan' \in [ScanRequest -> Scan \cup {Null}]
      BY <2>12 DEF ScanTypeOK, HangsUp, Scan
    <3> QED BY <2>12, <3>1, <3>2 DEF ScanTypeOK, HangsUp
  <2>13. CASE UNCHANGED scanVars
    BY <2>13 DEF ScanTypeOK, scanVars
  <2> QED
    BY <2>1, <2>2, <2>3, <2>4, <2>5, <2>6, <2>7, <2>8, <2>9, <2>10, <2>11, <2>12, <2>13
    DEF ScanNext, Advance
<1> QED BY <1>1, <1>2, PTL DEF ScanSpec

-----------------------------------------------------------------------------
\* What one row says of its document is true.
RowIsTrue(d, row) ==
    row # Null =>
        /\ row.status = "clean" =>
            /\ row.result # Null /\ row.result.scanned
            /\ d \in Infected => d \in Unscannable
        /\ row.status = "quarantined" => d \in Infected

\* VerdictIsTrue is this of every row.
LEMMA VerdictByRow ==
    VerdictIsTrue <=> \A d \in Document : RowIsTrue(d, doc[d])
  BY DEF VerdictIsTrue, RowIsTrue, Served

\* A status that is no verdict keeps the rows true.
LEMMA OtherStatus ==
    ASSUME ScanTypeOK, VerdictIsTrue, NEW d \in Document,
           NEW status \in ScanStatus \ {"clean", "quarantined"},
           ScanStatusSet(d, status, Null)
    PROVE  VerdictIsTrue'
  BY VerdictByRow DEF ScanStatusSet, RowIsTrue, ScanTypeOK, VerdictIsTrue, Served

\* A scan that settles on a true result, or on none, keeps the rows true.
LEMMA SettleTrue ==
    ASSUME ScanTypeOK, VerdictIsTrue, NEW r \in ScanRequest, scan[r] # Null,
           NEW result \in ScanResult, Settle(r, result),
           result.scanned /\ result.infected => scan[r].of \in Infected,
           result.scanned /\ ~result.infected =>
                (scan[r].of \in Infected => scan[r].of \in Unscannable)
    PROVE  VerdictIsTrue'
<1> DEFINE d == scan[r].of
           row == [status |-> StatusOf(result), result |-> result]
<1>1. d \in Document /\ result # Null
  BY ScanNullAssumption DEF ScanTypeOK, Scan
<1>2. doc' = [doc EXCEPT ![d] = IF @ = Null THEN Null ELSE row]
  BY DEF Settle, ScanStatusSet
<1>3. RowIsTrue(d, row)
  BY <1>1 DEF RowIsTrue, StatusOf, ScanResult
<1>4. ASSUME NEW e \in Document PROVE RowIsTrue(e, doc'[e])
  <2>1. CASE e = d /\ doc[e] # Null
    BY <1>1, <1>2, <1>3, <2>1 DEF ScanTypeOK
  <2>2. CASE e # d \/ doc[e] = Null
    BY <1>1, <1>2, <2>2, VerdictByRow DEF ScanTypeOK, RowIsTrue
  <2> QED BY <2>1, <2>2
<1> QED BY <1>4 DEF VerdictIsTrue, RowIsTrue, Served

(***************************************************************************)
(* What is served is not infected, unless the daemon refuses to scan it,   *)
(* and what is quarantined is.                                             *)
(***************************************************************************)
THEOREM VerdictsAreTrue == ScanSpec => []VerdictIsTrue
<1>1. ScanInit => VerdictIsTrue
  BY DEF ScanInit, VerdictIsTrue
<1>2. ScanTypeOK /\ VerdictIsTrue /\ [ScanNext]_scanVars => VerdictIsTrue'
  <2> SUFFICES ASSUME ScanTypeOK, VerdictIsTrue, [ScanNext]_scanVars PROVE VerdictIsTrue'
    OBVIOUS
  <2>1. ASSUME UNCHANGED doc PROVE VerdictIsTrue'
    BY <2>1 DEF VerdictIsTrue, Served
  <2>2. ASSUME NEW d \in Document, Upload(d) PROVE VerdictIsTrue'
    BY <2>2 DEF VerdictIsTrue, Served, Upload, ScanTypeOK
  <2>3. ASSUME NEW d \in Document, Delete(d) PROVE VerdictIsTrue'
    BY <2>3 DEF VerdictIsTrue, Served, Delete, ScanTypeOK
  <2>4. ASSUME NEW r \in ScanRequest, NEW d \in Document, RequestScan(r, d)
        PROVE  VerdictIsTrue'
    BY <2>4, OtherStatus DEF RequestScan, ScanStatus
  <2>5. ASSUME NEW r \in ScanRequest, NoScanner(r) PROVE VerdictIsTrue'
    <3>1. scan[r].of \in Document
      BY <2>5 DEF ScanTypeOK, NoScanner, Scan
    <3> QED BY <2>5, <3>1, OtherStatus DEF NoScanner, ScanStatus
  <2>6. ASSUME NEW r \in ScanRequest, ReadFile(r) PROVE VerdictIsTrue'
    BY <2>1, <2>6, SettleTrue, Outcomes DEF ReadFile, NotScanned
  <2>7. ASSUME NEW r \in ScanRequest, Replied(r) PROVE VerdictIsTrue'
    BY <2>7, SettleTrue, Outcomes DEF Replied
  <2>8. ASSUME NEW r \in ScanRequest, ReplyLost(r) PROVE VerdictIsTrue'
    BY <2>8, SettleTrue, Outcomes DEF ReplyLost, NotScanned
  <2> QED
    BY <2>1, <2>2, <2>3, <2>4, <2>5, <2>6, <2>7, <2>8
    DEF ScanNext, Advance, ReceiveFile, RefuseUpload, GotScanner, HangsUp, Crash, scanVars
<1> QED BY <1>1, <1>2, ScanTypeCorrect, PTL DEF ScanSpec

-----------------------------------------------------------------------------
\* An upload being handled has its file and no row yet.
UploadInv == \A d \in uploading : d \in file /\ doc[d] = Null

\* FilesMatchRows and ScanningHasAScan, with UploadInv, before any fault.
TidyInv ==
    /\ UploadInv
    /\ \A d \in Document : d \in file <=> (d \in uploading \/ doc[d] # Null)
    /\ \A d \in Document :
            doc[d] # Null /\ doc[d].status = "scanning" =>
                \E r \in ScanRequest : scan[r] # Null /\ scan[r].of = d

\* A scan that ends leaves another status than "scanning" behind.
LEMMA EndTidy ==
    ASSUME ScanTypeOK, TidyInv, NEW r \in ScanRequest, scan[r] # Null,
           NEW status \in ScanStatus \ {"scanning"},
           NEW result \in ScanResult \cup {Null},
           ScanStatusSet(scan[r].of, status, result),
           scan' = [scan EXCEPT ![r] = Null],
           UNCHANGED <<file, uploading>>
    PROVE  TidyInv'
<1> DEFINE d == scan[r].of
<1>1. d \in Document
  BY DEF ScanTypeOK, Scan
<1>2. \A e \in Document : /\ doc'[e] = Null <=> doc[e] = Null
                          /\ e # d => doc'[e] = doc[e]
  BY <1>1, ScanNullAssumption DEF ScanStatusSet, ScanTypeOK, DocRow
<1>3. doc'[d] # Null => doc'[d].status # "scanning"
  BY <1>1 DEF ScanStatusSet, ScanTypeOK
<1>4. UploadInv' /\ \A e \in Document : e \in file' <=> (e \in uploading' \/ doc'[e] # Null)
  BY <1>2 DEF TidyInv, UploadInv, ScanTypeOK
<1>5. ASSUME NEW e \in Document, doc'[e] # Null, doc'[e].status = "scanning"
      PROVE  \E q \in ScanRequest : scan'[q] # Null /\ scan'[q].of = e
  <2>1. e # d
    BY <1>3, <1>5
  <2>2. PICK q \in ScanRequest : scan[q] # Null /\ scan[q].of = e
    BY <1>2, <1>5, <2>1 DEF TidyInv
  <2>3. q # r
    BY <2>1, <2>2
  <2> QED BY <2>2, <2>3 DEF ScanTypeOK
<1> QED BY <1>4, <1>5 DEF TidyInv

LEMMA StatusOfEnds ==
    ASSUME NEW result \in ScanResult
    PROVE  StatusOf(result) \in ScanStatus \ {"scanning"}
  BY DEF StatusOf, ScanStatus, ScanResult

\* TidyInv is preserved by every step that is not a fault.
LEMMA TidyStep ==
    ASSUME ScanTypeOK, TidyInv, [ScanNext]_scanVars, UNCHANGED faults
    PROVE  TidyInv'
<1>0. \A n \in 1..2 : Writes(n, 2) => n = 2
  BY DocumentAssumption DEF Writes, ScanTypeOK
<1>1. ASSUME NEW d \in Document, ReceiveFile(d) PROVE TidyInv'
  BY <1>1 DEF ReceiveFile, TidyInv, UploadInv, Scans, ScanTypeOK
<1>2. ASSUME NEW d \in Document, Upload(d) PROVE TidyInv'
  <2>1. /\ d \in uploading /\ uploading' = uploading \ {d}
        /\ doc' = [doc EXCEPT ![d] = [status |-> "uploaded", result |-> Null]]
        /\ UNCHANGED <<file, scan>>
    BY <1>0, <1>2 DEF Upload
  <2>2. [status |-> "uploaded", result |-> Null] # Null
    BY ScanNullAssumption DEF DocRow, ScanStatus
  <2>3. doc'[d] = [status |-> "uploaded", result |-> Null]
        /\ \A e \in Document \ {d} : doc'[e] = doc[e]
    BY <2>1 DEF ScanTypeOK
  <2>4. UploadInv' /\ \A e \in Document : e \in file' <=> (e \in uploading' \/ doc'[e] # Null)
    BY <2>1, <2>2, <2>3 DEF TidyInv, UploadInv, ScanTypeOK
  <2>5. \A e \in Document :
            doc'[e] # Null /\ doc'[e].status = "scanning" =>
                \E r \in ScanRequest : scan'[r] # Null /\ scan'[r].of = e
    BY <2>1, <2>3 DEF TidyInv
  <2> QED BY <2>4, <2>5 DEF TidyInv
<1>3. ASSUME NEW d \in Document, RefuseUpload(d) PROVE TidyInv'
  BY <1>3 DEF RefuseUpload, TidyInv, UploadInv, ScanTypeOK
<1>4. ASSUME NEW d \in Document, Delete(d) PROVE TidyInv'
  <2>1. /\ doc[d] # Null
        /\ file' = file \ {d}
        /\ doc' = [doc EXCEPT ![d] = Null]
        /\ UNCHANGED <<uploading, scan>>
    BY <1>0, <1>4 DEF Delete
  <2> QED BY <2>1 DEF TidyInv, UploadInv, ScanTypeOK
<1>5. ASSUME NEW r \in ScanRequest, NEW d \in Document, RequestScan(r, d)
      PROVE  TidyInv'
  <2>1. \A e \in Document : /\ doc'[e] = Null <=> doc[e] = Null
                            /\ e # d => doc'[e] = doc[e]
    BY <1>5, ScanNullAssumption DEF RequestScan, ScanStatusSet, ScanTypeOK, DocRow, ScanStatus
  <2>2. UploadInv' /\ \A e \in Document : e \in file' <=> (e \in uploading' \/ doc'[e] # Null)
    BY <1>5, <2>1 DEF RequestScan, TidyInv, UploadInv, ScanTypeOK
  <2>3. ASSUME NEW e \in Document, doc'[e] # Null, doc'[e].status = "scanning"
        PROVE  \E q \in ScanRequest : scan'[q] # Null /\ scan'[q].of = e
    <3>1. CASE e = d
      <4>1. [of |-> d, at |-> IF connected THEN "reading" ELSE "connecting"] # Null
        BY <1>5, ScanNullAssumption DEF Scan
      <4> QED BY <1>5, <3>1, <4>1 DEF RequestScan, ScanTypeOK
    <3>2. CASE e # d
      <4>1. PICK q \in ScanRequest : scan[q] # Null /\ scan[q].of = e
        BY <2>1, <2>3, <3>2 DEF TidyInv
      <4> QED BY <1>5, <4>1 DEF RequestScan, ScanTypeOK
    <3> QED BY <3>1, <3>2
  <2> QED BY <2>2, <2>3 DEF TidyInv
<1>6. ASSUME NEW r \in ScanRequest, NoScanner(r) PROVE TidyInv'
  BY <1>6, EndTidy DEF NoScanner, ScanStatus
<1>7. ASSUME NEW r \in ScanRequest, scan[r] # Null, UNCHANGED <<file, uploading, doc>>,
             NEW at \in {"reading", "replying"}, scan' = [scan EXCEPT ![r].at = at]
      PROVE  TidyInv'
  <2>1. [scan[r] EXCEPT !.at = at] # Null /\ [scan[r] EXCEPT !.at = at].of = scan[r].of
    BY <1>7, ScanNullAssumption DEF ScanTypeOK, Scan
  <2>2. ASSUME NEW q \in ScanRequest, scan[q] # Null
        PROVE  scan'[q] # Null /\ scan'[q].of = scan[q].of
    BY <1>7, <2>1, <2>2 DEF ScanTypeOK
  <2> QED BY <1>7, <2>2 DEF TidyInv, UploadInv
<1>8. ASSUME NEW r \in ScanRequest, scan[r] # Null, NEW result \in ScanResult,
             Settle(r, result)
      PROVE  TidyInv'
  BY <1>8, EndTidy, StatusOfEnds DEF Settle
<1>9. ASSUME NEW r \in ScanRequest, Advance(r) PROVE TidyInv'
  <2>1. CASE ReadFile(r)
    BY <1>7, <1>8, <2>1, Outcomes DEF ReadFile
  <2>2. CASE Replied(r)
    BY <1>8, <2>2, Outcomes DEF Replied
  <2>3. CASE GotScanner(r)
    BY <1>7, <2>3 DEF GotScanner
  <2>4. CASE ReplyLost(r)
    BY <1>8, <2>4, Outcomes DEF ReplyLost
  <2> QED BY <1>6, <1>9, <2>1, <2>2, <2>3, <2>4 DEF Advance
<1>10. CASE UNCHANGED scanVars
  BY <1>10 DEF scanVars, TidyInv, UploadInv
<1>11. ASSUME Crash PROVE TidyInv'
  BY <1>11, DocumentAssumption DEF Crash, ScanTypeOK
<1>12. ASSUME NEW r \in ScanRequest, HangsUp(r) PROVE TidyInv'
  BY <1>12, DocumentAssumption DEF HangsUp, ScanTypeOK
<1> QED BY <1>1, <1>2, <1>3, <1>4, <1>5, <1>9, <1>10, <1>11, <1>12 DEF ScanNext

\* A fault is never taken back.
LEMMA FaultsStay ==
    ASSUME ScanTypeOK, [ScanNext]_scanVars
    PROVE  faults' = faults \/ faults' # 0
<1>1. faults \in Nat
  BY DocumentAssumption DEF ScanTypeOK
<1>2. ASSUME NEW d \in Document, Upload(d) \/ Delete(d)
      PROVE  faults' = faults \/ faults' # 0
  BY <1>1, <1>2 DEF Upload, Delete, Writes
<1>3. CASE Crash
  BY <1>1, <1>3 DEF Crash
<1>4. ASSUME NEW d \in Document,
             ReceiveFile(d) \/ RefuseUpload(d)
                \/ \E r \in ScanRequest : RequestScan(r, d)
      PROVE  faults' = faults
  BY <1>4 DEF ReceiveFile, RefuseUpload, RequestScan
<1>5. ASSUME NEW r \in ScanRequest, Advance(r) PROVE faults' = faults
  BY <1>5 DEF Advance, NoScanner, GotScanner, ReadFile, Replied, ReplyLost, Settle
<1>6. ASSUME NEW r \in ScanRequest, HangsUp(r) PROVE faults' # 0
  BY <1>1, <1>6 DEF HangsUp
<1> QED BY <1>2, <1>3, <1>4, <1>5, <1>6 DEF ScanNext, scanVars

LEMMA TidyAlways == ScanSpec => [](faults = 0 => TidyInv)
<1>1. ScanInit => TidyInv
  BY DEF ScanInit, TidyInv, UploadInv
<1>2. ScanTypeOK /\ (faults = 0 => TidyInv) /\ [ScanNext]_scanVars => (faults = 0 => TidyInv)'
  BY FaultsStay, TidyStep
<1> QED BY <1>1, <1>2, ScanTypeCorrect, PTL DEF ScanSpec

(***************************************************************************)
(* Until a process dies or a handler is cut short, a document is shown as  *)
(* being scanned only while a request holds its scan.                      *)
(***************************************************************************)
THEOREM NoStrandedScan == ScanSpec => []ScanningHasAScan
<1>1. (faults = 0 => TidyInv) => ScanningHasAScan
  BY DEF TidyInv, ScanningHasAScan, Scans
<1> QED BY <1>1, TidyAlways, PTL

(***************************************************************************)
(* Until then, files and rows stay in step.                                *)
(***************************************************************************)
THEOREM NoOrphans == ScanSpec => []FilesMatchRows
<1>1. (faults = 0 => TidyInv) => FilesMatchRows
  BY DEF TidyInv, FilesMatchRows
<1> QED BY <1>1, TidyAlways, PTL

-----------------------------------------------------------------------------
(***************************************************************************)
(* Payments                                                                *)
(***************************************************************************)
\* Types, without the bound on refunds, which is a property of the handlers.
CountsInv ==
    /\ payment \in [Payment -> PaymentRow \cup {Null}]
    /\ approvals \in [Payment -> 0..MaxApprovals]
    /\ refunds \in [Payment -> Nat]

\* CountsInv and RefundsAreCovered are inductive together.
LEMMA CoveredAlways == PaymentSpec => [](CountsInv /\ RefundsAreCovered)
<1>1. PaymentInit => CountsInv /\ RefundsAreCovered
  BY PaymentAssumption DEF PaymentInit, CountsInv, RefundsAreCovered, Spent
<1>2. CountsInv /\ RefundsAreCovered /\ [PaymentNext]_paymentVars
        => CountsInv' /\ RefundsAreCovered'
  <2> SUFFICES ASSUME CountsInv, RefundsAreCovered, [PaymentNext]_paymentVars
               PROVE  CountsInv' /\ RefundsAreCovered'
    OBVIOUS
  <2>1. ASSUME NEW p \in Payment, Initiate(p)
        PROVE  CountsInv' /\ RefundsAreCovered'
    <3>1. payment'[p].status # "completed"
      BY <2>1 DEF Initiate, CountsInv
    <3>2. CountsInv'
      BY <2>1 DEF Initiate, CountsInv, PaymentRow, PaymentStatus
    <3>3. Spent(p) = 0 /\ Spent(p)' = 0
          /\ \A q \in Payment \ {p} : Spent(q)' = Spent(q)
      BY <2>1, <3>1 DEF Initiate, Spent, CountsInv
    <3>4. \A q \in Payment : Spent(q)' = Spent(q)
      BY <3>3
    <3> QED BY <2>1, <3>2, <3>4 DEF Initiate, RefundsAreCovered
  <2>2. ASSUME NEW p \in Payment, Approve(p)
        PROVE  CountsInv' /\ RefundsAreCovered'
    <3>1. PICK n \in WritesOf(p, 2) :
            payment' = [payment EXCEPT
                ![p].status = "completed",
                ![p].providerRef = IF n = 2 THEN approvals'[p] ELSE @]
      BY <2>2 DEF Approve
    <3>2. /\ payment[p] \in PaymentRow
          /\ approvals' = [approvals EXCEPT ![p] = @ + 1]
          /\ approvals[p] < MaxApprovals /\ refunds' = refunds
      BY <2>2 DEF Approve, CountsInv
    <3>3. approvals'[p] = approvals[p] + 1 /\ approvals'[p] \in 1..MaxApprovals
      BY <3>2, PaymentAssumption DEF CountsInv
    <3>4. CountsInv'
      <4>1. approvals' \in [Payment -> 0..MaxApprovals]
        BY <3>2, <3>3 DEF CountsInv
      <4>2. payment[p].providerRef \in 1..MaxApprovals \cup {Null}
        BY <3>2 DEF PaymentRow
      <4> DEFINE ref == IF n = 2 THEN approvals'[p] ELSE payment[p].providerRef
      <4>3. payment'[p] =
                [payment[p] EXCEPT !.status = "completed", !.providerRef = ref]
        BY <3>1, <3>2 DEF CountsInv, PaymentRow
      <4> HIDE DEF ref
      <4>4. payment'[p] \in PaymentRow
        <5>1. ref \in 1..MaxApprovals \cup {Null}
          BY <3>3, <4>2 DEF ref
        <5>2. "completed" \in PaymentStatus
          BY DEF PaymentStatus
        <5> QED BY <3>2, <4>3, <5>1, <5>2 DEF PaymentRow
      <4>5. payment' \in [Payment -> PaymentRow \cup {Null}]
        BY <3>1, <4>4 DEF CountsInv
      <4> QED BY <3>2, <4>1, <4>5 DEF CountsInv
    <3>5. \A q \in Payment \ {p} : Spent(q)' = Spent(q) /\ approvals'[q] = approvals[q]
      BY <3>1, <3>2 DEF Spent, CountsInv
    <3>6. Spent(p) \in {0, 1} /\ Spent(p)' \in {0, 1}
      BY DEF Spent
    <3>7. refunds[p] <= approvals[p]
      BY <3>6 DEF RefundsAreCovered, CountsInv
    <3>8. refunds'[p] + Spent(p)' <= approvals'[p]
      BY <3>2, <3>3, <3>6, <3>7 DEF CountsInv
    <3> QED BY <3>2, <3>4, <3>5, <3>8 DEF RefundsAreCovered
  <2>3. ASSUME NEW p \in Payment, NEW status \in {"failed", "refunded"},
               payment[p] # Null,
               payment' = [payment EXCEPT ![p].status = status],
               UNCHANGED approvals
        PROVE  /\ payment' \in [Payment -> PaymentRow \cup {Null}]
               /\ Spent(p)' = 0
               /\ \A q \in Payment \ {p} : Spent(q)' = Spent(q)
    <3>1. payment[p] \in PaymentRow
      BY <2>3 DEF CountsInv
    <3>2. payment'[p] = [payment[p] EXCEPT !.status = status]
      BY <2>3 DEF CountsInv
    <3>3. payment'[p] \in PaymentRow /\ payment'[p].status = status
      BY <3>1, <3>2 DEF PaymentRow, PaymentStatus
    <3> QED BY <2>3, <3>3 DEF CountsInv, Spent
  <2>4. ASSUME NEW p \in Payment, Decline(p)
        PROVE  CountsInv' /\ RefundsAreCovered'
    <3>1. Spent(p) \in {0, 1}
      BY DEF Spent
    <3>2. /\ CountsInv' /\ UNCHANGED <<approvals, refunds>> /\ Spent(p)' = 0
          /\ \A q \in Payment \ {p} : Spent(q)' = Spent(q)
      BY <2>3, <2>4 DEF Decline, CountsInv
    <3>3. refunds[p] <= approvals[p]
      BY <3>1 DEF CountsInv, RefundsAreCovered
    <3>4. RefundsAreCovered'
      BY <3>2, <3>3 DEF CountsInv, RefundsAreCovered
    <3> QED BY <3>2, <3>4
  <2>5. ASSUME NEW p \in Payment, Refund(p)
        PROVE  CountsInv' /\ RefundsAreCovered'
    <3>1. Spent(p) = 1
      BY <2>5 DEF Refund, Spent
    <3>2. refunds' = [refunds EXCEPT ![p] = @ + 1] /\ approvals' = approvals
      BY <2>5 DEF Refund
    <3>3. refunds'[p] = refunds[p] + 1 /\ \A q \in Payment \ {p} : refunds'[q] = refunds[q]
      BY <3>2 DEF CountsInv
    <3>4. /\ payment' \in [Payment -> PaymentRow \cup {Null}]
          /\ Spent(p)' = 0
          /\ \A q \in Payment \ {p} : Spent(q)' = Spent(q)
      BY <2>3, <2>5 DEF Refund
    <3>7. CountsInv'
      <4>1. refunds' \in [Payment -> Nat]
        BY <3>2, <3>3 DEF CountsInv
      <4> QED BY <3>2, <3>4, <4>1 DEF CountsInv
    <3>5. refunds[p] + 1 <= approvals[p] /\ refunds[p] \in Nat
      BY <3>1 DEF CountsInv, RefundsAreCovered
    <3>6. RefundsAreCovered'
      BY <3>2, <3>3, <3>4, <3>5 DEF RefundsAreCovered
    <3> QED BY <3>6, <3>7
  <2>6. CASE UNCHANGED paymentVars
    BY <2>6 DEF paymentVars, CountsInv, RefundsAreCovered, Spent
  <2> QED BY <2>1, <2>2, <2>4, <2>5, <2>6 DEF PaymentNext
<1> QED BY <1>1, <1>2, PTL DEF PaymentSpec

(***************************************************************************)
(* Refunds never exceed approvals, wherever handlers stop.                 *)
(***************************************************************************)
THEOREM RefundsCovered == PaymentSpec => []RefundsAreCovered
  BY CoveredAlways, PTL

(***************************************************************************)
(* Type correctness.  The bound on refunds is that on approvals.           *)
(***************************************************************************)
THEOREM PaymentTypeCorrect == PaymentSpec => []PaymentTypeOK
<1>1. CountsInv /\ RefundsAreCovered => PaymentTypeOK
  <2> SUFFICES ASSUME CountsInv, RefundsAreCovered PROVE PaymentTypeOK
    OBVIOUS
  <2>1. ASSUME NEW p \in Payment PROVE refunds[p] \in 0..MaxApprovals
    <3>1. Spent(p) \in {0, 1}
      BY DEF Spent
    <3> QED BY <3>1, PaymentAssumption DEF CountsInv, RefundsAreCovered
  <2> QED BY <2>1 DEF CountsInv, PaymentTypeOK
<1> QED BY <1>1, CoveredAlways, PTL

\* A payment nobody has initiated has not been approved either.
ReceiptInv ==
    /\ ReceiptIsTheLatest
    /\ \A p \in Payment \ CutShort : payment[p] = Null => approvals[p] = 0

(***************************************************************************)
(* The reference on a row whose handlers finish is that of its latest      *)
(* approval.                                                               *)
(***************************************************************************)
THEOREM ReceiptStored == PaymentSpec => []ReceiptIsTheLatest
<1>1. PaymentInit => ReceiptInv
  BY DEF PaymentInit, ReceiptInv, ReceiptIsTheLatest
<1>2. PaymentTypeOK /\ ReceiptInv /\ [PaymentNext]_paymentVars => ReceiptInv'
  <2> SUFFICES ASSUME PaymentTypeOK, ReceiptInv, [PaymentNext]_paymentVars
               PROVE  ReceiptInv'
    OBVIOUS
  <2>1. ASSUME NEW p \in Payment, Initiate(p) PROVE ReceiptInv'
    BY <2>1 DEF Initiate, ReceiptInv, ReceiptIsTheLatest, PaymentTypeOK
  <2>2. ASSUME NEW p \in Payment, Approve(p) PROVE ReceiptInv'
    <3>0. /\ approvals' = [approvals EXCEPT ![p] = @ + 1]
          /\ payment[p] \in PaymentRow /\ approvals[p] < MaxApprovals
          /\ \A q \in Payment \ {p} :
                payment'[q] = payment[q] /\ approvals'[q] = approvals[q]
      BY <2>2 DEF Approve, PaymentTypeOK
    <3> SUFFICES ASSUME p \notin CutShort PROVE ReceiptInv'
      BY <3>0 DEF ReceiptInv, ReceiptIsTheLatest
    <3>1. payment' = [payment EXCEPT ![p].status = "completed",
                                     ![p].providerRef = approvals'[p]]
      BY <2>2 DEF Approve, WritesOf, PaymentTypeOK
    <3>2. /\ approvals'[p] = approvals[p] + 1 /\ approvals[p] \in Nat
          /\ approvals'[p] \in 1..MaxApprovals
      BY <3>0, PaymentAssumption DEF PaymentTypeOK
    <3>3. payment'[p].providerRef = approvals'[p] /\ approvals'[p] # Null
      BY <3>0, <3>1, <3>2, PaymentNullAssumption DEF PaymentTypeOK, PaymentRow
    <3>5. approvals'[p] # 0 /\ payment'[p] \in PaymentRow
      <4>1. payment'[p] = [status |-> "completed", providerRef |-> approvals'[p]]
        BY <3>0, <3>1 DEF PaymentTypeOK, PaymentRow
      <4> QED BY <3>2, <4>1 DEF PaymentRow, PaymentStatus
    <3> QED BY <3>0, <3>3, <3>5, PaymentNullAssumption DEF ReceiptInv, ReceiptIsTheLatest
  <2>3. ASSUME NEW p \in Payment, Decline(p) PROVE ReceiptInv'
    <3>1. /\ payment[p] \in PaymentRow
          /\ payment'[p] = [payment[p] EXCEPT !.status = "failed"]
          /\ \A q \in Payment \ {p} : payment'[q] = payment[q]
          /\ UNCHANGED approvals
      BY <2>3 DEF Decline, PaymentTypeOK
    <3>2. /\ payment'[p] # Null
          /\ payment'[p].providerRef = payment[p].providerRef
          /\ payment'[p].status = "failed"
      BY <3>1, PaymentNullAssumption DEF PaymentRow, PaymentStatus
    <3> QED BY <2>3, <3>1, <3>2 DEF Decline, ReceiptInv, ReceiptIsTheLatest
  <2>4. ASSUME NEW p \in Payment, Refund(p) PROVE ReceiptInv'
    <3>1. /\ payment[p] \in PaymentRow
          /\ payment'[p] = [payment[p] EXCEPT !.status = "refunded"]
          /\ \A q \in Payment \ {p} : payment'[q] = payment[q]
          /\ UNCHANGED approvals
      BY <2>4 DEF Refund, PaymentTypeOK
    <3>2. /\ payment'[p] # Null
          /\ payment'[p].providerRef = payment[p].providerRef
          /\ payment'[p].status = "refunded"
      BY <3>1, PaymentNullAssumption DEF PaymentRow, PaymentStatus
    <3> QED BY <2>4, <3>1, <3>2 DEF Refund, ReceiptInv, ReceiptIsTheLatest
  <2>5. CASE UNCHANGED paymentVars
    BY <2>5 DEF paymentVars, ReceiptInv, ReceiptIsTheLatest
  <2> QED BY <2>1, <2>2, <2>3, <2>4, <2>5 DEF PaymentNext
<1>3. ReceiptInv => ReceiptIsTheLatest
  BY DEF ReceiptInv
<1> QED BY <1>1, <1>2, <1>3, PaymentTypeCorrect, PTL DEF PaymentSpec

-----------------------------------------------------------------------------
(***************************************************************************)
(* Credit checks                                                           *)
(***************************************************************************)
(***************************************************************************)
(* Type correctness of the cache, the pending checks and the responses.    *)
(***************************************************************************)
THEOREM CacheTypeCorrect == CacheSpec => []CacheTypeOK
<1>1. CacheInit => CacheTypeOK
  BY CacheAssumption DEF CacheInit, CacheTypeOK, Hour
<1>2. CacheTypeOK /\ [CacheNext]_cacheVars => CacheTypeOK'
  <2> SUFFICES ASSUME CacheTypeOK, [CacheNext]_cacheVars PROVE CacheTypeOK'
    OBVIOUS
  <2>1. ASSUME NEW check \in Check, RunCached(check) PROVE CacheTypeOK'
    <3>1. check.person \in Person /\ cache[check.person] \in Entry
      BY <2>1 DEF CacheTypeOK, RunCached, Unexpired, Check
    <3>2. response' \in Response
      BY <2>1, <3>1 DEF RunCached, Respond, Response, Entry, CacheTypeOK
    <3> QED BY <2>1, <3>2 DEF CacheTypeOK, RunCached
  <2>2. ASSUME NEW check \in Check, NEW r \in CheckRequest, RunUncached(r, check)
        PROVE  CacheTypeOK'
    BY <2>2 DEF CacheTypeOK, RunUncached
  <2>3. ASSUME NEW r \in CheckRequest, ProviderAnswers(r) PROVE CacheTypeOK'
    <3> DEFINE check == pending[r]
               answer == [application |-> check.application, checkedAt |-> hour]
               entry == [answer |-> answer, expiresAt |-> hour + DayHours]
    <3>1. check \in Check
      BY <2>3 DEF CacheTypeOK, ProviderAnswers
    <3>2. answer \in Answer
      BY <3>1 DEF Check, Answer, CacheTypeOK
    <3>3. hour + DayHours \in 0..MaxHour + DayHours
      BY CacheAssumption DEF CacheTypeOK, Hour
    <3>4. entry \in Entry
      BY <3>2, <3>3 DEF Entry
    <3>5. cache' \in [Person -> Entry \cup {Null}]
      BY <2>3, <3>4 DEF CacheTypeOK, ProviderAnswers
    <3>6. response' \in Response
      BY <2>3, <3>1, <3>2 DEF CacheTypeOK, ProviderAnswers, Respond, Response
    <3> QED BY <2>3, <3>5, <3>6 DEF CacheTypeOK, ProviderAnswers
  <2>4. ASSUME NEW r \in CheckRequest, ProviderFails(r) PROVE CacheTypeOK'
    BY <2>4 DEF CacheTypeOK, ProviderFails
  <2>5. CASE Tick
    BY <2>5, CacheAssumption DEF CacheTypeOK, Tick, Hour
  <2>6. CASE UNCHANGED cacheVars
    BY <2>6 DEF CacheTypeOK, cacheVars
  <2> QED BY <2>1, <2>2, <2>3, <2>4, <2>5, <2>6 DEF CacheNext
<1> QED BY <1>1, <1>2, PTL DEF CacheSpec

\* The answer of an entry was obtained by now.
EntriesArePast ==
    \A p \in Person : cache[p] # Null => cache[p].answer.checkedAt <= hour

LEMMA PastAlways == CacheSpec => []EntriesArePast
<1>1. CacheInit => EntriesArePast
  BY DEF CacheInit, EntriesArePast
<1>2. CacheTypeOK /\ EntriesArePast /\ [CacheNext]_cacheVars => EntriesArePast'
  <2> SUFFICES ASSUME CacheTypeOK, EntriesArePast, [CacheNext]_cacheVars
               PROVE  EntriesArePast'
    OBVIOUS
  <2>1. ASSUME NEW r \in CheckRequest, ProviderAnswers(r) PROVE EntriesArePast'
    <3>1. pending[r] \in Check /\ pending[r].person \in Person
      BY <2>1 DEF CacheTypeOK, ProviderAnswers, Check
    <3> QED BY <2>1, <3>1 DEF EntriesArePast, ProviderAnswers, CacheTypeOK, Hour
  <2>2. CASE UNCHANGED cache /\ hour' >= hour /\ hour' \in Nat
    BY <2>2 DEF EntriesArePast, CacheTypeOK, Hour, Entry, Answer
  <2> QED
    BY <2>1, <2>2 DEF CacheNext, RunCached, RunUncached, ProviderFails, Tick,
                      cacheVars, CacheTypeOK, Hour
<1> QED BY <1>1, <1>2, CacheTypeCorrect, PTL DEF CacheSpec

(***************************************************************************)
(* Only a provider's answer replaces an entry, and it is obtained now, no  *)
(* earlier than the one it replaces; a response from the cache carries the *)
(* entry's own answer.                                                     *)
(***************************************************************************)
LEMMA EntryRenewed ==
    ASSUME CacheTypeOK, EntriesArePast, [CacheNext]_cacheVars,
           NEW p \in Person, cache[p] # Null
    PROVE  /\ cache'[p] # Null
           /\ cache'[p].answer.checkedAt >= cache[p].answer.checkedAt
           /\ (response' # response /\ response'.to.person = p) =>
                    response'.answer.checkedAt >= cache[p].answer.checkedAt
<1> DEFINE Newer == /\ cache'[p] # Null
                    /\ cache'[p].answer.checkedAt >= cache[p].answer.checkedAt
                    /\ (response' # response /\ response'.to.person = p) =>
                            response'.answer.checkedAt >= cache[p].answer.checkedAt
<1>1. /\ cache[p] \in Entry /\ cache[p].answer.checkedAt \in Nat
      /\ hour \in Nat /\ cache[p].answer.checkedAt <= hour
  BY DEF CacheTypeOK, EntriesArePast, Entry, Answer, Hour
<1>2. ASSUME NEW check \in Check, RunCached(check)
      PROVE  Newer
  BY <1>1, <1>2 DEF RunCached, Respond
<1>3. ASSUME NEW r \in CheckRequest, ProviderAnswers(r)
      PROVE  Newer
  <2> DEFINE entry == [answer |-> [application |-> pending[r].application,
                                   checkedAt |-> hour],
                       expiresAt |-> hour + DayHours]
  <2>1. /\ response'.answer.checkedAt = hour
        /\ cache' = [cache EXCEPT ![pending[r].person] = entry]
    BY <1>3 DEF ProviderAnswers, Respond
  <2>2. cache'[p] = cache[p] \/ cache'[p] = entry
    BY <2>1 DEF CacheTypeOK
  <2>3. entry # Null /\ entry.answer.checkedAt = hour
    <3>1. pending[r] \in Check
      BY <1>3 DEF CacheTypeOK, ProviderAnswers
    <3>2. entry \in Entry
      BY <1>1, <3>1, CacheAssumption DEF CacheTypeOK, Check, Entry, Answer, Hour
    <3> QED BY <3>2, CacheNullAssumption
  <2> QED BY <1>1, <2>1, <2>2, <2>3
<1>4. CASE UNCHANGED <<cache, response>>
  BY <1>1, <1>4
<1> QED
  BY <1>2, <1>3, <1>4 DEF CacheNext, RunUncached, ProviderFails, Tick, cacheVars

(***************************************************************************)
(* The newest answer about a person is never lost or replaced by an older  *)
(* one, and nothing older than it is sent, however many checks overlap     *)
(* (credit-check.ts POST /run, cache.ts).                                  *)
(***************************************************************************)
THEOREM NewestAnswerStands == CacheSpec => AnswersDoNotAge
<1> DEFINE Step(p) ==
        cache[p] # Null =>
            /\ cache'[p] # Null
            /\ cache'[p].answer.checkedAt >= cache[p].answer.checkedAt
            /\ (response' # response /\ response'.to.person = p) =>
                    response'.answer.checkedAt >= cache[p].answer.checkedAt
<1>1. CacheTypeOK /\ EntriesArePast /\ [CacheNext]_cacheVars => \A p \in Person : Step(p)
  BY EntryRenewed
<1>2. CacheTypeOK /\ EntriesArePast /\ [CacheNext]_cacheVars
        => [\A p \in Person : Step(p)]_cacheVars
  BY <1>1
<1> QED
  BY <1>2, CacheTypeCorrect, PastAlways, PTL DEF CacheSpec, AnswersDoNotAge

-----------------------------------------------------------------------------
(***************************************************************************)
(* The seven parts together                                                *)
(***************************************************************************)
\* A queue nobody looks at is typed too.
LEMMA RestTyped == QueueRests => QueueTypeOK
<1> SUFFICES ASSUME QueueRests PROVE QueueTypeOK
  OBVIOUS
<1>1. RecordsTypeOK
  BY RecordsAssumption DEF QueueRests, RecordsTypeOK, Day
<1>2. decisions \in [App -> SUBSET Decided]
  BY DEF QueueRests
<1>3. Empty \in Queue
  BY DEF Empty, Queue
<1>4. queue \in [Desk -> Queue]
  BY <1>3 DEF QueueRests
<1>5. /\ panel \in [Desk -> Row \cup {Null}]
      /\ press \in [Desk -> [row : Row, answer : {"none", "done", "failed"}] \cup {Null}]
      /\ alert \in [Desk -> Row \cup {Null}]
  BY DEF QueueRests
<1>6. visible \subseteq Desk /\ interval \subseteq Desk /\ polls \subseteq QueuePoll
  BY DEF QueueRests
<1> QED BY <1>1, <1>2, <1>4, <1>5, <1>6 DEF QueueTypeOK

\* A step of the whole is a step of each part, or leaves it alone.
LEMMA ServicesStep ==
    ASSUME [ServicesNext]_<<focus, servicesVars>>
    PROVE  /\ [ScanNext]_scanVars /\ [PaymentNext]_paymentVars
           /\ [CacheNext]_cacheVars /\ [BrowserNext]_browserVars
           /\ [QueueNext]_queueVars /\ [StatusNext]_statusVars
           /\ [SimilarityNext]_query
  BY Zenon DEF ServicesNext, servicesVars

\* So a behaviour of the whole shows behaviours of the parts, except that the
\* queue may begin in a state of rest.
LEMMA ServicesParts ==
    ServicesSpec => /\ ScanSpec /\ PaymentSpec /\ CacheSpec /\ BrowserSpec
                    /\ StatusSpec /\ SimilaritySpec
<1>1. ServicesInit => /\ ScanInit /\ PaymentInit /\ CacheInit /\ BrowserInit
                      /\ StatusInit /\ SimilarityInit
  BY DEF ServicesInit, ServicesBegin
<1> QED BY <1>1, ServicesStep, PTL
        DEF ServicesSpec, ScanSpec, PaymentSpec, CacheSpec, BrowserSpec, StatusSpec,
            SimilaritySpec

(***************************************************************************)
(* Every state of the composition has its type: each part keeps its own,   *)
(* whichever of them a behaviour moves.                                    *)
(***************************************************************************)
THEOREM ServicesTypeCorrect == ServicesSpec => []ServicesTypeOK
<1>1. SimilaritySpec => []SimilarityTypeOK
  <2>1. SimilarityInit => SimilarityTypeOK
    BY DEF SimilarityInit, SimilarityTypeOK
  <2> QED BY <2>1, QueryTyped, PTL DEF SimilaritySpec
<1>2. ServicesSpec => []QueueTypeOK
  <2>1. ServicesInit => QueueTypeOK
    BY QueueTypeStart, RestTyped DEF ServicesInit, ServicesBegin
  <2>2. QueueTypeOK /\ [ServicesNext]_<<focus, servicesVars>> => QueueTypeOK'
    BY ServicesStep, QueueTypeStep
  <2> QED BY <2>1, <2>2, PTL DEF ServicesSpec
<1>3. ServicesTypeOK <=> /\ ScanTypeOK /\ PaymentTypeOK /\ CacheTypeOK
                         /\ BrowserTypeOK /\ QueueTypeOK /\ StatusTypeOK /\ SimilarityTypeOK
  BY DEF ServicesTypeOK
<1> QED BY <1>1, <1>2, <1>3, ServicesParts, ScanTypeCorrect, PaymentTypeCorrect,
           CacheTypeCorrect, BrowserTypeCorrect, StatusTypeCorrect, PTL
=============================================================================
