---------------------------- MODULE DocumentScan ----------------------------
(***************************************************************************)
(* Uploaded documents and their virus scan                                 *)
(* (services/document-service/src/routes/documents.ts and its scanner/).   *)
(*                                                                         *)
(* A document is a file on disk and a row of the table `documents`.  Only  *)
(* the scan awaits something: first the connection to the ClamAV daemon,   *)
(* then its reply.  In between, other requests run: a second scan of the   *)
(* same document, or its deletion.  Every other handler is synchronous.    *)
(*                                                                         *)
(* Download is a read: it serves a document whose status is clean and      *)
(* whose scan result says scanned (Served below).                          *)
(***************************************************************************)
EXTENDS SqlNull, Naturals

CONSTANTS
    Document,
    Infected,       \* the documents the daemon finds something in
    ScanRequest,    \* scan requests in progress at the same time, at most
    Unscannable,    \* documents it may give no verdict on
    MaxFaults       \* crashes, handlers cut short and hung, at most

ASSUME DocumentAssumption ==
    /\ Infected \subseteq Document
    /\ Unscannable \subseteq Document
    /\ MaxFaults \in Nat

ScanStatus == {"pending", "uploaded", "scanning", "clean", "quarantined",
               "scan_failed"}

ScanResult == [scanned : BOOLEAN, infected : BOOLEAN]

DocRow == [status : ScanStatus, result : ScanResult \cup {Null}]

\* A scan request in progress: its document, and the await it is at.
Scan == [of : Document, at : {"connecting", "hung", "reading", "replying"}]

ASSUME ScanNullAssumption ==
    Null \notin DocRow /\ Null \notin ScanResult /\ Null \notin Scan

VARIABLES
    file,           \* documents whose file is on disk
    uploading,      \* files received, their handler yet to run
    doc,            \* rows of `documents`, Null when there is none
    scan,           \* the document each request scans, and how far it is
    connected,      \* the cached scanner: the daemon has answered once
    faults          \* crashes, handlers cut short and hung so far

scanVars == <<file, uploading, doc, scan, connected, faults>>

ScanTypeOK ==
    /\ file \subseteq Document
    /\ uploading \subseteq Document
    /\ doc \in [Document -> DocRow \cup {Null}]
    /\ scan \in [ScanRequest -> Scan \cup {Null}]
    /\ connected \in BOOLEAN
    /\ faults \in 0..MaxFaults

ScanInit ==
    /\ file = {} /\ uploading = {}
    /\ doc = [d \in Document |-> Null]
    /\ scan = [r \in ScanRequest |-> Null]
    /\ connected = FALSE
    /\ faults = 0

Scans(r, d) == scan[r] # Null /\ scan[r].of = d

\* A handler makes its k writes, or a fault cuts it short after n of them.
Writes(n, k) ==
    \/ n = k /\ UNCHANGED faults
    \/ n \in 1..(k - 1) /\ faults < MaxFaults /\ faults' = faults + 1

\* documents.updateScanStatus: an UPDATE, nothing when the row is gone.
ScanStatusSet(d, status, result) ==
    doc' = [doc EXCEPT ![d] =
                IF @ = Null THEN Null ELSE [status |-> status, result |-> result]]

-----------------------------------------------------------------------------
\* multer stores the file before the handler of POST /upload runs; the id is new.
ReceiveFile(d) ==
    /\ d \notin file /\ doc[d] = Null
    /\ \A r \in ScanRequest : ~Scans(r, d)
    /\ file' = file \cup {d}
    /\ uploading' = uploading \cup {d}
    /\ UNCHANGED <<doc, scan, connected, faults>>

\* POST /upload: the row is created pending, then moved to uploaded.
Upload(d) ==
    \E n \in 1..2 :
        /\ d \in uploading
        /\ Writes(n, 2)
        /\ uploading' = uploading \ {d}
        /\ doc' = [doc EXCEPT ![d] =
                    [status |-> IF n = 2 THEN "uploaded" ELSE "pending",
                     result |-> Null]]
        /\ UNCHANGED <<file, scan, connected>>

\* A mutant: the file of a refused upload is left on disk.
RefuseUploadKeep(d) ==
    /\ d \in uploading
    /\ uploading' = uploading \ {d}
    /\ UNCHANGED <<file, doc, scan, connected, faults>>

\* POST /upload naming an application that does not exist.
RefuseUpload(d) ==
    /\ d \in uploading
    /\ uploading' = uploading \ {d}
    /\ file' = file \ {d}
    /\ UNCHANGED <<doc, scan, connected, faults>>

\* DELETE /:id: the file goes first, then the row.
Delete(d) ==
    \E n \in 1..2 :
        /\ doc[d] # Null
        /\ Writes(n, 2)
        /\ file' = file \ {d}
        /\ doc' = IF n = 2 THEN [doc EXCEPT ![d] = Null] ELSE doc
        /\ UNCHANGED <<uploading, scan, connected>>

-----------------------------------------------------------------------------
\* POST /:id/scan, up to its first await; the cached scanner needs no connection.
RequestScan(r, d) ==
    /\ scan[r] = Null
    /\ doc[d] # Null
    /\ ScanStatusSet(d, "scanning", Null)
    /\ scan' = [scan EXCEPT ![r] =
                    [of |-> d, at |-> IF connected THEN "reading" ELSE "connecting"]]
    /\ UNCHANGED <<file, uploading, connected, faults>>

\* A mutant: a scan that could not start does not give the status back.
NoScannerKeep(r) ==
    /\ scan[r] # Null /\ scan[r].at = "connecting"
    /\ scan' = [scan EXCEPT ![r] = Null]
    /\ UNCHANGED <<file, uploading, doc, connected, faults>>

\* getScanner throws: the daemon refuses, times out or answers no PONG.
NoScanner(r) ==
    /\ scan[r] # Null /\ scan[r].at = "connecting"
    /\ ScanStatusSet(scan[r].of, "uploaded", Null)
    /\ scan' = [scan EXCEPT ![r] = Null]
    /\ UNCHANGED <<file, uploading, connected, faults>>

GotScanner(r) ==
    /\ scan[r] # Null /\ scan[r].at = "connecting"
    /\ connected' = TRUE
    /\ scan' = [scan EXCEPT ![r].at = "reading"]
    /\ UNCHANGED <<file, uploading, doc, faults>>

\* The daemon closes after PING without a word: no listener ends the await.
HangsUp(r) ==
    /\ scan[r] # Null /\ scan[r].at = "connecting"
    /\ faults < MaxFaults
    /\ faults' = faults + 1
    /\ scan' = [scan EXCEPT ![r].at = "hung"]
    /\ UNCHANGED <<file, uploading, doc, connected>>

\* A mutant: a status that is none of the route's.
StatusOfError(result) ==
    CASE ~result.scanned -> "error"
      [] result.scanned /\ result.infected -> "quarantined"
      [] OTHER -> "clean"

\* A mutant: a scan that did not run is not told from one that found nothing.
StatusOfInfected(result) == IF result.infected THEN "quarantined" ELSE "clean"

StatusOf(result) ==
    CASE ~result.scanned -> "scan_failed"
      [] result.scanned /\ result.infected -> "quarantined"
      [] OTHER -> "clean"

\* The result is recorded and the request answered in one turn of the event loop.
Settle(r, result) ==
    /\ ScanStatusSet(scan[r].of, StatusOf(result), result)
    /\ scan' = [scan EXCEPT ![r] = Null]
    /\ UNCHANGED <<file, uploading, connected, faults>>

NotScanned == [scanned |-> FALSE, infected |-> FALSE]

\* scanFile: the file is read and sent off, if it is still there.
ReadFile(r) ==
    /\ scan[r] # Null /\ scan[r].at = "reading"
    /\ IF scan[r].of \in file
       THEN /\ scan' = [scan EXCEPT ![r].at = "replying"]
            /\ UNCHANGED <<file, uploading, doc, connected, faults>>
       ELSE Settle(r, NotScanned)

(***************************************************************************)
(* The daemon ends its reply: "OK" or "... FOUND", a true verdict on what  *)
(* it was sent, or without one (an ERROR line, nothing at all), and the    *)
(* code finds no FOUND in it.                                              *)
(***************************************************************************)
Replied(r) ==
    /\ scan[r] # Null /\ scan[r].at = "replying"
    /\ \/ Settle(r, [scanned |-> TRUE, infected |-> scan[r].of \in Infected])
       \/ /\ scan[r].of \in Unscannable
          /\ Settle(r, [scanned |-> TRUE, infected |-> FALSE])

\* The connection fails, or the daemon stays silent for CLAMAV_TIMEOUT.
ReplyLost(r) ==
    /\ scan[r] # Null /\ scan[r].at = "replying"
    /\ Settle(r, NotScanned)

\* The process ends and starts again: whatever was in its memory is lost.
Crash ==
    /\ faults < MaxFaults
    /\ faults' = faults + 1
    /\ scan' = [r \in ScanRequest |-> Null]
    /\ uploading' = {}
    /\ connected' = FALSE
    /\ UNCHANGED <<file, doc>>

\* A mutant: without the time-out nothing ends a reply that does not come.
AdvanceOnReply(r) == NoScanner(r) \/ GotScanner(r) \/ ReadFile(r)

Advance(r) ==
    \/ NoScanner(r) \/ GotScanner(r) \/ ReadFile(r) \/ Replied(r) \/ ReplyLost(r)

ScanNext ==
    \/ \E d \in Document :
            ReceiveFile(d) \/ Upload(d) \/ RefuseUpload(d) \/ Delete(d)
    \/ \E r \in ScanRequest :
            Advance(r) \/ HangsUp(r) \/ \E d \in Document : RequestScan(r, d)
    \/ Crash

ScanSpec == ScanInit /\ [][ScanNext]_scanVars

(***************************************************************************)
(* Each await of a scan ends, its sockets have time-outs; only a hung one  *)
(* does not.  Requests and faults owe nothing.                             *)
(***************************************************************************)
ScanFairness == \A r \in ScanRequest : WF_scanVars(Advance(r))

-----------------------------------------------------------------------------
Served(d) ==
    /\ doc[d] # Null
    /\ doc[d].status = "clean"
    /\ doc[d].result # Null /\ doc[d].result.scanned

(***************************************************************************)
(* "'clean' requires a scan that actually ran and found nothing; a scan    *)
(* that did not run is 'scan_failed', never clean" (documents.ts:157-159): *)
(* what is served is not infected, and what is quarantined is, whatever    *)
(* scans overlapped, failed, lost their file or their process.  Only the   *)
(* documents the daemon refuses escape (CleanMeansFoundNothing).           *)
(***************************************************************************)
VerdictIsTrue ==
    \A d \in Document : doc[d] # Null =>
        /\ doc[d].status = "clean" =>
            Served(d) /\ (d \in Infected => d \in Unscannable)
        /\ doc[d].status = "quarantined" => d \in Infected

(***************************************************************************)
(* A document shown as being scanned is: some request still holds the scan *)
(* that will replace the status.  Overlapping scans and deletions do not   *)
(* strand it; only a fault does.                                           *)
(***************************************************************************)
ScanningHasAScan ==
    faults = 0 =>
        \A d \in Document :
            doc[d] # Null /\ doc[d].status = "scanning" =>
                \E r \in ScanRequest : Scans(r, d)

(***************************************************************************)
(* Until a fault no file is orphaned and no row loses its file: a file     *)
(* is on disk exactly while its upload is handled or its row exists.       *)
(***************************************************************************)
FilesMatchRows ==
    faults = 0 =>
        \A d \in Document : d \in file <=> (d \in uploading \/ doc[d] # Null)

(***************************************************************************)
(* A scan comes to an end: unless a fault strands it, a document does not  *)
(* stay "scanning" for ever, however many scans of it overlap.             *)
(***************************************************************************)
ScansSettle ==
    \A d \in Document :
        (doc[d] # Null /\ doc[d].status = "scanning") ~>
            (doc[d] = Null \/ doc[d].status # "scanning" \/ faults > 0)

(***************************************************************************)
(* The same comment (documents.ts:157-159), of every document.             *)
(***************************************************************************)
CleanMeansFoundNothing ==
    \A d \in Document : Served(d) => d \notin Infected
=============================================================================
