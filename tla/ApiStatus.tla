------------------------------ MODULE ApiStatus ------------------------------
(***************************************************************************)
(* What the web application says of the back end (ApiStatusProvider of     *)
(* apps/web/src/app/ApiStatus.tsx): connected, waking or offline.          *)
(*                                                                         *)
(* A chain of timers probes the API, each delay chosen from the failures   *)
(* so far, and a tab that comes back into view probes at once, whatever    *)
(* the chain is doing.  Probes overlap and their answers arrive in any     *)
(* order.  Time passes in ticks of 30 seconds; a probe is aborted after 8  *)
(* seconds, so none is still on its way when a tick ends.                  *)
(***************************************************************************)
EXTENDS Naturals, Sequences

CONSTANTS
    Extra,          \* probes of a tab coming back that may overlap: a bound
    Elapsed,        \* the times a probe may take, in milliseconds
    Window,         \* response times kept
    SlowAverage,    \* the average above which the API is slow
    MaxDelay        \* the longest delay between two probes of the chain, in ticks

ASSUME StatusAssumption ==
    /\ "chain" \notin Extra
    /\ Elapsed \subseteq Nat /\ Window \in Nat \ {0}
    /\ SlowAverage \in Nat /\ MaxDelay \in Nat \ {0}

VARIABLES
    up,             \* the API answers, and within 8 seconds
    inView,         \* the tab is not hidden
    timer,          \* ticks until the chain's next run
    probe,          \* the probes on their way, and their answers
    apiStatus,      \* status
    failCount,      \* failures since the last success; no delay or test reads past 4
    responseTimes, isSlow, connectedSince,
    steady          \* ticks the API has been up and the tab in view (history)

statusVars == <<up, inView, timer, probe, apiStatus, failCount, responseTimes,
                isSlow, connectedSince, steady>>

world == <<up, inView, steady>>

shownStatus == <<apiStatus, failCount, responseTimes, isSlow, connectedSince>>

Probe == {"chain"} \cup Extra

MaxFailures == 4

\* The sum of a sequence of numbers.
Total(s) ==
    LET sum[k \in 0..Len(s)] == IF k = 0 THEN 0 ELSE sum[k - 1] + s[k]
    IN  sum[Len(s)]

StatusTypeOK ==
    /\ up \in BOOLEAN /\ inView \in BOOLEAN
    /\ timer \in Nat
    /\ probe \in [Probe -> {"idle", "sent", "ok", "unwell", "failed"}]
    /\ apiStatus \in {"connected", "waking", "offline"}
    /\ failCount \in 0..MaxFailures
    /\ responseTimes \in Seq(Elapsed) /\ Len(responseTimes) <= Window
    /\ isSlow \in BOOLEAN /\ connectedSince \in BOOLEAN
    /\ steady \in 0..(MaxDelay + 1)

\* The provider is mounted: its first run is due.
StatusInit ==
    /\ up \in BOOLEAN /\ inView \in BOOLEAN
    /\ timer = 0
    /\ probe = [p \in Probe |-> "idle"]
    /\ apiStatus = "waking" /\ failCount = 0
    /\ responseTimes = <<>> /\ isSlow = FALSE /\ connectedSince = FALSE
    /\ steady = 0

-----------------------------------------------------------------------------
Least(a, b) == IF a < b THEN a ELSE b

\* A mutant: the back-off is not capped.
DelayUncapped(failures) == IF failures = 0 THEN 1 ELSE 2 ^ Least(failures, 4)

\* delayFor: 30 seconds, or 60, 120, 240 and then 300 of them.
DelayFor(failures) ==
    IF failures = 0 THEN 1 ELSE Least(2 ^ Least(failures, 4), MaxDelay)

\* run: a hidden tab sends no probe, and looks again later.
Run ==
    /\ timer = 0 /\ probe["chain"] = "idle"
    /\ IF inView
       THEN /\ probe' = [probe EXCEPT !["chain"] = "sent"]
            /\ UNCHANGED timer
       ELSE /\ timer' = DelayFor(failCount)
            /\ UNCHANGED probe
    /\ UNCHANGED <<world, shownStatus>>

\* The API answers, with an error perhaps, or is out of reach.
GetAnswer(p) ==
    /\ probe[p] = "sent"
    /\ \E answer \in IF up THEN {"ok"} ELSE {"unwell", "failed"} :
            probe' = [probe EXCEPT ![p] = answer]
    /\ UNCHANGED <<world, timer, shownStatus>>

\* The chain schedules its next run after each of its probes.
ScheduleNext(p) ==
    timer' = IF p = "chain" THEN DelayFor(failCount') ELSE timer

\* checkHealth, when the answer is in.
Succeed(p, elapsed) ==
    /\ probe[p] = "ok"
    /\ probe' = [probe EXCEPT ![p] = "idle"]
    /\ apiStatus' = "connected"
    /\ failCount' = 0
    /\ connectedSince' = TRUE
    /\ LET times == Append(responseTimes, elapsed)
       IN  responseTimes' = IF Len(times) > Window THEN Tail(times) ELSE times
    /\ isSlow' = (Total(responseTimes') > SlowAverage * Len(responseTimes'))
    /\ ScheduleNext(p)
    /\ UNCHANGED world

Fail(p) ==
    /\ probe[p] \in {"unwell", "failed"}
    /\ probe' = [probe EXCEPT ![p] = "idle"]
    /\ failCount' = Least(failCount + 1, MaxFailures)
    /\ apiStatus' = IF failCount' >= 3 THEN "offline" ELSE "waking"
    /\ connectedSince' =
            (connectedSince /\ ~(probe[p] = "failed" /\ failCount' >= 3))
    /\ ScheduleNext(p)
    /\ UNCHANGED <<world, responseTimes, isSlow>>

\* onVisibilityChange
GoAway ==
    /\ inView
    /\ inView' = FALSE /\ steady' = 0
    /\ UNCHANGED <<up, timer, probe, shownStatus>>

ComeBack ==
    /\ ~inView
    /\ inView' = TRUE /\ steady' = 0
    /\ \E p \in Extra :
            /\ probe[p] = "idle"
            /\ probe' = [probe EXCEPT ![p] = "sent"]
    /\ UNCHANGED <<up, timer, shownStatus>>

\* The API goes to sleep, fails, or is back.
Turn ==
    /\ up' = ~up /\ steady' = 0
    /\ UNCHANGED <<inView, timer, probe, shownStatus>>

HalfMinute ==
    /\ timer > 0
    /\ \A p \in Probe : probe[p] = "idle"
    /\ timer' = timer - 1
    /\ steady' = IF up /\ inView THEN Least(steady + 1, MaxDelay + 1) ELSE 0
    /\ UNCHANGED <<up, inView, probe, shownStatus>>

StatusNext ==
    \/ Run \/ GoAway \/ ComeBack \/ Turn \/ HalfMinute
    \/ \E p \in Probe :
            GetAnswer(p) \/ Fail(p) \/ \E elapsed \in Elapsed : Succeed(p, elapsed)

StatusSpec == StatusInit /\ [][StatusNext]_statusVars

-----------------------------------------------------------------------------
(***************************************************************************)
(* An API that is up, under a tab in view, is shown as connected after     *)
(* five minutes at most (ApiStatus.tsx:98, "cap at 5 minutes"), however    *)
(* long it was away before, however often the tab was hidden meanwhile,    *)
(* and whatever late answers of older probes said.                         *)
(***************************************************************************)
RecoveryIsNoticed == steady > MaxDelay => apiStatus = "connected"
=============================================================================
