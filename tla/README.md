# The AiB debt-relief platform in TLA+

The repository is a proof of concept for the Accountant in Bankruptcy: a citizen
applies for a debt solution on a web form, a rules engine recommends a statutory
product, officers work the case, and a background worker reminds them of the
statutory clocks. It is a TypeScript monorepo of Express services over SQLite. In
the deployment modelled here every service runs in the one process of
`services/consolidated-api`; `docker-compose` starts the same services separately
on the same database, which is why some models allow two processes.

Each module models one component, `MC*` modules and `.cfg` files instantiate it
for TLC, and `*Proofs` modules hold what TLAPS proves of it for every value of
the constants. Paths in this file are relative to the repository.

## 1. Inventory

### Components

| Component | State | Operations | Where | Model |
|---|---|---|---|---|
| Case files | `applications`, `recommendations`, `audit_events`, `notifications` | create, edit, submit, change status, assign, recommend, override | `services/api-gateway/src/routes/applications.ts`, `packages/database/src/repositories` | `CaseRecords`, `CaseFile` |
| SLA worker | `sla_events` (the idempotency ledger), the sweep in progress | sweep, commit of one milestone | `services/api-gateway/src/sla` | `SlaWorker`, `ReminderLedger` |
| Statutory clocks | none (pure) | windows of each product, posture, milestone | `packages/statutory/src/{clocks,caseClocks}.ts`, `sla/engine.ts` | `StatutoryClocks` |
| Rules engine | none (pure) | `calculateRecommendation` | `services/recommendation-service/src/engine/rules.ts` | `Recommendation` |
| Document service | files on disk, `documents`, scans awaiting ClamAV | upload, scan, delete, download | `services/document-service/src` | `DocumentScan` |
| Payment service | `payments` | initiate, pay by three methods, refund | `services/payment-service/src` | `Payments` |
| Credit check service | `credit_check_cache`, checks awaiting a provider | run a check | `services/credit-check-service/src` | `CreditCheckCache` |
| Calendar | none (pure) | days and months after a date | `packages/statutory/src/clocks.ts` | `Calendar` |
| Common Financial Tool | none (pure) | contribution and contingency from income and expenditure | `packages/statutory/src/cft.ts` | `Cft` |
| Authentication, OIDC, user service | `users`, `role_permissions`, `sessions`; signed tokens, challenges, links, states and codes | sign in (password, second factor, federated), log out, invite, set password, manage accounts and grants; the seeding of each start | `services/api-gateway/src/{routes/auth.ts,middleware,oidc}`, `services/user-service/src`, `packages/database/src` | `Sessions`, `TokenLife` |
| Browser session | `localStorage`, shared by tabs; memory and `sessionStorage` of each tab | sign in, load a page, poll, be refused, log out, sign out | `apps/web/src/lib/apiClient.ts`, login and callback pages | `BrowserSession` |
| Application form | the form, the debounced save, the application's id, the pending submission | create, save, submit, retry, leave, reload | `apps/web/src/app/apply/page.tsx` | `ApplyClient` |
| Register checks and advice | what the form knows of each register | check-all, check one after the other, credit check, ask for advice | `services/integration-orchestrator/src`, `services/mock-integrations/src`, `apply/page.tsx` | `SystemChecks` |
| Officers' dashboard | the queue shown, the open panel | poll, hide, show, select, decide | `apps/web/src/app/dashboard/page.tsx` | `StaffQueue` |
| Connection status | probes on their way, failures in a row, the chain's timer | probe, answer, back off, hide, return | `apps/web/src/app/ApiStatus.tsx` | `ApiStatus` |
| Search scores | none (pure) | align two words, pair the words of two names, score a reference | `apps/web/src/lib/nameSimilarity.ts` | `NameSimilarity` |
| Notification, identity, organisation, audit services | a table each | single-row writes and queries | `services/*` | what the case handlers write is in `CaseFile`; the rest left out |
| .NET API, admin application, infrastructure | | | `services/dotnet-api`, `apps/admin`, `infra` | left out |

### How they interact

Everything meets in the database. A request handler is synchronous JavaScript
(better-sqlite3 has no await), so two handlers of one process never interleave,
but a handler commits one SQL statement at a time: only creating an application
and committing a milestone run in a transaction. The worker runs on a timer in the
same process and reads the rows the handlers write; a second process may do both
at the same time. The rules engine's product reaches the worker through the
recommendation row. Three components do await something, and other requests run
meanwhile: a document scan (ClamAV), a credit check (the provider) and the
orchestrator (the mock integrations).

The web application is a client of these handlers over a network: its requests and
their answers are lost, late and reordered, its pages are left and loaded again,
and its tabs share what the browser stores. `ApplyClient` and `StaffQueue` are
built on the rows of `CaseRecords`; `BrowserSession` is built on `TokenLife`, which
is all it needs to know of the server and which `Sessions` implements.

### What is hard

- *Several writes, no transaction.* A stop between the row, the audit event and
  the notification leaves the first ones.
- *Rows held while they change.* A sweep holds a page of cases and the day it began.
- *Idempotency keys.* The ledger's key outlives the deadline it was written for.
- *Awaits.* Scans overlap with each other and with deletion; checks overlap.
- *Retries.* A payment may be attempted again, a case submitted again.
- *Snapshots.* A token carries the permissions of the day it was issued; a panel
  holds a copy of its row; a timer holds the form of one change.
- *The network.* The form's creation, saves and submissions overlap; a submission
  that timed out may still be served; polls overtake one another.
- *Shared storage.* One key holds the pending submission of any application, two
  keys hold the token and the user of any tab.
- *Boundaries.* Months of different length,
  days to a deadline, amounts around a threshold, a day's end.

`PROJECT.json` lists the hazards line by line with the properties that watch them.

### What makes each component correct

- Case files: the audit trail explains the case; nobody is told what did not
  happen; a decision stands; a submission has a date.
- SLA worker: a milestone is reported once, not before its day, and in the end.
- Clocks: the three views of a clock agree.
- Rules engine: no gap, nobody advised what they cannot have, more surplus never
  repays less.
- Documents: a verdict is true; no scan is stranded; files and rows agree.
- Payments: no more is refunded than was paid; the receipt is the latest.
- Credit checks: an answer is not too old and is never replaced by an older one.
- Sessions: stale permissions end within a token's life, and a token refused once is
  refused for ever.
- Browser: the name shown is that of the token stored, and a dead token goes.
- Application form: one draft a visit, a submitted form is not touched, an
  application shown as saved is submitted or still kept.
- Register checks: check-all hides no entry without an error.
- Dashboard: a queue in view catches up; no row shows a decision that was not made.
- Connection: an API that is back is noticed within five minutes.
- Search: the reason shown is the reason for the figure beside it.
- Calendar and Financial Tool: later cases are not due earlier; need costs nothing.

## 2. Plan

| | Modules | Proved in |
|---|---|---|
| rows and handlers | `SqlNull` <- `CaseRecords` <- `CaseFile` | `CaseFileProofs` |
| clocks and reminders | `StatutoryClocks` <- `WatchedCase`; `Calendar`; `ReminderLedger` <- `SlaWorker` (EXTENDS `CaseRecords` and `StatutoryClocks`) | `SlaWorkerProofs`; `WatchedCase` and `Calendar` in `StatuteProofs` |
| services that await | `DocumentScan`, `Payments`, `CreditCheckCache` | `ServicesProofs` |
| rules | `Recommendation` <- `SystemChecks`; `Cft` | `StatuteProofs` |
| access | `TokenLife` <- `Sessions` (implements it), `BrowserSession` (EXTENDS it) | `SessionsProofs`; `BrowserSession` in `WebProofs` |
| web clients | `ApplyClient`, `StaffQueue` (both EXTEND `CaseRecords`); `ApiStatus`, `NameSimilarity` | `ApplyClientProofs`; `StaffQueue` and `ApiStatus` in `WebProofs`; `NameSimilarityProofs` |
| compositions | `Focus` <- `MCStatute`, `MCServices` <- `MCStatuteAndServices`; `Focus` <- `MCAccess` | their types at the end of `StatuteProofs`, `ServicesProofs` and `ApplyClientProofs` |

`A <- B`: B builds on A. Two abstract specifications are stated and implemented:
`ReminderLedger` (each key fired at most once) by `SlaWorker`, and `TokenLife` (a
token has one holder and is refused for good) by `Sessions`, and `BrowserSession`
keeps to it.

Worth doing next: the case view (`CaseDetail.tsx`) beside `StaffQueue`; the search
page around `NameSimilarity` (its debounce, and searches that overlap: the answer of
an older one may replace a newer one's); who may call which handler of `CaseFile`,
from the permissions of `Sessions`.

## 3. Modules

**CaseRecords** - the rows `app` and `rec` and the date `today`, and one operator
per SQL effect of a handler (`CreateRow`, `EditRow`, `SubmitRow`, `StatusRow`,
`AssignRow`, `RecommendRow`, `OverrideRow`). Operators that make several writes
take the number made; `Made(k)` is `{k}` for handlers that finish and `1..k` for
handlers that may be cut short. `Init` is the database after its first boot: empty
or with the demonstration cases.

**SqlNull** - `Null`, which the modules share so that they compose.

**CaseFile** - adds `trail` (a case's audit events, in order) and `inbox` (its
notifications). One action per handler, in the code's order of writes. `MaxTrail`
bounds the trail.

**StatutoryClocks** - the clocks as operators: `NormaliseProduct`, `CaseClocks`,
`MilestonesOf`, `EvaluateCase`, `PostureOf`, `NextDeadline`. Days are numbers;
calendar months are constants of their length in days.

**SlaWorker** - adds `ledger`, the counts `logged` and `told`, and `sweep`, what
each process holds of its sweep in progress. `StartSweep`, `VisitCase`,
`CommitEvent` (one transaction) and `NextStatus` are `runTick`; `CommitFails` is
its `catch`; `Crash` loses the sweep. A sweep is synchronous, so a process serves
requests (`Serve`) only between sweeps; the other process serves them at any time.

**ReminderLedger** - the promise: a set of keys, each fired at most once.

**DocumentScan** - files, rows, uploads in progress and scans, each at one of its
awaits (`connecting`, `reading`, `replying`, or `hung`). `faults` counts crashes,
handlers cut short between two writes and hung requests; `Unscannable` are the
documents the daemon may end its reply on without a verdict.

**Payments** - payment rows, with counters of what the provider approved and what
was refunded. The three payment handlers change the row alike and are one action;
those of the payments in `CutShort` may stop between the status and the reference.

**CreditCheckCache** - the cache, the checks in progress, the last response and a
clock in hours. The text comparison of the expiry is modelled by what it decides:
`ServedWithinADay`, what the repository says of the cache, is found violated.

**Recommendation** - each rule an operator (`SuitsMinimalAsset`, ...), and
`Recommend` the chain. A behaviour revises one circumstance at a time.

**WatchedCase** - one submitted case, swept by `EvaluateCase` day by day, to set
the operators of `StatutoryClocks` against each other.

**Calendar** - days as numbers, `DateOf` and `SetMonth` what a JavaScript `Date`
does between them and the calendar's fields (external, local time without a change
of clocks), `AddDays` and `AddMonths` the code's functions, `DueOn` every window.

**Cft** - the assessment in pence as operators of a stored statement; a behaviour
revises one amount at a time. The amounts of income are one sum.

**Sessions** - accounts, grants, issued tokens (`claims`, by jti), rows of
`sessions`, and per user the latest challenge, link and federated sign-in; a clock.
One action per route; `IssueToken` is what the three kinds of sign-in share;
`Restart` is what a start does to the database and to the mock provider's key.
`Bearers` is all that `authenticate` lets in. Only a token with a jti is looked up in
`sessions` (`rbac.ts:46`); a challenge (`auth.ts:96`), a set-password link
(`auth.ts:182`) and the state of a federated sign-in (`oidc/router.ts:185`) are signed
with the same key and have none, so they are let in too until they expire, with no
permissions. The capability of an application (`applications.ts:39`) is let in the
same way for 90 days; it names no user and is outside the module. The status of an
account is any string in the code; whatever is not `active` acts alike, and
`UpdateUser` writes one other.
`lastHeld` is a history variable, written by `Remember` only: when each active
account last held each permission. User-service and gateway have a login and logout
of their own that do the same and are the same actions here.

**TokenLife** - a token is issued to one user, is accepted, and dies.

**BrowserSession** - the two keys of `localStorage`, each tab's memory and
`sessionStorage`, a poll of each tab on its way, the toast. The poll of the
notification bell stands for every request with a token. A storage write of one tab
is seen by the others at once.

**ApplyClient** - one tab with the form; `data` is what the server holds of each
form. `creations`, `saves` and `submits` are requests on their way, with who waits
for each answer. `submitting` and the await of a submission belong to the payment
section, which comes and goes (`OpenPayment`, `ClosePayment`) while the page stays:
mounted again, its button is enabled though a submission is on its way, so several
overlap, each in a `Slot`, and each mount starts a retry of what is pending. What a
submission or a retry does when it ends, it does as the render that sent it: `id` and
`offline` are of that moment. `Leave` is navigation within the application: state of
the page is lost, timers and awaits run on, and the context keeps the application's
id. `Reload` ends those too. `Slot`, `MaxSaves`, `MaxLost` and `MaxVisits` bound what
overlaps, is lost and is left. `promised` and `aside` are history variables: the
applications whose debtors were told that theirs is saved, and all that the one key
of `localStorage` has held so far. The second is not the first: a submission that
fails after its section was left takes the key and tells nobody. A call to
`updateField` of a page that is gone changes nothing here; whether React would still
run its updater is not modelled.

**StaffQueue** - the dashboards' polls, queue, panel and the panel's update; the
handlers it meets are `SubmitRow` and `StatusRow` of `CaseRecords`. Of a row the
status is kept, and one update of a panel is on its way at a time. `alert` is the
answer of the panel to a press that failed, "Status updated (demo)"
(`dashboard/page.tsx:655-657`). It is not true, and no property says otherwise:
`NoPhantomDecision` is about the rows of queue and panel.

**SystemChecks** - the registers, asked at once (`CheckAll`, `SettleCheck`, `Reply`) or
one after the other by the form (`CheckNext`), then the credit check and the advice,
with `Recommend` of `Recommendation` as the engine. The form sends `existingCases` as a
Boolean (`page.tsx:1959`), which the engine answers with 400 (`rules.ts:59`), so the
advice shown is the form's own (`StaticAdvice`).

**ApiStatus** - the chain of probes (`timer`, and the probe `"chain"`), the probes of
a tab that comes back (`Extra`), and what their answers leave: `failCount`,
`apiStatus`, the response times. Time passes in ticks of 30 seconds, the unit of
`delayFor`; no probe outlasts a tick, as it is aborted after 8 seconds. `up` is
whether the API answers within those. `failCount` stops at 4, past which nothing
reads it. `steady` is a history variable.

**NameSimilarity** - the table of `align` cell by cell (`Cell`, `RowOf`, `Table`), the
walk back (`LastEdit`, `Edits`), the greedy pairing of words (`Pair`, `Pairing`) and
the two ways to score. The percentages `lib/__tests__/nameSimilarity.test.ts` asserts
are those of `Similarity`. Costs are quarters and scores exact fractions, where the
code has floats. What Fuse finds before is not modelled: any record may be scored.
Loops are recursive functions, which can be proved about (section 5).
`ExplanationAddsUp` asks that 100% be shown for exact matches only, of searches whose
number of words times the letters of the longest is below a thousand (`ShortEnough`):
in longer ones an edit that costs half a letter is no more than what `round1` rounds
away, and 100% stands beside the name of an edit.

Left out everywhere but in `Sessions`: who may call a handler (permissions, ownership,
capability tokens). Left out everywhere: the wording of notifications, what the debtor's
form says, and reads that change nothing. Definitions named "A mutant" in a comment are
not used by the specifications; they are variants of a definition that the properties
must detect.

## 4. Runs

| Run | Question | Bounds |
|---|---|---|
| `StatuteAndServices`, the statute | Do milestone, posture and displayed deadline agree, day by day? Do the rules leave no gap and advise nobody wrongly? Do windows of months fit the calendar? Does declaring more ever cost? Does check-all hide an entry? | the real windows, every form of every product, 380 days; the statutory amounts and values on, below and above each; three years with a leap year between; a category with a figure, one without and one unknown, three amounts; four debtors and four applicants, every outcome of six registers |
| the same, the services | Are verdicts true, scans settled, refunds covered; is no answer replaced by an older one; is the name stored that of the token; does a queue in view catch up and hold no phantom; is an API that is back noticed; is the reason beside a search result true, and the reason for its figure? | two documents, two scans, a fault; two payments, four approvals; one person, two checks, three days of four hours; two tabs, users and tokens; one desk, one case, two polls, one decision offered, three statuses set elsewhere (the two left out are, like `under_review`, not decisions, which is all the properties tell apart); one probe at a time beside the chain's, the code's delays, and an average over two answers in place of five; three searches of the page and their beginnings, and every text of up to three of six characters, against three records |
| `CaseFile` | Do trail, override and date hold for handlers that finish, when forms carry a stale assignee? | one case, two officers, one engine and one seed product more, four audit events |
| `CaseFileInterrupted` | And what holds when handlers are cut short and bodies carry case columns? | the same, two audit events |
| `SlaTwoProcesses` | Once only, with two processes racing? | one case, one product, days 0..2 |
| `SlaOneProcess` | Never early, and every lapse reported, with faults and interrupted handlers? | one case, two products, days 0..3, one fault |
| `Access` | Do stale permissions lapse, is a refusal final; one draft a visit, promise and submitted form kept? | an administrator with a second factor and a newcomer, two tokens, moments 0..3, lifetimes of 1 and 2, two changes by administrators; two applications, one field, two submissions and two saves at once, two losses, two returns to the form |

`StatuteAndServices` and `Access` each check several modules that share no state. The
variable `focus` of `Focus` names the one that moves; the others rest in an initial
state, so the states are the sum of the modules' states and not their product, and a
property of one module means the same there as alone. In `MCStatuteAndServices` the
resting modules have no fair action enabled, so that every fairness condition can be met
by resting.

Cases do not interact: no handler or sweep step reads a second case's rows to change the
first, so one case shows what goes wrong between actors; the theorems hold for any
number. Where two do interact, through the browser's one key for a pending submission,
`ApplyClient` has two. Two tabs and two tokens are what a stale identity takes; a second
officer's decisions reach the one desk of `MCServices` through `WorkElsewhere`.
Lifetimes of tokens, links and challenges are 2 moments and of states and codes 1, which
with arbitrary moments of issue gives every order of two expiries, also that of a link
that outlives the token issued before it. The sweep's windows are shortened to a few
days for `SlaWorker` so that several milestones of several clocks fall within the days
modelled; the real windows are those of `MCStatute`. A page holds at most 100 rows in
the code; the models have fewer cases, so a status is listed at once.

Deadlock checking is off where a bound (`MaxDay`, `MaxTrail`, `MaxHour`, `MaxTime`,
`MaxLost`, the ids of `Document`, `Token` and `App`) or the end of a form ends the
behaviours: there the model stops, not the system. It is on in `DocumentScanReply`.

### Disagreements between the code and what is said of it

Each of these runs checks one statement of the repository and finds it violated.

| Run | Statement | What happens |
|---|---|---|
| `SlaMovedDeadline` | a reminder when a clock breaches (`docs/user-stories.md:817`) | the ledger's key has no due date: the new deadline of a resubmitted case is not reported |
| `SlaEngineProduct` | the clock of "the recommended product" (`docs/use-cases.md:706`) | the names the rules engine stores are unknown to the clocks, so its cases get no reminder |
| `DocumentScanReply` | "clean requires a scan that ... found nothing" (`documents.ts:157`) | any reply without FOUND is clean |
| `ApplyPromise` | "It will be submitted automatically when the service reconnects. Your data is safe." (`apply/page.tsx:2224`) | the pending submission has one key: another application's failure overwrites it, another's success removes it |
| `CreditCheckDay` | "24-hour TTL" (`credit-check.ts:46`), "cached for 24 hours" (`docs/feature-catalogue.md:253`) | the expiry is compared as text, `T` against a space (`cache.ts:32`): an entry is served to the end of the day it expires on, up to nearly two days after it was obtained |
| `Deactivation` | "the user can no longer log in and their active sessions are terminated" (`docs/user-stories.md:645`) | deactivation leaves the rows of `sessions` (`users.ts:102`), and `authenticate` does not read the account: `StaleAccessLapses` is what bounds it |

Others were seen while modelling and have no run of their own; the models behave
this way, and the properties above are stated so that they hold nevertheless.

| Statement | What happens |
|---|---|
| "approved/rejected are terminal" (`sla/engine.ts:28`) | submit (`applications.ts:453`) has no guard on the status: see `DecisionStandsUntilResubmitted` |
| "Every state change ... logged" (`docs/architecture.md:30`) | a generated recommendation replaces another, and its override, without an audit event (`recommend.ts:46`) |
| worker, page and badge "agree by construction" (`applications.ts:699`) | the badge also covers decided cases, which the worker does not visit |
| a case without assignee "is skipped" (`docs/use-cases.md:714`) | its milestones are recorded and logged, only the notification is left out (`worker.ts:61`) |
| "Final recommendation uses the full rules engine." (`apply/page.tsx:403`) | the form sends `existingCases` as a Boolean (`page.tsx:1959`), the engine answers 400 (`rules.ts:59`), and the form shows its static advice: one request, modelled in `GetRecommendation` |
| "cached for 24 hours per application" (`docs/feature-catalogue.md:253`) | the key is the person (`credit-check.ts:47`) |
| no 5,000 floor for DAS (`thresholds.ts:84`) | the DAS rule has one (`rules.ts:168`): a debt of 4,900 with 51 to spare each month is offered no route |
| "solutions I may qualify for" (`docs/user-stories.md:349`) | MAP is an alternative to bankruptcy for debtors over its limits too (`rules.ts:234`) |
| role changes "take effect on the user's next action" (`docs/user-stories.md:646`) | a token keeps its permissions to its end: see `StaleAccessLapses` for the bound |
| tokens without a jti are "only ever in unit tests" (`rbac.ts:27`) | challenges, set-password links, states and capabilities have none, share the key and are let in: see `Bearers` |
| an administrator edits what a role may do (`roles.ts:93`) | the next start grants seeded permissions again (`packages/database/src/rbac.ts:86`) and gives an account without a password the demonstration's (`schema.ts:467`); the last administrator can be deactivated although `docs/use-cases.md:495` excludes it |
| logging out "finally invalidates a token for real" (`sessionStore.ts:7`) | it does (`RefusedForGood`), but the web application never calls `POST /auth/logout`, and "Sign out" of the account page removes one key of one tab (`account/page.tsx:123`) |
| a 401 means that this session expired (`apiClient.ts:217`) | it clears the session of every tab, also when an older token was refused than the one stored |
| "persisted to API on every section change" (`README.md:203`) | moving to the next section saves nothing; without an application's id the form shows a made-up reference and keeps nothing (`apply/page.tsx:2118`); changes made before the creation is answered are saved with the next change only; two saves may be served in the wrong order |
| pending submissions are retried on the next page load (`apply/page.tsx:2089`) | only when the payment section is mounted; and the retry may resubmit a case that was processed meanwhile |
| a register that fails is shown as "Unavailable" (`docs/use-cases.md:56`) | the form shows it as clear (`apply/page.tsx:1786`) and knows other status words than the registers answer with; check-all, which reports errors, is not called by it |
| | the CFT register always has an entry, so `casesFound` is never 0 |
| the score of a search "is order independent" (`nameSimilarity.test.ts:108`) | for the names of that test: words are paired greedily, so "jon john" scores "John Jones" 57.5% and "john jon" 80%; and words for which the record has none left do not count, so a search may be 100% with one word too many |
| the panel's press is answered "Status updated (demo)" (`dashboard/page.tsx:655-657`) | exactly when it was refused or lost (`alert` of `StaffQueue`); the case view shows such a decision as made (`CaseDetail.tsx:347`), the batch buttons call nothing (`dashboard/page.tsx:586`), and the queue lists 50 cases |

One assumption about the outside: `GotScanner` stands for a daemon whose reply to
PING is `PONG` and white space. `isAvailable` trims white space only
(`clamav.ts:49`), so a reply that ends in a NUL, as the header of that file says
of the other replies, is never recognised and every scan is a `NoScanner`.

### Fairness

- `SlaWorker`: weak fairness of a process's own steps and of the passing of days.
  `setInterval` keeps sweeping and a sweep runs to its end; requests, faults and
  crashes owe nothing. Faults are bounded (`MaxFaults`).
- `DocumentScan`: weak fairness of each scan's next step. The sockets have
  time-outs (3 s for PING, `CLAMAV_TIMEOUT` for a reply). The one exception, a
  daemon that closes the connection after PING without a word, ends none of the
  listeners `isAvailable` installs; it is a fault of the model (`HangsUp`), and the
  request it leaves hung has no fairness.
- `BrowserSession`: weak fairness of starting a poll and strong fairness of its
  answer, for each tab. A visible tab polls every 30 s and when it becomes visible
  (`useVisiblePolling.ts`); loading pages aborts polls, but a page stays, now and
  then, long enough for one. A tab that is never looked at again is not in `Tab`.
- `StaffQueue`: weak fairness of the interval's poll while the tab is visible, strong
  fairness of its being served and received: polls are lost, but not all of them for
  ever. Officers and debtors owe nothing; `QueueCatchesUp` assumes a case that rests
  and a tab that stays in view.
- `ApiStatus`: none. `RecoveryIsNoticed` counts ticks, and time cannot pass a timer
  that is due or a probe that is on its way.
- `ApplyClient`, `Sessions`: none. A user need not come back, and no property of
  theirs is about what must happen.

## 5. Proofs

Checked by TLAPS for every value of the constants that meets the assumptions the
modules name (`RecordsAssumption`, `ClocksAssumption`, `DocumentAssumption`, ...).
What they ask for is typing, order of thresholds, finiteness of the lists of
categories (`CftAssumption`), at least one applicant, form and amount
(`RestAssumption`, so that a resting part has a state), and that `Null` is none of
the values it stands beside (`NullAssumption`, ...). Each invariant below was checked
by TLC first; the names in brackets are lemmas, or conjuncts of the inductive
invariant.

- **CaseFile.** `NoticesBacked`: a notification is sent after the audit event it follows
  from, and trails only grow (`AuditGrows`), so a backed notice stays backed.
  `TrailsReplay` (handlers that finish, bodies with any column): appending an event
  whose previous value is the one the trail ends with keeps it replayable
  (`ReplaysAppend`), and the handlers read the previous value before they write. Where
  bodies carry a column, creations and edits may write it without an event of its own,
  so the value chain is between recorded events with no such write in between
  (`Unrecorded`); with form data only that is the whole trail. `CasesAreDated` (handlers
  that finish, bodies with form data only) and `DecisionStands` go action by action.
  `OverridesExplained` (handlers that finish): the last event of a generation or an
  override in the trail names the override of the row.
- **SlaWorker.** `RemindedOnce`: only a commit writes the ledger
  (`OnlyCommitsRecord`), and it writes a key that is not there together with its
  event. The theorem needs nothing of what a sweep holds: stale rows cannot hurt.
  `RemindedInTime`: an event held by a sweep was due on the day the sweep began
  (`RemindersDue`, `MilestoneInTime`), and days only pass (`LaterInTime`).
  `PromiseKept`: with fired keys read off the ledger, initial states map to
  initial states and every step to a `Fire` or a stutter.
- **WatchedCase.** `BadgeAgrees` needs to know where fired milestones come from:
  each is one that a clock of the case reached on some day until today (`FiredTrue`).
  What one said then still shows in the posture of every later day
  (`MilestoneStays`), and a day that has been swept leaves no milestone of that day
  unreported (`MilestoneReached`).
  `ShownDeadlineExplains` has no induction: a soonest clock exists among a product's
  clocks (`SoonestClock`, from the least element of a set of days), and the posture
  is read off it.
- **Calendar.** `WindowsFit` and `CasesDoNotOvertake` hold for any interval of years.
  The year of a day and its month exist and are unique (`DayHasDate`, `DateOfDay`),
  because years and months are intervals one after the other (`YearsInOrder`,
  `MonthsInOrder`); `setMonth` followed by the clamp ends in the month meant
  (`TargetIsMonth`, `AddMonthsEnds`). The spans of a year and of half a year, and the
  second moratorium, are then arithmetic over the twelve months (`YearSpan`,
  `HalfYearSpan`, `SecondWindow`), and two cases a day apart are compared month by
  month (`LaterWindow`).
- **Cft.** `MoreNeverCosts`: the total declared, the allowance by trigger and hence
  the contribution are monotone (`DeclaredGrows`, `AllowedByTriggerGrows`,
  `ContributionShrinks`). They are sums over sets, folds underneath: that such a sum
  is a number and is monotone in each term (`SumNatural`, `SumMonotone`) is shown of
  a smallest subset that would fail it (`LeastNatural`), which stands in for the
  induction theorems the provers cannot instantiate.
- **SystemChecks.** `ChecksHideNothing`: what check-all has recorded of a register is
  that register's answer or its failure, and the reply waits for all (`RepliesTrue`).
- **DocumentScan.** `VerdictsAreTrue`: a scan in progress never carries a
  verdict; the verdict and its status are written in one step (`SettleTrue`), so
  each row's status is true by itself whatever overlapped. `NoStrandedScan` and
  `NoOrphans` share the invariant that, until the first fault, a document in
  `scanning` is held by a scan and a file by its row or upload (`TidyAlways`).
- **Payments.** `RefundsCovered` on the counts alone, wherever handlers stop;
  `ReceiptStored` because an approval writes its own number as the reference.
- **CreditCheckCache.** `NewestAnswerStands`: only a provider's answer replaces an
  entry, and it is dated now, no earlier than any answer obtained before
  (`EntryRenewed`).
- **Recommendation.** `RulesLeaveNoGap`: for a debt of 5,000 or more one of the
  rules always matches (`SomeRuleSuits`), for any thresholds ordered as
  `ThresholdsAssumption` says. `MoreSurplusPaysMore`: a rule that repays and matches
  keeps matching when the surplus grows (`RepaymentStays`, `ArrangementStays`).
- **Sessions.** `StaleLapses`: a token's permissions were held when it was issued
  (each sign-in reads account and role in the step that issues), `lastHeld` never
  decreases, and an accepted token is younger than `AccessTtl`; what is let in without
  a session carries no permission (`Bearers`). `LifeImplemented`:
  a session row goes and never comes back, because only `IssueToken` inserts and it
  takes a jti without claims; expiry is final because `now` does not decrease.
- **BrowserSession.** `IdentityMatches`: each step writes token and user together,
  removes both or leaves both, and a token is issued once, so its holder does not
  change. `BrowserKeepsTokenLife`: what the browser's model lets happen to tokens is
  what `TokenLife` allows and so, with `LifeImplemented`, what the server's model
  was shown to keep to.
- **StaffQueue.** `DecisionsAreReal` (`QueueInv`): the decision a row has, a poll on
  its way carries (`RepliesBacked`) or a confirmed press holds (`PressesBacked`) is
  among those its case has had, and that history only grows; so whatever overtakes
  whatever, a decision shown was made.
- **ApiStatus.** `NoticedWithinCap` (`StatusInv`): the timer never exceeds the cap
  (`TimerBounded`); while the API is up and the tab in view, only the chain probes and
  it hears no failure (`SteadyProbes`); and until it hears of a success, each tick
  counted is one less on the timer, so that the two stay within the cap together
  (`NoticedInTime`). Time cannot pass a timer that is due.
- **NameSimilarity.** `ExplanationsAddUp`, for texts of any letters and length and any
  records. Each loop is a function defined by recursion; such a function has a
  solution, whose values have what its steps keep (`RecursionSolved`, which counts up
  the solutions below each rank and shows that they agree, `HandedDown`). So each cell
  of the table is what the cheapest of its edits makes it (`TableRight`); the walk
  back finds, at each cell, a true edit that accounts for the cell, and the letters
  that it transposes differ, as two equal ones would be cheaper to leave
  (`LastEditTight`, `DiagonalBounds`); and the edits found lead from nothing to both
  texts, spell each letter of the second and cost what the last cell says
  (`EditsWalk`, `WalkIsMatch`). No word is empty (`WordsTyped`), among the words left
  there is one that no other is better than (`BestExists`: comparing fractions by
  cross-multiplication is transitive), so each pair holds a true match. The mean of
  the scores falls short of 1 by at least the cheapest edit, and `ShortEnough` makes
  that more than half a tenth of a percent (`SumUnder`, `TenthsFull`, `MeanFull`). The
  proof found the bound: without it the last clause is false.
- **ApplyClient.** `DraftsAreBounded`: the inductive invariant counts applications that
  exist or are on their way and gives each to a visit or to a lost answer; a creation
  starts only when `created` is FALSE and the context has no id, and `created` falls
  back only with a loss or a visit. `FormsAreFrozen`: a save is served by `EditRow`,
  whose guard leaves a submitted case alone. `PromisesAreKept` (`PlaceInv`): what the
  key holds has been put there, a retry is of an application that was, and a submission
  that is answered is served. The attempt to prove an earlier form of `PromiseIsKept`,
  which blamed a lost promise on another *promised* application, failed, and TLC
  confirmed with two returns to the form that it was false: a submission that fails
  after its section was left takes the key without a promise. Hence `aside`.
- **Compositions.** A behaviour of `MCStatute`, `MCServices` or `MCAccess` is one of
  each part's specification (`StatuteParts`, `ServicesParts`), since a part that is not
  in focus stutters; the officers' queue may begin at rest instead (`RestTyped`). In
  `MCStatuteAndServices`, which the run checks, the behaviours of each are those in
  which the other rests; this last step is not proved. So `StatuteTypeCorrect`,
  `ServicesTypeCorrect` and `AccessTypeCorrect` follow from the parts' type theorems,
  and every theorem about a part holds in the composition.

Model-checked only: liveness (`EveryLapseIsReported`, `ScansSettle`,
`DeadTokenIsDropped`, `QueueCatchesUp`), which is out of the prover's reach. Every
invariant and every action property that a passing run checks is proved.

## 6. Not modelled, and why

- *Pages of demonstration data.* Of about 53,000 lines of implementation some 33,000
  are the pages of `apps/web` and `apps/admin`: the digital mailroom, the scripted
  demonstration (`DemoMode.tsx`), reports, guides, design pages. They lay out static
  data or keep it in component state that nothing else reads. What `apply/page.tsx`
  and `dashboard/page.tsx` do to the system is modelled, but most of their lines are
  markup. For this reason the definitions cover a small share of the repository's
  lines, and most of the lines in which services change state.
- *The case view* (`CaseDetail.tsx`): its handlers call those of `CaseFile`; its own
  state is a copy like the panel of `StaffQueue`. Planned (section 2).
- *Notification, audit, identity and organisation services*: single-row writes and
  canned answers with nothing between them; what they write is read by pages only.
- *Reports, postcode look-up, claims listing*: reads.
- *Rate limiting, security headers*: a library's counter and constants.
- *The .NET API*: an alternative back end with a store of its own, deployed as a
  service beside this one; a subset of the routes as single updates without guards.
- *`lib/persistence`*: a local store for the demonstration.
- *The placeholder scanner*: refused in production.
- *PKCE, nonces and signatures* of the sign-in: assumed to do what they are for.
