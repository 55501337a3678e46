CONSTANTS
    Null = Null
\* The windows the code uses; months are given their length in days.
    DasObjectionDays = 21
    PtdObjectionDays = 35
    MapDischargeDays = 182
    DischargeDays = 365
    ProposalsDays = 84
    ClaimsDays = 120
    PeriodDays = 365
    LateClaimDays = 56
    ImminentDays = 7
    NoProduct = NoProduct
    FirstDay = 0
    LastDay = 380
\* The amounts of the code, and circumstances on both sides of each of them.
    Debt = {0, 900, 2999, 3000, 4800, 4999, 5000, 5001, 10000, 25000, 25001}
    Surplus <- SurplusAmounts
    Assets = {0, 1999, 2000, 5000, 5001}
    SequestrationMinDebt = 3000
    MapMaxDebt = 25000
    MapMaxAssets = 2000
    DefaultPeriodMonths = 48
    SmallDebt = 5000
    MapSurplus = 50
    DasSurplus = 100
    GoodSurplus = 200
    TrustAssets = 5000
    Enquired <- SomeEnquired
    Applicants <- SomeApplicants
    DasDebt = {10000}
    NoAnswer = NoAnswer
\* A leap year between two common ones.
    FirstYear = 2023
    LastYear = 2025
\* Two figures, a category without one, a category the shape lacks.
    rent = rent
    food = food
    Named = {rent, food}
    Unnamed = {gym}
    Other = hobby
    Trigger <- Figures
    Amount = {0, 299, 1200}
    ContingencyCap = 20
\* Two documents, scanned twice at once, and a fault.
    Document = {sound, infected}
    Infected = {infected}
    Unscannable = {sound}
    ScanRequest = {r1, r2}
    MaxFaults = 1
\* Two payments; the handlers of one may stop midway.
    Payment = {p1, p2}
    CutShort = {p2}
    MaxApprovals = 4
\* Three days of four hours, overlapping checks of one person.
    Person = {jo}
    Application = {app1, app2}
    CheckRequest = {c1, c2}
    DayHours = 4
    MaxHour = 11
\* Two users, two tabs, two sign-ins.
    User = {u1, u2}
    Token = {t1, t2}
    Tab = {w1, w2}
\* One case in one officer's queue.
    App = {a1}
    Owner = {}
    Officer = {}
    Product = {}
    EngineProduct = {}
    SeedProduct = {}
    BodyCarries = {}
    Interruptible = FALSE
    BootDay = 0
    MaxDay = 0
    Desk = {d1}
    Offered = {"approved"}
    Elsewhere = {"under_review", "approved", "rejected"}
    MaxPolls = 2
\* A probe beside the chain's; the average is of the last two (the code's
\* window is five), of a quick and a slow answer.
    Extra = {back}
    Elapsed = {200, 6000}
    Window = 2
    SlowAverage = 1000
    MaxDelay = 10
\* Typed by hand, letter by letter: references too, and what "Mac" begins with.
    Key = {"m", "a", "c", " ", "1", "2"}
    MaxQuery = 3
    QuickSearch <- Tiles
    SearchRecord <- Records
SPECIFICATION Spec
INVARIANTS
    StatuteTypeOK
    BadgeAgreesWithWorker
    ShownDeadlineExplainsPosture
    NoGapInStatutoryRange
    AdviceQualifies
    MonthWindowsFit
    ReplyHidesNothing
    ServicesTypeOK
    VerdictIsTrue
    ScanningHasAScan
    FilesMatchRows
    RefundsAreCovered
    ReceiptIsTheLatest
    StoredIdentityMatches
    NoPhantomDecision
    RecoveryIsNoticed
    ExplanationAddsUp
PROPERTIES
    SurplusPaysMore
    LaterIsNeverDueEarlier
    DeclaringMoreNeverCosts
    ScansSettle
    AnswersDoNotAge
    DeadTokenIsDropped
    QueueCatchesUp
CHECK_DEADLOCK FALSE
