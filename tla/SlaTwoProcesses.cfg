\* Two processes sweep the same database and serve requests between sweeps.
\* Submission dates move, so a sweep may hold rows that are out of date.
CONSTANTS
    App = {a1}
    Owner = {}
    Officer = {o1}
    Product = {"das"}
    EngineProduct = {}
    SeedProduct = {"das"}
    BodyCarries = {}
    Interruptible = FALSE
    BootDay = 0
    MaxDay = 2
    Null = Null
    DasObjectionDays = 1
    PtdObjectionDays = 2
    MapDischargeDays = 3
    DischargeDays = 4
    ProposalsDays = 1
    ClaimsDays = 2
    PeriodDays = 4
    LateClaimDays = 1
    ImminentDays = 1
    NoProduct = NoProduct
    Process = {p1, p2}
    MaxFaults = 0
SPECIFICATION Spec
SYMMETRY Symmetry
INVARIANTS
    LedgerMatchesReminders
PROPERTIES
    KeepsPromise
CHECK_DEADLOCK FALSE
