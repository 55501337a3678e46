\* The deployed container: one process, every request, faults in the sweep,
\* handlers cut short.
CONSTANTS
    App = {a1}
    Owner = {debtor}
    Officer = {o1}
    Product = {"ptd", "debt_arrangement_scheme"}
    EngineProduct = {"debt_arrangement_scheme"}
    SeedProduct = {"ptd"}
    BodyCarries = {}
    Interruptible = TRUE
    BootDay = 0
    MaxDay = 3
    Null = Null
    DasObjectionDays = 1
    PtdObjectionDays = 2
    MapDischargeDays = 3
    DischargeDays = 4
    ProposalsDays = 1
    ClaimsDays = 2
    PeriodDays = 4
    LateClaimDays = 1
    ImminentDays = 1
    NoProduct = NoProduct
    Process = {p1}
    MaxFaults = 1
SPECIFICATION FairSpec
INVARIANTS
    NeverEarly
CHECK_DEADLOCK FALSE
PROPERTY EveryLapseIsReported
