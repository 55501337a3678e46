\* A deadline that moved after its first reminder.
CONSTANTS
    App = {a1}
    Owner = {}
    Officer = {o1}
    Product = {"das"}
    EngineProduct = {}
    SeedProduct = {"das"}
    BodyCarries = {}
    Interruptible = FALSE
    BootDay = 0
    MaxDay = 4
    Null = Null
    DasObjectionDays = 1
    PtdObjectionDays = 2
    MapDischargeDays = 3
    DischargeDays = 4
    ProposalsDays = 1
    ClaimsDays = 2
    PeriodDays = 4
    LateClaimDays = 1
    ImminentDays = 1
    NoProduct = NoProduct
    Process = {p1}
    MaxFaults = 0
SPECIFICATION FairSpec
PROPERTIES
    EveryDeadlineReported
CHECK_DEADLOCK FALSE
