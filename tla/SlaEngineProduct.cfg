\* A case recommended by the rules engine.
CONSTANTS
    App = {a1}
    Owner = {}
    Officer = {o1}
    Product = {"das", "ptd", "debt_arrangement_scheme"}
    EngineProduct = {"debt_arrangement_scheme"}
    SeedProduct = {"das", "ptd"}
    BodyCarries = {}
    Interruptible = FALSE
    BootDay = 0
    MaxDay = 2
    Null = Null
    DasObjectionDays = 1
    PtdObjectionDays = 2
    MapDischargeDays = 3
    DischargeDays = 4
    ProposalsDays = 1
    ClaimsDays = 2
    PeriodDays = 4
    LateClaimDays = 1
    ImminentDays = 1
    NoProduct = NoProduct
    Process = {p1}
    MaxFaults = 0
SPECIFICATION FairSpec
PROPERTIES
    RecommendedCasesAreReminded
CHECK_DEADLOCK FALSE
