\* Handlers run to completion; a form may carry the assignee it has loaded.
CONSTANTS
    App = {a1}
    Owner = {debtor}
    Officer = {o1, o2}
    Product = {"das", "debt_arrangement_scheme", "bankruptcy"}
    EngineProduct = {"debt_arrangement_scheme", "bankruptcy"}
    SeedProduct = {"das"}
    BodyCarries = {"assignedTo"}
    Interruptible = FALSE
    BootDay = 0
    MaxDay = 1
    MaxTrail = 4
    Null = Null
SPECIFICATION Spec
SYMMETRY Symmetry
INVARIANTS
    TrailReplays
    OverrideIsExplained
    DatedWhenSubmitted
CHECK_DEADLOCK FALSE
