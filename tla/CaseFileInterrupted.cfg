\* Handlers may be cut short; an edit may carry a status.
CONSTANTS
    App = {a1}
    Owner = {debtor}
    Officer = {o1, o2}
    Product = {"das", "debt_arrangement_scheme", "bankruptcy"}
    EngineProduct = {"debt_arrangement_scheme", "bankruptcy"}
    SeedProduct = {"das"}
    BodyCarries = {"status", "submittedAt", "assignedTo"}
    Interruptible = TRUE
    BootDay = 0
    MaxDay = 1
    MaxTrail = 2
    Null = Null
SPECIFICATION Spec
SYMMETRY Symmetry
INVARIANTS
    NoticesAreBacked
PROPERTIES
    DecisionStandsUntilResubmitted
CHECK_DEADLOCK FALSE
