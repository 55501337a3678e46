\* Two applications, two lost answers.
CONSTANTS
    Null = Null
    App = {a1, a2}
    Field = {f1}
    Slot = {s1, s2}
    Owner = {}
    Officer = {}
    Product = {}
    EngineProduct = {}
    SeedProduct = {}
    BodyCarries = {}
    Interruptible = FALSE
    BootDay = 0
    MaxDay = 0
    MaxSaves = 2
    MaxLost = 2
    MaxVisits = 2
SPECIFICATION ApplySpec
INVARIANT EveryPromiseIsKept
CHECK_DEADLOCK FALSE
