CONSTANTS
    Null = Null
\* An administrator with a second factor, a newcomer; two tokens, three moments.
    ada = ada
    max = max
    admin = admin
    debtor = debtor
    administer = administer
    User = {ada, max}
    Token = {t1, t2}
    Role = {admin, debtor}
    Permission = {administer}
    AdminPermission = administer
    Federated = {max}
    Newcomer = {max}
    MfaUser = {ada}
    RoleOf <- Roles
    Grants <- SeededGrants
    NewcomerRole = debtor
\* Any other status does what "deactivated" does: only "active" is told apart.
    AccountStatus = {"active", "deactivated"}
    CodeTtl = 1
    ChallengeTtl = 2
    StateTtl = 1
    AccessTtl = 2
    LinkTtl = 2
    MaxTime = 3
    MaxChanges = 2
\* Two applications at most, of a form with one field, visited three times.
    App = {a1, a2}
    Field = {f1}
    Slot = {s1, s2}
    Owner = {}
    Officer = {}
    Product = {}
    EngineProduct = {}
    SeedProduct = {}
    BodyCarries = {}
    Interruptible = FALSE
    BootDay = 0
    MaxDay = 0
    MaxSaves = 2
    MaxLost = 2
    MaxVisits = 2
SPECIFICATION AccessSpec
SYMMETRY Symmetry
INVARIANTS
    AccessTypeOK
    StaleAccessLapses
    OneDraftPerVisit
    PromiseIsKept
PROPERTIES
    RefusedForGood
    SubmittedFormIsFrozen
CHECK_DEADLOCK FALSE
