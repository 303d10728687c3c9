SPECIFICATION FairSpec
CONSTANTS
    LateTimers = {"idle", "failure"}
    NoKey = NoKey
    NoPolicy = NoPolicy
    Keys = {k1}
    Leases = {l1, l2}
    Connectors = {c1}
    Policies = {p1}
    MaxGeneration = 2
    MaxFailures = 2
INVARIANTS
    TypeOK
    OneGenerationPerKey
    UsersAreServed
    ShutdownReapsAll
PROPERTIES
    ImplementsLeasePool
    TimersAreHonoured
    RegistryProgresses
CHECK_DEADLOCK FALSE
