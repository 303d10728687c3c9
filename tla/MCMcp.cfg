SPECIFICATION MCSpec
CONSTANTS
    Resources = {r1}
    Openers = {o1, o2}
    Nobody = Nobody
    MaxLeases = 2
    MaxBackends = 2
    MaxLate = 1
    Keys = {k1}
    NoKey = NoKey
    Leases = {l1, l2, l3}
    Connectors = {c1, c2}
    MaxGeneration = 2
    Targets = {t1, t2}
    Connections = {s1, s2}
    Streamed = {t1}
    Second = t2
    Spare = s2
    Kinds = {"http", "stdio", "plain"}
    NoTarget = NoTarget
    NoLease = NoLease
    NoConnector = NoConnector
INVARIANTS
    BackendsAreShared
    TargetsOwnTheirLaunch
PROPERTIES
    ReleasesComplete
CHECK_DEADLOCK FALSE
