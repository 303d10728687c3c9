SPECIFICATION MCSpec
CONSTANTS
    Leases = {l1, l2, l3}
    First = l1
    Ids = {"i1", "i2"}
    Digests = {"d1", "d2", "d3"}
    Confs = {"c1", "c2", "c3", "c4"}
    Resolved <- MCResolved
    None = None
    Sessions = {s1, s2}
    Other = s2
    Calls = {o1, o2}
    Late = o2
    Persistent = FALSE
INVARIANTS
    StopsAreOrderly
    OwnersAreUnique
    LeasesAreAccounted
PROPERTIES
    DecisionsAreCurrent
    AgentProgresses
CHECK_DEADLOCK FALSE
