SPECIFICATION MCSpec
CONSTANTS
    Volumes = {"v1"}
    Procs = {p1, p2}
    Objects = {o1, o2}
    NoObject = NoObject
    MaxCrashes = 1
    Followers = {f1, f2}
    MaxLog = 1
    MaxReports = 2
    MaxOps = 2
INVARIANTS
    PublicationIsSafe
    OperationsAreShared
PROPERTIES
    FollowersLearnTheOutcome
CHECK_DEADLOCK FALSE
