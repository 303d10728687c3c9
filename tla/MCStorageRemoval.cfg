SPECIFICATION MCSpec
CONSTANTS
    Volumes = {"v1"}
    Procs = {p1, p2}
    Objects = {o1, o2}
    NoObject = NoObject
    MaxCrashes = 0
    Followers = {f1}
    MaxLog = 1
    MaxReports = 1
    MaxOps = 1
PROPERTIES
    LeasedVolumesStay
CHECK_DEADLOCK FALSE
