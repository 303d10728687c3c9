SPECIFICATION MCSpec
CONSTANTS
    Resources = {m1}
    Callers = {c1, c2}
    Nobody = Nobody
    MaxLeases = 1
    MaxRoutes = 2
    MaxFlushes = 1
    MaxLate = 1
    ImageUsers = {u1, u2}
    Removers = {d1}
    References = {r1, r2}
    Objects = {o1, o2}
    MaxCrashes = 1
    Components <- MCComponents
    Requests <- MCRequests
    ToolBinds <- MCToolBinds
    LaunchProjects <- MCLaunchProjects
    Assets <- MCAssets
    ToolFiles <- MCToolFiles
    ServiceBinds <- MCServiceBinds
SYMMETRY Symmetry
INVARIANTS
    ListingsAreSound
    ImagesAreSound
    MountsAreAsPlanned
CHECK_DEADLOCK FALSE
