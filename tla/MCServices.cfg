SPECIFICATION MCSpec
CONSTANTS
    Backends = {b1, b2}
    Second = b2
    Bad = {b2}
    Conns = {n1}
    MaxGenerations = 2
    Dialers = {d1, d2}
INVARIANTS
    RoutesAreCurrent
PROPERTIES
    GatewaySettles
    CaddyIsContained
CHECK_DEADLOCK FALSE
