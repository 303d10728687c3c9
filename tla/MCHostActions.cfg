SPECIFICATION MCSpec
CONSTANTS
    Ids = {i1}
    Requests = {a1, a2}
    Requesters = {q1, q2}
    Deciders = {d1, d2}
    MaxRecords = 1
    Policies <- MCPolicies
    None = None
    Calls = {c1, c2}
    Second = c2
    FirstRequester = q1
    FirstRequest = a1
    FirstDecider = d1
    MaxActions = 1
    Git = git
    Helpers = {h1, h2}
    Codes = {0, 1}
INVARIANTS
    ActionsAreAuthorised
    CloseLeavesNoAction
    GitAnswersAreFinal
PROPERTIES
    TeardownIsComplete
    CancelledGitEnds
CHECK_DEADLOCK FALSE
