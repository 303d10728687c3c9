SPECIFICATION FairSpec
CONSTANTS
  MaxSignals = 1
  MaxAttempts = 2
  MaxStops = 1
  MaxCommands = 1
INVARIANTS
    SandboxKeepsItsLeases
    RetriesAreSafe
    TerminalIsReturned
PROPERTIES
    SignalsAreHandled
