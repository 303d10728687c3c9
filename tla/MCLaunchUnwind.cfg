SPECIFICATION Spec
CONSTANTS
  MaxSignals = 0
  MaxAttempts = 1
  MaxStops = 0
  MaxCommands = 0
INVARIANT FailureUnwinds
