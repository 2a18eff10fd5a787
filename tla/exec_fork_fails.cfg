SPECIFICATION Spec
CONSTANTS
  Runs = {r1, r2}
  Writers = {r1, r2}
  Pids <- MCPids
  ExitCodes <- MCExitCodes
  Signals <- MCSignals
  StopSignals <- MCStopSignals
INVARIANT PidFileNamesProcess
CHECK_DEADLOCK FALSE
