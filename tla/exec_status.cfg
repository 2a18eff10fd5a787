SPECIFICATION Spec
CONSTANTS
  Runs = {r1, r2}
  Writers = {r1, r2}
  Pids <- MCPids
  ExitCodes <- MCExitCodes
  Signals <- MCSignals
  StopSignals <- MCStopSignals
INVARIANTS SuccessIsExitZero UnstoppedIsReported PidFileIsCurrent
CHECK_DEADLOCK FALSE
PROPERTY EveryExecReturns
