SPECIFICATION Spec
CONSTANTS
  Procs = {p1, p2}
  Explicit = {}
  libtcc1 = libtcc1
  stddef = stddef
  float = float
  Files <- MCFiles
  IncFiles <- MCIncFiles
  Required <- MCRequired
  Script <- MCScript2
  MaxFaults = 1

INVARIANT LoneReadyComplete
