SPECIFICATION Spec
CONSTANTS
  Procs = {p1, x}
  Explicit = {x}
  libtcc1 = libtcc1
  stddef = stddef
  float = float
  Files <- MCFiles
  IncFiles <- MCIncFiles
  Required <- MCRequired
  Script <- MCScript2
  MaxFaults = 2
INVARIANT ExplicitRunWorks
PROPERTY EveryRunEnds
