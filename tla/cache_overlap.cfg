SPECIFICATION Spec
CONSTANTS
  Procs = {p1, p2, p3}
  Explicit = {}
  libtcc1 = libtcc1
  stddef = stddef
  float = float
  Files <- MCFiles
  IncFiles <- MCIncFiles
  Required <- MCRequired
  Script <- MCScript
  MaxFaults = 1
SYMMETRY Symmetry
INVARIANTS LoneRunWorks BrokenCacheWasReported
PROPERTY CacheStays
