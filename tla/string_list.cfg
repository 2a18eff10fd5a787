\* The array of pointers against the sequence it stands for.
SPECIFICATION ArraySpec
CONSTANTS
  Strings = {a, b}
  Addresses = {p1, p2, p3, p4, p5}
  NULL = NULL
  Garbage = Garbage
SYMMETRY Symmetric
INVARIANT MemoryOwned
PROPERTY ImplementsList
