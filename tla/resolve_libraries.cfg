\* Every small world, to the list that TinyCC is given.
SPECIFICATION Spec
CONSTANTS
  Worlds <- MCWorlds
  MaxOpen = 4
INVARIANTS TypeOK DirsInOrder ResolvedInOrder
PROPERTY ResolutionEnds
