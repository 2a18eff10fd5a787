\* Every small bundle into every place.
SPECIFICATION Spec
CONSTANTS
  Paths <- MCPaths
  Inputs <- MCInputs
  Places <- MCPlaces
  Block = 2
  Cap = 40000
  MaxUInt = 100000
INVARIANTS InsideText NoFalseRefusal NothingFromBroken ExistingKept TreeExtracts
PROPERTY ExtractionEnds
