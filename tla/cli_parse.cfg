SPECIFICATION Spec
CONSTANTS
  Arguments <- MCAll
  MaxArgs = 4
  BadDefines <- MCBad
INVARIANTS TypeOK HandedOnAsGiven RouteFollowsOptions
PROPERTIES ParsingEnds ReadsInOrder
