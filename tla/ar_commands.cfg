\* Commands on one archive, one after the other.
SPECIFICATION Spec
CONSTANTS
  Objects <- MCObjects
  Archives <- MCArchives
  Commands <- MCCommands
  Stored <- MCStored
  SymSize <- MCSymSize
  MaxCommands = 3
INVARIANTS TypeOK ArchiveWhole IndexPointsToMember ReadToTheBreak
PROPERTY CleanEnd
\* The system stops when the commands are used up.
CHECK_DEADLOCK FALSE
