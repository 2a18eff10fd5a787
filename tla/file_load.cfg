\* A file is read while it is saved, replaced and removed.
SPECIFICATION Spec
CONSTANTS
  Length <- MCLength
  WithBom = {3}
  UintMax = 4
  MaxEdits = 3
INVARIANTS InsideMemory UndisturbedIsWhole NeverMixed
PROPERTY ReadingEnds
\* The system stops when the file has been read and is saved no more.
CHECK_DEADLOCK FALSE
