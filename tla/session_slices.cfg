SPECIFICATION Spec
CONSTANTS
  Sources <- MCSources
  Objects <- MCObjects
  Broken <- MCBroken
  Mains <- MCMains
  Libraries <- MCLibraries
  Holds <- MCHolds
  Loadable <- MCLoadable
  Exits <- MCExits
  MaxFiles = 2
INVARIANTS OutcomeIsWhole LibrariesInOrder ExitTells NothingAfterRefusal SetUpOnce
