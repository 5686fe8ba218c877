\* Two daemon processes, two letters, two volumes, two handles.
SPECIFICATION FairSpec
CONSTANTS
  Daemons <- MCDaemons
  LastDrive = 2
  Vols <- MCVols
  Handles <- MCHandles
  MaxRefs = 2
  MaxLost = 1
  None = None
INVARIANTS
  TypeOK
  CountsExact
  ListMatchesDrives
  FreedUsedOnlyAfterForce
  LonerInheritsNoDrive
PROPERTIES
  QuitDetaches
CHECK_DEADLOCK FALSE
