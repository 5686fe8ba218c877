\* ISODrive, mapiso and the daemons they start
SPECIFICATION FairSpec
CONSTANTS
  x = x
  iso1 = iso1
  text = text
  mapiso = mapiso
  isodrive = isodrive
  Drives <- MCDrives
  Files <- MCFiles
  Images <- MCImages
  Tools <- MCTools
  Gui = isodrive
  None = none
  MaxMessages = 1
  Commands <- MCCommands
  MaxCommands = 1
INVARIANTS
  TypeOK
  ReportsTrue
  ClosedOnce
PROPERTIES
  EventReaches
  OwnMountShown
CHECK_DEADLOCK FALSE
