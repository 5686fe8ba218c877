\* Images of every kind, with every character set but iso8859-14
SPECIFICATION BothSpec
CONSTANTS
  TableNamed <- LinkedTables
  InitOrder <- RegisteredInOrder
  SectorSize = 4
  HighBit = 32
  Masters <- MCMasters
  Images <- MCImages
  Attachments <- MCAttachments
  SystemCp = "cp850"
  Paths <- MCPaths
  Lengths = {1, 3, 9}
  Offsets <- MCOffsets
  Commands <- MCCommands
INVARIANTS
  TypeOK
  PathsResolve
  DirectoriesResolve
  NamesExact
  JolietPreferred
  ReadsAreContent
  IsoinfoAgrees
  ExtractsContent
PROPERTIES
  ScanEnds
  SeeksLand
