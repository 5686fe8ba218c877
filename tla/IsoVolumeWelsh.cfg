\* The character set iso8859-14
SPECIFICATION BothSpec
CONSTANTS
  TableNamed <- LinkedTables
  InitOrder <- RegisteredInOrder
  SectorSize = 4
  HighBit = 32
  Masters <- MCMasters
  Images <- MCImages
  Attachments <- MCWelshAttachments
  SystemCp = "cp850"
  Paths <- MCPaths
  Lengths = {1}
  Offsets = {0}
  Commands = {}
INVARIANTS
  NamesExact
