\* Searches of two directories, and queries of EAs
SPECIFICATION FairSpec
CONSTANTS
  Dirs <- MCDirs
  Searches <- MCSearches
  Requests <- MCRequests
  Firsts = {0, 3}
  Positions = 4
  EAQueries <- MCEAQueries
INVARIANTS
  TypeOK
  EachOnceInOrder
  PositionsTell
  
PROPERTIES
  SearchEnds
  ImplementsCursor
