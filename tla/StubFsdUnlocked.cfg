\* FS_FILEINFO with a buffer that may be bad.
SPECIFICATION Spec
CONSTANTS
  Clients = {c1, c2}
  Daemons = {d1}
  Ops <- MCFileInfo
  Faults = {}
  None = None
INVARIANTS
  MutualExclusion
