\* FS_IOCTL with a parameter buffer that may be bad.
SPECIFICATION Spec
CONSTANTS
  Clients = {c1, c2}
  Daemons = {d1}
  Ops <- MCIoctl
  Faults = {}
  None = None
INVARIANTS
  SerializeExact
