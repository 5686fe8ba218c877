\* Three threads making every call that keeps the exchange, one daemon slot.
SPECIFICATION Spec
CONSTANTS
  Clients = {c1, c2, c3}
  Daemons = {d1}
  Ops <- MCKeepingCalls
  Faults = {}
  None = None
SYMMETRY MCSymmetry
INVARIANTS
  TypeOK
  MutualExclusion
  OwnReply
  ServesWaitingCaller
  BuffersValid
PROPERTIES
  ImplementsRemoteCall
