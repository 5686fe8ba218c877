\* Signals to threads that wait for their reply.
SPECIFICATION Spec
CONSTANTS
  Clients = {c1, c2}
  Daemons = {d1}
  Ops <- MCRead
  Faults = {"wait_interrupted"}
  None = None
INVARIANTS
  OwnReply
