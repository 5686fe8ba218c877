\* Every fault, every handler, two daemon processes that may overlap: what
\* still holds.
SPECIFICATION Spec
CONSTANTS
  Clients = {c1, c2}
  Daemons = {d1, d2}
  Ops <- MCFaultCalls
  Faults <- MCAllFaults
  None = None
INVARIANTS
  RegisteredIsAlive
SYMMETRY MCSymmetry
