\* A call that probes the caller's memory between taking the exchange and signalling.
SPECIFICATION FairSpec
CONSTANTS
  Clients = {c1, c2}
  Daemons = {d1}
  Ops <- MCWrite
  Faults = {}
  None = None
PROPERTIES
  StopEnds
