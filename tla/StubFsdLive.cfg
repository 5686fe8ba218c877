\* Calls that signal promptly, a daemon that may stop or be killed anywhere.
SPECIFICATION FairSpec
CONSTANTS
  Clients = {c1, c2, c3}
  Daemons = {d1}
  Ops <- MCPromptCalls
  Faults = {}
  None = None
INVARIANTS
  SerializeExact
  NoLostWakeup
  NoLostRequest
PROPERTIES
  ExchangeIsLeft
  StopEnds
  ServingEnds
