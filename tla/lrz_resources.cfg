SPECIFICATION Spec
CONSTANTS
  Session = {s1}
  Url = {portal, other}
  PortalUrl = portal
  NoUrl = nourl
  small = small
  big = big
  Resource = {small, big}
  DefaultResource = small
  Qubits <- TwoQubits
  Gate <- TwoGates
  Coupling <- TwoCouplings
  MaxResources = 2
  Job = {j1}
  NoSession = nosession
  WaitAgain = FALSE
  MaxFetches = 2
INVARIANTS
  LastResourceExact
CHECK_DEADLOCK FALSE
