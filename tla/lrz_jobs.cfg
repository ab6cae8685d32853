SPECIFICATION FairSpec
CONSTANTS
  Session = {s1}
  Url = {portal, other}
  PortalUrl = portal
  NoUrl = nourl
  small = small
  big = big
  Resource = {small, big}
  DefaultResource = small
  Qubits <- TwoQubits
  Gate <- TwoGates
  Coupling <- TwoCouplings
  MaxResources = 2
  Job = {j1, j2}
  NoSession = nosession
  WaitAgain = FALSE
  MaxFetches = 2
INVARIANTS
  TypeOK
  OneResourceExact
  EndsAreReal
  BusyIsOwed
  HistogramOnce
PROPERTIES
  BusyEnds
  JobsAsPromised
CHECK_DEADLOCK FALSE
