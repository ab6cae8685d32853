SPECIFICATION Spec
CONSTANTS
  Session = {s1}
  Host = {stor}
  DefaultHost = stor
  PortText <- NoPorts
  Name = {empty}
  DefaultName = empty
  UncheckedCalls = {}
  Query = {q1}
  MaxSubmits = 2
  LaunchPolicies = {"async"}
  Time <- TwoTimes
  Sensor = {temperature}
  NoSensor = nosensor
  NoSession = nosession
INVARIANTS
  ReadableIsComplete
CHECK_DEADLOCK FALSE
