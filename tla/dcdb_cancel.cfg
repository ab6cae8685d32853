SPECIFICATION Spec
CONSTANTS
  Session = {s1}
  Host = {stor}
  DefaultHost = stor
  PortText <- NoPorts
  Name = {empty}
  DefaultName = empty
  UncheckedCalls = {}
  Query = {q1}
  MaxSubmits = 1
  LaunchPolicies = {"async"}
  Time <- TwoTimes
  Sensor = {temperature}
  NoSensor = nosensor
  NoSession = nosession
PROPERTIES
  CanceledIsFinal
CHECK_DEADLOCK FALSE
