SPECIFICATION ResultsSpec
CONSTANTS
  Session = {s1}
  Host = {stor}
  DefaultHost = stor
  PortText <- NoPorts
  Name = {empty}
  DefaultName = empty
  UncheckedCalls = {}
  Query = {q1, q2}
  MaxSubmits = 1
  LaunchPolicies = {"async"}
  Time <- OneTime
  Sensor = {}
  NoSensor = nosensor
  NoSession = nosession
INVARIANTS
  ResultsTypeOK
  ReadableIsComplete
  ReadsUndisturbed
PROPERTIES
  Settles
  AnswersAsPromised
CHECK_DEADLOCK FALSE
