SPECIFICATION FairSpec
CONSTANTS
  Session = {s1}
  Host = {stor, spare}
  DefaultHost = stor
  PortText <- LargePort
  Name = {empty}
  DefaultName = empty
  UncheckedCalls = {"wait_unsubmitted", "free_uninitialized", "null_value"}
  Query = {q1}
  MaxSubmits = 2
  LaunchPolicies = {"async", "deferred"}
  Time <- TwoTimes
  Sensor = {temperature}
  NoSensor = nosensor
  NoSession = nosession
INVARIANTS
  TypeOK
  TaskObjectsAlive
  OneTask
  ReadableIsStored
  EndsOnFreshHandles
  ConnectedAsConfigured
PROPERTIES
  CallsReturn
CHECK_DEADLOCK FALSE
