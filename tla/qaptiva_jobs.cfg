SPECIFICATION FairSpec
CONSTANTS
  Session = {s1}
  Job = {j1, j2}
  Thread = {t1, t2}
  NoThread = nothread
  Url = {u1, u2}
  NoUrl = nourl
  NoSession = nosession
  Driver = "c"
  Imports = {"loaded", "null"}
INVARIANTS
  TypeOK
  BusyIsRunning
  OnlyIncompleteStick
  UnreadyOnlyEarly
  LockGivenBack
PROPERTIES
  RunsOnce
  OwnHost
  SubmitReturns
  JobsAsPromised
CHECK_DEADLOCK FALSE
