SPECIFICATION Spec
CONSTANTS
  Session = {s1, s2}
  Job = {j1}
  Thread = {t1}
  NoThread = nothread
  Url = {u1, u2}
  NoUrl = nourl
  NoSession = nosession
  Driver = "c"
  Imports = {"loaded"}
PROPERTIES
  OwnHost
CHECK_DEADLOCK FALSE
