\* A container: a restarted process has the pid of the one that died.
SPECIFICATION FairSpec
CONSTANTS
  p1 = p1  p2 = p2  p3 = p3  h1 = h1  h2 = h2  i1 = i1  i2 = i2  i3 = i3
  Null = Null
  Process = {p1}
  Host = {h1}
  Pid = {i1}
  HostOf <- OneHost
  Stale = 1
  ReusesPid = TRUE
  Faults = {"crash"}
PROPERTY LockIsRecovered
