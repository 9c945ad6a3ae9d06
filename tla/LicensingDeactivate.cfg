\* A key is deactivated while the controller validates it.
SPECIFICATION Spec
CONSTANTS
  p1 = p1  p2 = p2  b1 = b1  b2 = b2  k1 = k1  k2 = k2
  Null = Null
  Key = {k1}
  Server = {p1}
  Admin = {b1}
  HostOf <- InServer
  Life = 2
  Grace = 1
  Interval = 2
  Retry = 1
  Recheck = 1
  MaxOutage = 0
  MinCalm = 0
  Ops = {"activate", "deactivate"}
  Faults = {}
INVARIANT PersonalWithoutKey
