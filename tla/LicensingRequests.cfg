\* A server, an administrator of it and one with commands, and two keys.
SPECIFICATION BothSpec
CONSTANTS
  p1 = p1  p2 = p2  b1 = b1  b2 = b2  k1 = k1  k2 = k2
  Null = Null
  Key = {k1, k2}
  Server = {p1}
  Admin = {b1, b2}
  HostOf <- OneOfEach
  Life = 1
  Grace = 0
  Interval = 1
  Retry = 1
  Recheck = 1
  MaxOutage = 0
  MinCalm = 0
  Ops = {"activate", "deactivate"}
  Faults = {"crash", "lost", "busy", "ended"}
INVARIANTS OneThingToCome
PROPERTIES LeaseFollowsKey PaidThroughOutages
