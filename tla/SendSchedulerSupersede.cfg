\* A user sends a draft while its schedule is being dispatched.
SPECIFICATION Spec
CONSTANTS
  p1 = p1  p2 = p2  c1 = c1  d1 = d1  d2 = d2  r1 = r1  r2 = r2  a1 = a1
  Null = Null
  Schedule = {r1}
  Draft = {d1}
  Account = {a1}
  AccountOf <- OneAccount
  Process = {p1}
  Client = {c1}
  HostOf <- InFirstServer
  OneShot = FALSE
  Prepared = {d1}
  Smtp = {d1}
  Lease = 1
  Horizon = 1
  Late = 0
  MaxArm = 2
  BaseBackoff = 1
  Faults = {}

CHECK_DEADLOCK FALSE

INVARIANT GoneMeansOutside
