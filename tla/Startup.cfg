\* Servers that start on a new or restored instance, and migrations of two different
\* keys and of none.  And one server with a user who sends and cancels; finitely many
\* crashes.
SPECIFICATION BothSpec
CONSTANTS
  p1 = p1  p2 = p2  c1 = c1  d1 = d1  d2 = d2  r1 = r1  r2 = r2  a1 = a1
  Null = Null
  Schedule = {r1}
  Draft = {d1}
  Account = {a1}
  AccountOf <- OneAccount
  Process = {p1}
  Client = {c1}
  HostOf <- InFirstServer
  OneShot = FALSE
  Prepared = {d1}
  Smtp = {d1}
  Lease = 1
  Horizon = 1
  Late = 0
  MaxArm = 2
  BaseBackoff = 1
  Faults = {"crash", "slow", "lost", "lapse"}
  s1 = s1  s2 = s2  m1 = m1  m2 = m2  m3 = m3
  k1 = k1  k2 = k2  k3 = k3  k4 = k4
  None = None
  Imports <- DifferentKeys
  Key = {k1, k2, k3, k4}
  Server = {s1, s2}
  Migration = {m1, m2, m3}
  Casts = {{}, {s1, s2}, {m1, m2, m3}, {s1, m1, m3}}
  Restored = {{}, {k1}, {k3}}
  Deploys = {m1, m3}
  Secrets = {m1, m2, m3}
  KeyFaults = {"crash", "fail", "full"}
CHECK_DEADLOCK FALSE
INVARIANTS ServersAgree
PROPERTIES FilesStay ServersRun EventuallySettled
