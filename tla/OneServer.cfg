\* One server hosting the scheduler and the user's requests; every fault.  And what the
\* credentials of its members may do.
SPECIFICATION OneServerSpec
CONSTANTS
  p1 = p1  p2 = p2  c1 = c1  d1 = d1  d2 = d2  r1 = r1  r2 = r2  a1 = a1
  Null = Null
  Schedule = {r1, r2}
  Draft = {d1}
  Account = {a1}
  AccountOf <- OneAccount
  Process = {p1}
  Client = {c1}
  HostOf <- InFirstServer
  OneShot = FALSE
  Prepared = {d1}
  Smtp = {}
  Lease = 1
  Horizon = 1
  Late = 0
  MaxArm = 2
  BaseBackoff = 1
  Holder = {h1, h2, h3}  Mbox = {b1, b2}  KeyId = {k1}  MaxAsked = 2
  h1 = h1  h2 = h2  h3 = h3  b1 = b1  b2 = b2  Absent = Absent
  Admins = {h1}
  Offered <- MCOffered
  FirstProvider <- MCFirstProvider
  OwnerOf <- MCOwnerOf
  Faults = {"crash", "slow", "lost", "busy", "check", "removal", "lapse"}
\* Three overlapping attempts from one address.
  Attempt = {a1, a2, a3}
  Email = {e1, e2}
  EmailLimit = 2
  AddressLimit = 3
  Window = 2
  MaxNow = 3
\* Two members and two mailboxes, one link and two flows at a time.
  Owner = {m1, m2}
  Administrator = {m1}
  Box = {b1, b2}
  Address = {e1, e2}
  Link = {l1}
  OAuthState = {o1}
  Flow = {f1, f2}
  BoxLimits = {1, 2}
  MaxActs = 3
  Nothing = Nothing
SYMMETRY SchedSymmetry
CHECK_DEADLOCK FALSE
INVARIANTS DispatchHoldsClaim NeverOversleeps ActsWithinAuthority AuditedOnce
  AttemptsAreCounted 
PROPERTIES ChangesAuthorized
