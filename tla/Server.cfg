\* Two servers; every schedule is for a new message, nothing else touches its
\* draft, and the store and the provider answer in time.
SPECIFICATION ServerSpec
CONSTANTS
  p1 = p1  p2 = p2  c1 = c1  d1 = d1  d2 = d2  r1 = r1  r2 = r2  a1 = a1
  Null = Null
  Schedule = {r1, r2}
  Draft = {d1, d2}
  Account = {a1}
  AccountOf <- OneAccount
  Process = {p1, p2}
  Client = {}
  HostOf <- InCommand
  OneShot = FALSE
  Prepared = {}
  Smtp = {d1, d2}
  Lease = 1
  Horizon = 1
  Late = 0
  MaxArm = 1
  BaseBackoff = 1
  Faults = {}
\* Three calls of an account's provider, and its connection with two callers.
  i1 = i1  i2 = i2  u1 = u1  u2 = u2
  ImapCall = {i1, i2}
  MaxImapCalls = 3
  MaxOutside = 1
  NoImapCall = NoImapCall
  ImapUser = {u1, u2}
  MaxClients = 4
\* Two processes that open a store.
  Opener = {i1, i2}
  MaxWrites = 3
SYMMETRY PartsSymmetry
CHECK_DEADLOCK FALSE
INVARIANTS MailIsKeptOnce OneKnownClient RaisedWhole
PROPERTIES ImplementsDelivery MigratesSafely NewestCredentials
