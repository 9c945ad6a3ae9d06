\* Two servers and one-shot commands on one store; every fault but a lapse.
SPECIFICATION SharedStoreSpec
CONSTANTS
  p1 = p1  p2 = p2  c1 = c1  d1 = d1  d2 = d2  r1 = r1  r2 = r2  a1 = a1
  Null = Null
  Schedule = {r1}
  Draft = {d1}
  Account = {a1}
  AccountOf <- OneAccount
  Process = {p1, p2}
  Client = {c1}
  HostOf <- InCommand
  OneShot = TRUE
  Prepared = {d1}
  Smtp = {}
  Lease = 1
  Horizon = 1
  Late = 0
  MaxArm = 1
  BaseBackoff = 1
  Faults = {"crash", "slow", "lost", "busy", "removal"}
\* A mailbox of up to four messages; a call inspects two candidates.
  b1 = b1  b2 = b2
  MailAccount = {b1, b2}
  Arrived = 4
  Batch = 3
  PageSize = {1, 3}
  ScanLimit = 2
  WithAttachment = {2, 4}
  LastFolder = 2
  Filed <- EveryThird
\* Searches of up to two words.
  MaxWords = 2
\* Two members that share a code, a session and a key.
  Member = {m1, m2}
  Code = {code}
  Session = {s1}
  ApiKey = {k1}
  Request = {q1, q2, cmd}
  Command = {cmd}
  Old = {m1}
  MaxMembers = 2
  MaxUnderWay = 2
  MayDie = TRUE
  None = None
SYMMETRY StoreSymmetry
CHECK_DEADLOCK FALSE
INVARIANTS SentWasDelivered ExactlyTheMatches SearchesAgree FindsWhatItMeans
  NobodyLockedOut SuspendedIsOut CodeWorksOnce
PROPERTIES ActiveClaimIsExclusive AnswersGoOn
