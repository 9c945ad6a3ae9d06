\* Retries of one request on two servers, and another request with its key.
SPECIFICATION MailSpec
CONSTANTS
  c1 = c1  c2 = c2  c3 = c3  c4 = c4  k1 = k1  k2 = k2  b1 = b1  b2 = b2
  Null = Null
  Call = {c1, c2, c3}
  IdKey = {k1}
  KeyOf <- Keys
  BodyOf <- Bodies
  Ttl = 2
  Faults = {"crash", "busy"}
\* Two servers with a mailbox, two calls, and an application that changes.
  Server = {v1, v2}
  Mailbox = {m1}
  v1 = v1  v2 = v2
  MaxObjects <- Objects
  Use = {u1, u2}
  OAuthApp = {ga, a1, a2}
  BuiltIn = ga
  MaxSerial = 3
  MaxChanges = 1
  None = None
\* When all are answered and no record is left, nothing is to come.
CHECK_DEADLOCK FALSE
INVARIANTS CalledOnce OneAnswer AnswersOwnRequest CachedIsCurrent
PROPERTIES AllAnswered RefreshesGoForward StatusSettles
