\* Two members send settings of one address; the second connects it while those of the
\* first are tested.
SPECIFICATION ConnectionsSpec
CONSTANTS
  Owner = {m1, m2}
  Administrator = {}
  Box = {b1}
  Address = {e1}
  Link = {}
  OAuthState = {}
  Flow = {f1, f2}
  BoxLimits = {1}
  MaxActs = 2
  Nothing = Nothing
CHECK_DEADLOCK FALSE
INVARIANT OnlyOwnersReplace
