\* A member is suspended while it enrolls.
SPECIFICATION MembersSpec
CONSTANTS
  Member = {m1, m2}
  Code = {c1}
  Session = {s1, s2}
  ApiKey = {}
  Request = {q1, q2, cmd}
  Command = {cmd}
  Old = {}
  MaxMembers = 2
  MayDie = FALSE
  None = None
CHECK_DEADLOCK FALSE
PROPERTY SuspendedCannotEnroll
