\* Two processes on one host and one on another; everything may fail.
SPECIFICATION AllSpec
CONSTANTS
  p1 = p1  p2 = p2  p3 = p3  h1 = h1  h2 = h2  i1 = i1  i2 = i2  i3 = i3
  Null = Null
  Process = {p1, p2, p3}
  Host = {h1, h2}
  Pid = {i1, i2}
  HostOf <- TwoHosts
  Stale = 1
  ReusesPid = TRUE
  Faults = {"crash", "reclaimCrash", "io"}
\* Any two of four versions, two of them prereleases, on two packages.
  n1 = n1  n2 = n2
  ReleaseVersion <- Versions
  Released <- Out
  Precedence <- Order
  Package <- TwoPackages
  MaxMade = 2
  NoVersion = NoVersion
CHECK_DEADLOCK FALSE
INVARIANTS ReleasesAreWhole
PROPERTIES ImplementsMutex AbandonedLockIsRecovered ChannelsNeverGoBack
