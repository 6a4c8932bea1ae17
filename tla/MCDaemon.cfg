\* Requests from an address and the daemon's own children, orphans, failing
\* forks, pids used again.
CONSTANTS
  IPs = {ip1}
  LocalIP = LocalIP
  NoIP = NoIP
  Pids = {p1, p2, p3}
  ForkError = ForkError
  Threshold = 1
  NSockets = 1
  MaxForks = 4
  CanForkFail = TRUE
  Adopts = TRUE
SPECIFICATION FairSpec
CHECK_DEADLOCK FALSE
INVARIANTS
  ChargedToTheRightIP
  BanCriterion
PROPERTIES
  BanOutlastsRequests
  ChildrenAreHarvested
