\* Two processes, two tasks.
CONSTANTS
  Procs = {p1, p2}
  Uids = {u1, u2}
  Global = Global
  Nobody = Nobody
SPECIFICATION FairSpec
INVARIANTS
  NoDeadlock
PROPERTIES
  AtomicSpec
  WaitsEnd
