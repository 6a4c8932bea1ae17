\* An interactive request and a direct run, whose program outlives SIGKILL
\* for a while, on one uid; a monitor, two execute websockets and a request
\* with the admin ticket or a visit.  Homes are kept.
CONSTANTS
  Uids = {u1}
  BatchTasks = {}
  InteractiveTasks = {i1}
  DirectTasks = {d1}
  Monitors = {m1}
  Executors = {e1, e2}
  Admins = {a1}
  Janitors = {}
  NoTask = NoTask
  NoPid = NoPid
  NoUid = NoUid
  KeepHomes = TRUE
  Stubborn = {d1}
  CanCrash = {}
  ChownFails = FALSE
  UidReuse = FALSE
  Timely = TRUE
SPECIFICATION Spec
CHECK_DEADLOCK FALSE
SYMMETRY Symmetry
INVARIANTS
  OnlyLateLaunchesSurvive
PROPERTIES
  RegistrationsAreFinal
