\* A stop request between setCompiler() and the fork.
CONSTANTS
  Uids = {u1}
  BatchTasks = {b1, b2}
  InteractiveTasks = {}
  DirectTasks = {}
  Monitors = {}
  Executors = {}
  Admins = {a1}
  Janitors = {}
  NoTask = NoTask
  NoPid = NoPid
  NoUid = NoUid
  KeepHomes = FALSE
  Stubborn = {}
  CanCrash = {}
  ChownFails = FALSE
  UidReuse = FALSE
  Timely = TRUE
SPECIFICATION Spec
CHECK_DEADLOCK FALSE
INVARIANTS
  NoForeignProcess
