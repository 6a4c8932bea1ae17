\* A request whose child fails before setCompiler().
CONSTANTS
  Uids = {u1}
  BatchTasks = {b1}
  InteractiveTasks = {}
  DirectTasks = {}
  Monitors = {}
  Executors = {}
  Admins = {}
  Janitors = {z1}
  NoTask = NoTask
  NoPid = NoPid
  NoUid = NoUid
  KeepHomes = FALSE
  Stubborn = {}
  CanCrash = {}
  ChownFails = FALSE
  UidReuse = FALSE
  Timely = TRUE
SPECIFICATION FairSpec
CHECK_DEADLOCK FALSE
PROPERTIES
  EveryTaskIsRemoved
