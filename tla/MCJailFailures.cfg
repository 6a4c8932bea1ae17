\* Any process may be killed at any step, chown fails; every
\* task goes away, whatever crashes and whoever stays away.
CONSTANTS
  Uids = {u1}
  BatchTasks = {b1, b2}
  InteractiveTasks = {}
  DirectTasks = {}
  Monitors = {m1}
  Executors = {}
  Admins = {}
  Janitors = {z1}
  NoTask = NoTask
  NoPid = NoPid
  NoUid = NoUid
  KeepHomes = FALSE
  Stubborn = {}
  CanCrash = {b1, b2, m1}
  ChownFails = TRUE
  UidReuse = FALSE
  Timely = TRUE
SPECIFICATION FairSpec
CHECK_DEADLOCK FALSE

  
PROPERTIES
  TaskLifeSpec
  CompiledTasksAreRemoved
