\* Batch requests on one uid: a monitor, a request with the admin ticket
\* and the janitor.  One task after the other, because the uid is reused.
CONSTANTS
  Uids = {u1}
  BatchTasks = {b1, b2}
  InteractiveTasks = {}
  DirectTasks = {}
  Monitors = {m1}
  Executors = {}
  Admins = {a1}
  Janitors = {z1}
  NoTask = NoTask
  NoPid = NoPid
  NoUid = NoUid
  KeepHomes = FALSE
  Stubborn = {}
  CanCrash = {}
  ChownFails = FALSE
  UidReuse = FALSE
  Timely = TRUE
SPECIFICATION Spec
CHECK_DEADLOCK FALSE
SYMMETRY Symmetry
INVARIANTS
  TypeOK
  HandlersMeetTheirTask
  ResultsBelongToTask
  
PROPERTIES
  AnnouncedStatesAdvance
