\* Three launches of a task on every kind of host, with every call that may
\* fail, somebody who asks for the memory, and a cleanTask().
CONSTANTS
  Hosts <- MCHosts
  MaxLaunches = 3
SPECIFICATION Spec
CHECK_DEADLOCK FALSE
INVARIANTS
  ProgramIsConfined
  HostIsUntouched
  ProgramsAreLimited
  KillsAreOwn
  HealthyLaunchesRun
  GroupGoesWithTask
