---------------------------- MODULE LaunchProofs ----------------------------
(***************************************************************************)
(* executeInJail() confines every program and leaves the host alone, for   *)
(* every host, any number of launches, and whichever calls fail.           *)
(***************************************************************************)
EXTENDS Launch, TLAPS

(* What the process has been through when it is at pc: each call of        *)
(* executeInJail() relies on those before it.                              *)
Private == {"tty", "root", "pivot", "unmount", "proc", "dirs", "prisoner", "limits", "exec",
            "running"}
Mounts == {"pivot", "unmount", "proc", "dirs"}
Isolated == {"prisoner", "limits", "exec", "running"}

AtType ==
  at \in [user : {"root", "prisoner"}, root : {"host", "jail"}, namespaces : BOOLEAN,
          private : BOOLEAN, old : BOOLEAN, tty : BOOLEAN, rlimits : BOOLEAN]

StagesInOrder ==
  /\ pc \in Private /\ conf.namespaces => at.namespaces /\ at.private
  /\ pc \in Private \ {"tty"} => at.tty
  /\ pc \in Mounts => conf.namespaces
  /\ pc \in {"unmount", "proc", "dirs"} => at.root = "jail"
  /\ pc \in Isolated /\ conf.jail => at.root = "jail"
  /\ pc \in Isolated \ {"prisoner"} => at.user = "prisoner"
  /\ pc \in {"exec", "running"} => at.rlimits
  /\ at.old => pc \in {"unmount", "failed", "ended"}

CInv == AtType /\ pc \in Pcs /\ StagesInOrder /\ HostIsUntouched

-----------------------------------------------------------------------------
(* Ending a process leaves the rest as it is.                              *)
LEMMA DieConfined ==
  ASSUME CInv, NEW ps, Die(ps), UNCHANGED <<conf, at, hostMounts>>
  PROVE CInv'
<1>1. pc' \in {pc, "failed", "ended"}
  BY DEF Die
<1>2. AtType' /\ HostIsUntouched'
  BY DEF CInv, AtType, HostIsUntouched
<1>3. pc' \in Pcs
  BY <1>1 DEF CInv, Pcs
<1>4. StagesInOrder'
  BY <1>1 DEF CInv, StagesInOrder, Private, Mounts, Isolated
<1>5. QED
  BY <1>2, <1>3, <1>4 DEF CInv

LEMMA ThrowsConfined ==
  ASSUME CInv, Throws
  PROVE CInv'
  BY DieConfined DEF Throws, env

LEMMA FailsConfined ==
  ASSUME CInv, NEW call, Fails(call)
  PROVE CInv'
  BY ThrowsConfined DEF Fails

LEMMA SameConfined ==
  ASSUME CInv, UNCHANGED <<conf, pc, at, hostMounts>>
  PROVE CInv'
  BY DEF CInv, AtType, StagesInOrder, HostIsUntouched

(* A call that changes nothing but the position, or the group.             *)
LEMMA GroupCallsConfined ==
  ASSUME CInv, SetupCgroup \/ CgroupRemove \/ CgroupCreate \/ Attach \/ SetMemoryLimit
  PROVE CInv'
<1> DEFINE Next1 == {"cgRemove", "cgCreate", "attach", "limit", "namespaces"}
<1>1. CASE /\ UNCHANGED <<conf, at, hostMounts>>
           /\ pc \in Pcs \ {"unmount", "failed", "ended"} /\ pc' \in Next1
  BY <1>1 DEF CInv, AtType, StagesInOrder, HostIsUntouched, Private, Mounts, Isolated, Pcs
<1>2. CASE SetupCgroup
  BY <1>1, <1>2, ThrowsConfined, FailsConfined DEF SetupCgroup, Local, Stage, env, Pcs
<1>3. CASE CgroupRemove
  BY <1>1, <1>3 DEF CgroupRemove, Stage, env, Pcs
<1>4. CASE CgroupCreate
  BY <1>1, <1>4, FailsConfined DEF CgroupCreate, Stage, env, Pcs
<1>5. CASE Attach
  BY <1>1, <1>5, ThrowsConfined, FailsConfined DEF Attach, Stage, env, Pcs
<1>6. CASE SetMemoryLimit
  BY <1>1, <1>6, ThrowsConfined, FailsConfined DEF SetMemoryLimit, Stage, env, Pcs
<1>7. QED
  BY <1>2, <1>3, <1>4, <1>5, <1>6

(* Namespaces, terminal and the way into the jail.                         *)
LEMMA RootCallsConfined ==
  ASSUME CInv, SetupNamespaces \/ LoginTty \/ SetupFilesystemIsolation \/ PivotRoot
  PROVE CInv'
<1> USE DEF CInv, AtType, StagesInOrder, HostIsUntouched, Private, Mounts, Isolated, Pcs,
            Stage, Local, env
<1>1. CASE SetupNamespaces
  BY <1>1, FailsConfined DEF SetupNamespaces
<1>2. CASE LoginTty
  BY <1>2, FailsConfined DEF LoginTty
<1>3. CASE SetupFilesystemIsolation
  BY <1>3, FailsConfined DEF SetupFilesystemIsolation, Chroot, Mounting
<1>4. CASE PivotRoot
  BY <1>4, FailsConfined DEF PivotRoot, Chroot
<1>5. QED
  BY <1>1, <1>2, <1>3, <1>4

(* Below the new root: unmounting the old one, the mounts of the program,  *)
(* its uid and its limits.                                                 *)
LEMMA ProgramCallsConfined ==
  ASSUME CInv,
         \/ UnmountMountTreeOrThrow \/ RemountProc \/ SetupPrivateWritableDirs
         \/ BecomePrisoner \/ SetLimits \/ TransferExecution
  PROVE CInv'
<1> USE DEF CInv, AtType, StagesInOrder, HostIsUntouched, Private, Mounts, Isolated, Pcs,
            Stage, Local, env
<1>1. CASE UnmountMountTreeOrThrow
  BY <1>1, FailsConfined DEF UnmountMountTreeOrThrow, Mounting
<1>2. CASE RemountProc
  BY <1>2 DEF RemountProc, Mounting
<1>3. CASE SetupPrivateWritableDirs
  BY <1>3 DEF SetupPrivateWritableDirs, Mounting
<1>4. CASE BecomePrisoner
  BY <1>4, FailsConfined DEF BecomePrisoner
<1>5. CASE SetLimits
  BY <1>5 DEF SetLimits
<1>6. CASE TransferExecution
  BY <1>6, ThrowsConfined, FailsConfined DEF TransferExecution
<1>7. QED
  BY <1>1, <1>2, <1>3, <1>4, <1>5, <1>6

LEMMA CInvInit == Init => CInv
  BY DEF Init, CInv, AtType, AtStart, StagesInOrder, HostIsUntouched, Private, Mounts,
         Isolated, Pcs

LEMMA CInvNext == CInv /\ [Next]_vars => CInv'
<1> SUFFICES ASSUME CInv, [Next]_vars PROVE CInv'
  OBVIOUS
<1>1. CASE Fork
  <2>1. AtType' /\ HostIsUntouched'
    BY <1>1 DEF Fork, CInv, AtType, AtStart, HostIsUntouched
  <2>2. pc' = "cgroup" /\ ~at'.old
    BY <1>1 DEF Fork, AtStart
  <2>3. QED
    BY <2>1, <2>2 DEF CInv, StagesInOrder, Private, Mounts, Isolated, Pcs
<1>2. CASE ExecuteInJail
  BY <1>2, GroupCallsConfined, RootCallsConfined, ProgramCallsConfined DEF ExecuteInJail
<1>3. CASE \E i \in Launches : WaiterEnds(i) \/ ProgramForks(i)
  BY <1>3, SameConfined DEF WaiterEnds, ProgramForks, env
<1>4. CASE \E p \in alive : ProgramEnds(p) \/ OOMKills(p)
  BY <1>4, DieConfined DEF ProgramEnds, OOMKills, env
<1>5. CASE IsOutOfMemory \/ CleanTask \/ CleanFiles \/ CleanCgroup
  BY <1>5, SameConfined DEF IsOutOfMemory, CleanTask, CleanFiles, CleanCgroup, env
<1>6. CASE StopPrisonerProcess
  BY <1>6, DieConfined DEF StopPrisonerProcess, env
<1>7. CASE UNCHANGED vars
  BY <1>7, SameConfined DEF vars
<1>8. QED
  BY <1>1, <1>2, <1>3, <1>4, <1>5, <1>6, <1>7 DEF Next, Clean

(* Whatever call fails and whatever executeInJail() falls back to, the     *)
(* program runs as the prisoner, in its jail and in its namespaces.        *)
THEOREM ProgramsAreConfined == Spec => []ProgramIsConfined
<1>1. CInv => ProgramIsConfined
  BY DEF CInv, StagesInOrder, ProgramIsConfined, Private, Isolated
<1>2. QED
  BY <1>1, CInvInit, CInvNext, PTL DEF Spec

(* No mount or unmount of a launch reaches the mounts of the host.         *)
THEOREM HostStaysUntouched == Spec => []HostIsUntouched
<1>1. CInv => HostIsUntouched
  BY DEF CInv
<1>2. QED
  BY <1>1, CInvInit, CInvNext, PTL DEF Spec

-----------------------------------------------------------------------------
(* The memory limit.  A first process that has been attached keeps the     *)
(* group: the directory cannot be removed while it is in it, and with the  *)
(* directory the limit stays.                                              *)

Entered == Attached \ {"attach"}

ProcessesAreKnown ==
  /\ n \in 0 .. MaxLaunches /\ (pc # "none" => n >= 1)
  /\ \A p \in alive : p[1] \in 1 .. n
  /\ pc \in {"none", "failed", "ended"} => First(n) \notin alive

GroupType == group \in [dir : BOOLEAN, limit : BOOLEAN, kills : SUBSET Launches]

AttachedHoldTheGroup ==
  conf.cgroup /\ IsAvailable(base) =>
    \A i \in Launches :
      First(i) \in alive /\ (i = n => pc \in Entered) =>
        /\ i \in inside /\ group.dir
        /\ (i = n => pc # "limit") => group.limit

LInv == ProcessesAreKnown /\ GroupType /\ AttachedHoldTheGroup

LEMMA MadeKeeps ==
  ASSUME GroupType
  PROVE /\ Made(group, base) \in [dir : BOOLEAN, limit : BOOLEAN, kills : SUBSET Launches]
        /\ group.dir => Made(group, base) = group
  BY DEF GroupType, Made, NewGroup

LEMMA NoGroupType ==
  NoGroup \in [dir : BOOLEAN, limit : BOOLEAN, kills : SUBSET Launches]
  BY DEF NoGroup

(* What makes or removes the group keeps that of a program.                *)
LEMMA GroupKept ==
  ASSUME LInv, UNCHANGED <<conf, base, n, alive, inside>>,
         pc' = pc \/ (pc' \in {"cgRemove", "cgCreate", "attach"} /\ pc # "none"),
         \/ group' = group
         \/ group' = Made(group, base)
         \/ group' = Removed(group, Populated)
         \/ group' = Removed(Made(group, base), Populated)
  PROVE LInv'
<1>1. ProcessesAreKnown'
  BY DEF LInv, ProcessesAreKnown, First
<1>2. GroupType'
  BY MadeKeeps, NoGroupType DEF LInv, GroupType, Removed
<1>3. (\E i \in Launches : First(i) \in alive /\ i \in inside) /\ group.dir => group' = group
  BY MadeKeeps DEF LInv, Removed, Populated, First
<1>4. AttachedHoldTheGroup'
  <2> SUFFICES ASSUME conf.cgroup, IsAvailable(base), NEW i \in Launches,
                      First(i) \in alive, i = n => pc' \in Entered
               PROVE /\ i \in inside /\ group'.dir
                     /\ (i = n => pc' # "limit") => group'.limit
    BY DEF AttachedHoldTheGroup, First
  <2>1. i = n => pc' = pc
    BY DEF Entered, Attached
  <2>2. i \in inside /\ group.dir /\ ((i = n => pc # "limit") => group.limit)
    BY <2>1 DEF LInv, AttachedHoldTheGroup
  <2>3. QED
    BY <1>3, <2>1, <2>2
<1>5. QED
  BY <1>1, <1>2, <1>4 DEF LInv

(* Processes that end.                                                     *)
LEMMA DieLimited ==
  ASSUME LInv, NEW ps, Die(ps), First(n) \in ps => pc # "none",
         UNCHANGED <<conf, base, n, inside>>, GroupType',
         group'.dir = group.dir, group'.limit = group.limit
  PROVE LInv'
<1>1. alive' \subseteq alive /\ (First(n) \in ps => First(n) \notin alive')
      /\ (First(n) \notin ps => pc' = pc)
      /\ (First(n) \in ps => pc' \in {"failed", "ended"})
  BY DEF Die, First
<1>2. ProcessesAreKnown'
  BY <1>1 DEF LInv, ProcessesAreKnown, First
<1>3. AttachedHoldTheGroup'
  <2> SUFFICES ASSUME conf.cgroup, IsAvailable(base), NEW i \in Launches,
                      First(i) \in alive', i = n => pc' \in Entered
               PROVE /\ i \in inside /\ group'.dir
                     /\ (i = n => pc' # "limit") => group'.limit
    BY DEF AttachedHoldTheGroup, First
  <2>1. First(i) \in alive /\ (i = n => pc' = pc)
    BY <1>1
  <2>2. QED
    BY <2>1 DEF LInv, AttachedHoldTheGroup
<1>4. QED
  BY <1>2, <1>3 DEF LInv

LEMMA ThrowsLimited ==
  ASSUME LInv, pc # "none", Throws
  PROVE LInv'
<1>1. GroupType'
  BY DEF LInv, GroupType, Throws
<1>2. QED
  BY <1>1, DieLimited DEF Throws, env

LEMMA FailsLimited ==
  ASSUME LInv, pc # "none", NEW call, Fails(call)
  PROVE LInv'
  BY ThrowsLimited DEF Fails

(* A call of a process that is in the group and under its limit, or that   *)
(* uses no group.                                                          *)
LEMMA ForwardLimited ==
  ASSUME LInv, UNCHANGED <<conf, base, n, inside, group>>,
         pc # "none", pc' \in Entered \ {"limit"},
         pc \in Entered \ {"limit"} \/ ~(conf.cgroup /\ IsAvailable(base)),
         alive' \subseteq alive \cup {Waiter(n)}
  PROVE LInv'
<1>1. ProcessesAreKnown'
  BY DEF LInv, ProcessesAreKnown, First, Waiter, Entered, Attached
<1>2. AttachedHoldTheGroup'
  <2> SUFFICES ASSUME conf.cgroup, IsAvailable(base), NEW i \in Launches,
                      First(i) \in alive', i = n => pc' \in Entered
               PROVE i \in inside /\ group.dir /\ group.limit
    BY DEF AttachedHoldTheGroup, First
  <2>1. First(i) \in alive
    BY DEF First, Waiter
  <2>2. QED
    BY <2>1 DEF LInv, AttachedHoldTheGroup
<1>3. QED
  BY <1>1, <1>2 DEF LInv, GroupType

LEMMA GroupCallsLimited ==
  ASSUME LInv, SetupCgroup \/ CgroupRemove \/ CgroupCreate \/ Attach \/ SetMemoryLimit
  PROVE LInv'
<1>n. pc # "none"
  BY DEF SetupCgroup, CgroupRemove, CgroupCreate, Attach, SetMemoryLimit
<1>1. CASE SetupCgroup
  <2>1. CASE (~conf.cgroup \/ (conf.container /\ ~IsAvailable(base))) /\ Local("namespaces")
    BY <1>1, <2>1, ForwardLimited DEF SetupCgroup, Local, Stage, env, Entered, Attached
  <2>2. CASE Throws
    BY <1>n, <2>2, ThrowsLimited
  <2>3. CASE Making /\ Stage("cgRemove") /\ UNCHANGED <<at, inside, hostMounts, busy>>
    BY <1>1, <2>3, GroupKept DEF SetupCgroup, Making, Stage, env
  <2>4. CASE Fails("mkdir")
    BY <1>n, <2>4, FailsLimited
  <2>5. QED
    BY <1>1, <2>1, <2>2, <2>3, <2>4 DEF SetupCgroup
<1>2. CASE CgroupRemove
  BY <1>2, GroupKept DEF CgroupRemove, Stage, env
<1>3. CASE CgroupCreate
  BY <1>n, <1>3, GroupKept, FailsLimited DEF CgroupCreate, Making, Stage, env
<1>4. CASE Attach
  <2>1. CASE /\ HasProcs(group) /\ inside' = inside \cup {n}
             /\ Stage("limit") /\ UNCHANGED <<at, group, hostMounts, busy, used>>
    <3>1. ProcessesAreKnown' /\ GroupType'
      BY <1>4, <2>1 DEF Attach, LInv, ProcessesAreKnown, GroupType, First, Stage, env
    <3>2. AttachedHoldTheGroup'
      BY <1>4, <2>1 DEF Attach, LInv, AttachedHoldTheGroup, First, Stage, env, HasProcs,
         IsAvailable
    <3>3. QED
      BY <3>1, <3>2 DEF LInv
  <2>2. QED
    BY <1>n, <1>4, <2>1, ThrowsLimited, FailsLimited DEF Attach
<1>5. CASE SetMemoryLimit
  <2>1. CASE /\ HasLimit(group, base) /\ group' = Limited(group)
             /\ Stage("namespaces") /\ UNCHANGED <<at, inside, hostMounts, busy, used>>
    <3>1. GroupType' /\ group'.dir = group.dir /\ group'.limit
      BY <2>1 DEF LInv, GroupType, Limited
    <3>2. ProcessesAreKnown'
      BY <1>5, <2>1 DEF SetMemoryLimit, LInv, ProcessesAreKnown, First, Stage, env
    <3>3. AttachedHoldTheGroup'
      BY <1>5, <2>1, <3>1 DEF SetMemoryLimit, LInv, AttachedHoldTheGroup, First, Stage, env,
         IsAvailable, Entered, Attached
    <3>4. QED
      BY <3>1, <3>2, <3>3 DEF LInv
  <2>2. QED
    BY <1>n, <1>5, <2>1, ThrowsLimited, FailsLimited DEF SetMemoryLimit
<1>6. QED
  BY <1>1, <1>2, <1>3, <1>4, <1>5

LEMMA OtherCallsLimited ==
  ASSUME LInv,
         \/ SetupNamespaces \/ LoginTty \/ SetupFilesystemIsolation \/ PivotRoot
         \/ UnmountMountTreeOrThrow \/ RemountProc \/ SetupPrivateWritableDirs
         \/ BecomePrisoner \/ SetLimits \/ TransferExecution
  PROVE LInv'
<1>n. pc # "none"
  BY DEF SetupNamespaces, LoginTty, SetupFilesystemIsolation, PivotRoot,
         UnmountMountTreeOrThrow, RemountProc, SetupPrivateWritableDirs, BecomePrisoner,
         SetLimits, TransferExecution
<1>1. CASE /\ UNCHANGED <<conf, base, n, inside, group>>
           /\ pc \in Entered \ {"limit"} /\ pc' \in Entered \ {"limit"}
           /\ alive' \subseteq alive \cup {Waiter(n)}
  BY <1>1, ForwardLimited DEF Entered, Attached
<1> USE DEF Stage, Local, env, Entered, Attached
<1>2. CASE SetupNamespaces
  BY <1>n, <1>1, <1>2, FailsLimited DEF SetupNamespaces
<1>3. CASE LoginTty
  BY <1>n, <1>1, <1>3, FailsLimited DEF LoginTty
<1>4. CASE SetupFilesystemIsolation
  BY <1>n, <1>1, <1>4, FailsLimited DEF SetupFilesystemIsolation, Chroot
<1>5. CASE PivotRoot
  BY <1>n, <1>1, <1>5, FailsLimited DEF PivotRoot, Chroot
<1>6. CASE UnmountMountTreeOrThrow
  BY <1>n, <1>1, <1>6, FailsLimited DEF UnmountMountTreeOrThrow
<1>7. CASE RemountProc \/ SetupPrivateWritableDirs \/ SetLimits
  BY <1>1, <1>7 DEF RemountProc, SetupPrivateWritableDirs, SetLimits
<1>8. CASE BecomePrisoner
  BY <1>n, <1>1, <1>8, FailsLimited DEF BecomePrisoner
<1>9. CASE TransferExecution
  BY <1>n, <1>1, <1>9, ThrowsLimited, FailsLimited DEF TransferExecution
<1>10. QED
  BY <1>2, <1>3, <1>4, <1>5, <1>6, <1>7, <1>8, <1>9

LEMMA LInvInit == Init => LInv
  BY NoGroupType, LaunchAssumption
     DEF Init, LInv, ProcessesAreKnown, GroupType, AttachedHoldTheGroup

(* A new launch: the one before has its limit, or its process has ended.   *)
LEMMA ForkLimited ==
  ASSUME LInv, Fork
  PROVE LInv'
<1>1. ProcessesAreKnown'
  <2>1. n \in 0 .. MaxLaunches /\ n' = n + 1 /\ n' \in 1 .. MaxLaunches
    BY LaunchAssumption DEF Fork, LInv, ProcessesAreKnown
  <2>2. \A p \in alive' : p[1] \in 1 .. n'
    BY <2>1 DEF Fork, LInv, ProcessesAreKnown, First
  <2>3. QED
    BY <2>1, <2>2 DEF Fork, ProcessesAreKnown
<1>2. GroupType'
  BY DEF Fork, LInv, GroupType
<1>3. AttachedHoldTheGroup'
  <2> SUFFICES ASSUME conf.cgroup, IsAvailable(base), NEW i \in Launches,
                      First(i) \in alive', i = n' => pc' \in Entered
               PROVE i \in inside /\ group.dir /\ group.limit
    BY DEF AttachedHoldTheGroup, First, Fork, env, IsAvailable
  <2>1. i # n + 1
    BY DEF Fork, Entered, Attached
  <2>2. First(i) \in alive
    BY <2>1 DEF Fork, First
  <2>3. i = n => pc = "running"
    BY <2>2 DEF Fork, LInv, ProcessesAreKnown
  <2>4. QED
    BY <2>2, <2>3 DEF LInv, AttachedHoldTheGroup, Entered, Attached
<1>4. QED
  BY <1>1, <1>2, <1>3 DEF LInv

LEMMA LInvNext == LInv /\ [Next]_vars => LInv'
<1> SUFFICES ASSUME LInv, [Next]_vars PROVE LInv'
  OBVIOUS
<1>1. CASE ExecuteInJail
  BY <1>1, GroupCallsLimited, OtherCallsLimited DEF ExecuteInJail
<1>2. CASE \E i \in Launches : WaiterEnds(i) \/ ProgramForks(i)
  <2>1. PICK i \in Launches : WaiterEnds(i) \/ ProgramForks(i)
    BY <1>2
  <2>2. \A p \in alive' : p[1] \in 1 .. n
    BY <2>1 DEF WaiterEnds, ProgramForks, LInv, ProcessesAreKnown, Running, First, Other
  <2>3. \A j \in Nat : First(j) \in alive' => First(j) \in alive
    BY <2>1 DEF WaiterEnds, ProgramForks, First, Other
  <2>4. UNCHANGED <<conf, base, n, pc, inside, group>>
    BY <2>1 DEF WaiterEnds, ProgramForks, env
  <2>5. QED
    BY <2>2, <2>3, <2>4
       DEF LInv, ProcessesAreKnown, GroupType, AttachedHoldTheGroup, Launches, First
<1>3. CASE \E p \in alive : ProgramEnds(p) \/ OOMKills(p)
  <2>1. PICK p \in alive : ProgramEnds(p) \/ OOMKills(p)
    BY <1>3
  <2>k. p[1] \in Launches /\ (First(n) \in {p} => pc # "none")
    BY LaunchAssumption DEF LInv, ProcessesAreKnown, Launches
  <2>2. CASE ProgramEnds(p)
    BY <2>2, <2>k, DieLimited DEF ProgramEnds, env, LInv, GroupType
  <2>3. CASE OOMKills(p)
    <3>1. GroupType' /\ group'.dir = group.dir /\ group'.limit = group.limit
      BY <2>3, <2>k DEF OOMKills, LInv, GroupType
    <3>2. QED
      BY <2>3, <2>k, <3>1, DieLimited DEF OOMKills, env
  <2>4. QED
    BY <2>1, <2>2, <2>3
<1>4. CASE IsOutOfMemory \/ CleanTask \/ CleanFiles \/ CleanCgroup
  BY <1>4, GroupKept DEF IsOutOfMemory, CleanTask, CleanFiles, CleanCgroup, Making, env
<1>5. CASE StopPrisonerProcess
  <2>1. First(n) \in Owned => pc # "none"
    BY DEF Owned, LInv, ProcessesAreKnown
  <2>2. QED
    BY <1>5, <2>1, DieLimited DEF StopPrisonerProcess, env, LInv, GroupType
<1>6. CASE UNCHANGED vars
  BY <1>6, GroupKept DEF vars
<1>7. QED
  BY <1>1, <1>2, <1>3, <1>4, <1>5, <1>6, ForkLimited DEF Next, Clean

(* Where there are control groups, a running program is in its group and   *)
(* the group has its limit, whatever isOutOfMemory(), cleanTask() and the  *)
(* other launches of the task do to the group meanwhile.                   *)
THEOREM LaunchedProgramsAreLimited == Spec => []ProgramsAreLimited
<1>1. LInv => ProgramsAreLimited
  BY DEF LInv, AttachedHoldTheGroup, ProgramsAreLimited, Running, Entered, Attached
<1>2. QED
  BY <1>1, LInvInit, LInvNext, PTL DEF Spec

-----------------------------------------------------------------------------
(* What is in the group.  removeCgroup() succeeds just when no process of  *)
(* an earlier launch is left in it, and from then on only the launch under *)
(* way is let in.                                                          *)

Grouped == conf.cgroup /\ IsAvailable(base)

OwnGroup == group.kills \subseteq {n} /\ \A p \in alive : p[1] \in inside => p[1] = n

KInv ==
  /\ pc \in {"cgRemove", "cgCreate", "attach", "limit"} => Grouped
  /\ ~Grouped => group = NoGroup /\ inside = {}
  /\ pc \in Attached \cup {"cgCreate"} /\ ~busy => OwnGroup
  /\ GroupGoesWithTask

(* The group loses its kills with its directory.                           *)
LEMMA GroupOps ==
  ASSUME GroupType
  PROVE /\ Made(group, base) = group \/ (base.kind = "v2" /\ Made(group, base) = NewGroup)
        /\ Made(group, base).kills \subseteq group.kills
        /\ \A b : Removed(group, b) = group \/ Removed(group, b) = NoGroup
        /\ NoGroup.kills = {} /\ ~NoGroup.dir /\ ~NoGroup.limit
  BY DEF GroupType, Made, NewGroup, Removed, NoGroup

(* Steps that leave the group alone and add no process to it.              *)
LEMMA SameGroup ==
  ASSUME KInv, UNCHANGED <<conf, base, n, inside, group, busy>>,
         cleaner' \in {cleaner, "kill", "check", "group", "left"}, used' = used,
         \A p \in alive' : p \in alive \/ p[1] = n \/ \E q \in alive : q[1] = p[1],
         \/ pc' \notin Attached \cup {"cgRemove", "cgCreate"}
         \/ pc' = pc
         \/ pc' \in Attached \ {"attach", "limit"} /\ (pc \in Attached \/ ~Grouped)
  PROVE KInv'
<1>1. Grouped' = Grouped
  BY DEF Grouped, IsAvailable
<1>2. GroupGoesWithTask'
  BY DEF KInv, GroupGoesWithTask
<1>3. pc' \in {"cgRemove", "cgCreate", "attach", "limit"} => Grouped'
  BY <1>1 DEF KInv, Attached
<1>4. pc' \in Attached \cup {"cgCreate"} /\ ~busy' => OwnGroup'
  <2>1. CASE pc \in Attached \cup {"cgCreate"}
    BY <2>1 DEF KInv, OwnGroup
  <2>2. CASE pc \notin Attached \cup {"cgCreate"} /\ ~Grouped
    BY <2>2 DEF KInv, OwnGroup, NoGroup
  <2>3. QED
    BY <2>1, <2>2
<1>5. ~Grouped' => group' = NoGroup /\ inside' = {}
  BY <1>1 DEF KInv
<1>6. QED
  BY <1>2, <1>3, <1>4, <1>5 DEF KInv

LEMMA DieOwn ==
  ASSUME KInv, NEW ps, Die(ps), UNCHANGED <<conf, base, n, inside, group, busy, used>>,
         cleaner' \in {cleaner, "check"}
  PROVE KInv'
<1>1. alive' \subseteq alive /\ pc' \in {pc, "failed", "ended"}
  BY DEF Die
<1>2. \A p \in alive' : p \in alive \/ p[1] = n \/ \E q \in alive : q[1] = p[1]
  BY <1>1
<1>3. pc' \notin Attached \cup {"cgRemove", "cgCreate"} \/ pc' = pc
  BY <1>1 DEF Attached
<1>4. QED
  BY <1>2, <1>3, SameGroup

LEMMA ThrowsOwn ==
  ASSUME KInv, Throws
  PROVE KInv'
  BY DieOwn DEF Throws, env, task

LEMMA FailsOwn ==
  ASSUME KInv, NEW call, Fails(call)
  PROVE KInv'
  BY ThrowsOwn DEF Fails

LEMMA GroupCallsOwn ==
  ASSUME LInv, KInv,
         SetupCgroup \/ CgroupRemove \/ CgroupCreate \/ Attach \/ SetMemoryLimit
  PROVE KInv'
<1>t. GroupType
  BY DEF LInv
<1>1. CASE SetupCgroup
  <2>1. CASE (~conf.cgroup \/ (conf.container /\ ~IsAvailable(base))) /\ Local("namespaces")
    BY <2>1, SameGroup DEF Local, Stage, env, task, Attached, Grouped
  <2>2. CASE /\ conf.cgroup /\ IsAvailable(base)
             /\ Making /\ Stage("cgRemove") /\ UNCHANGED <<at, inside, hostMounts, busy>>
    <3>1. GroupGoesWithTask'
      BY <1>t, <2>2, GroupOps DEF Making, Stage, task, KInv, GroupGoesWithTask
    <3>2. QED
      BY <2>2, <3>1 DEF Stage, env, KInv, Attached, Grouped, IsAvailable
  <2>3. QED
    BY <1>1, <2>1, <2>2, ThrowsOwn, FailsOwn DEF SetupCgroup
<1>2. CASE CgroupRemove
  <2>1. UNCHANGED <<conf, base, n, alive, inside, cleaner, used>> /\ pc' = "cgCreate"
    BY <1>2 DEF CgroupRemove, Stage, env, task
  <2>2. Grouped /\ Grouped'
    BY <1>2, <2>1 DEF CgroupRemove, KInv, Grouped, IsAvailable
  <2>3. ~busy' => OwnGroup'
    BY <1>2, <2>1 DEF CgroupRemove, OwnGroup, Removed, NoGroup, Populated
  <2>4. GroupGoesWithTask'
    BY <1>2, <1>t, <2>1, GroupOps DEF CgroupRemove, KInv, GroupGoesWithTask
  <2>5. QED
    BY <2>2, <2>3, <2>4 DEF KInv
<1>3. CASE CgroupCreate
  <2>1. CASE Making /\ Stage("attach") /\ UNCHANGED <<at, inside, hostMounts, busy>>
    <3>1. Grouped /\ Grouped'
      BY <1>3, <2>1 DEF CgroupCreate, Stage, env, KInv, Grouped, IsAvailable
    <3>2. GroupGoesWithTask'
      BY <1>t, <2>1, GroupOps DEF Making, Stage, task, KInv, GroupGoesWithTask
    <3>3. ~busy' => OwnGroup'
      BY <1>3, <1>t, <2>1, GroupOps DEF CgroupCreate, Making, Stage, env, KInv, OwnGroup
    <3>4. QED
      BY <3>1, <3>2, <3>3 DEF KInv
  <2>2. QED
    BY <1>3, <2>1, FailsOwn DEF CgroupCreate
<1>4. CASE Attach
  <2>1. CASE inside' = inside \cup {n} /\ Stage("limit")
             /\ UNCHANGED <<at, group, hostMounts, busy, used>>
    <3>1. Grouped /\ Grouped'
      BY <1>4, <2>1 DEF Attach, Stage, env, KInv, Grouped, IsAvailable
    <3>2. ~busy' => OwnGroup'
      BY <1>4, <2>1 DEF Attach, Stage, env, KInv, OwnGroup, Attached
    <3>3. QED
      BY <2>1, <3>1, <3>2 DEF KInv, Stage, task, GroupGoesWithTask
  <2>2. QED
    BY <1>4, <2>1, ThrowsOwn, FailsOwn DEF Attach
<1>5. CASE SetMemoryLimit
  <2>1. CASE HasLimit(group, base) /\ group' = Limited(group) /\ Stage("namespaces")
             /\ UNCHANGED <<at, inside, hostMounts, busy, used>>
    <3>1. Grouped /\ Grouped'
      BY <1>5, <2>1 DEF SetMemoryLimit, Stage, env, KInv, Grouped, IsAvailable
    <3>2. group'.kills = group.kills /\ group'.dir = group.dir
      BY <1>t, <2>1 DEF GroupType, Limited
    <3>3. ~busy' => OwnGroup'
      BY <1>5, <2>1, <3>2 DEF SetMemoryLimit, Stage, env, KInv, OwnGroup, Attached
    <3>4. QED
      BY <2>1, <3>1, <3>2, <3>3 DEF KInv, Stage, task, GroupGoesWithTask
  <2>2. QED
    BY <1>5, <2>1, ThrowsOwn, FailsOwn DEF SetMemoryLimit
<1>6. QED
  BY <1>1, <1>2, <1>3, <1>4, <1>5

LEMMA OtherCallsOwn ==
  ASSUME KInv,
         \/ SetupNamespaces \/ LoginTty \/ SetupFilesystemIsolation \/ PivotRoot
         \/ UnmountMountTreeOrThrow \/ RemountProc \/ SetupPrivateWritableDirs
         \/ BecomePrisoner \/ SetLimits \/ TransferExecution
  PROVE KInv'
<1>1. CASE /\ UNCHANGED <<conf, base, n, inside, group, cleaner, busy, used>>
           /\ pc \in Attached /\ pc' \in Attached \ {"attach", "limit"}
           /\ alive' \subseteq alive \cup {Waiter(n)}
  <2>1. \A p \in alive' : p \in alive \/ p[1] = n \/ \E q \in alive : q[1] = p[1]
    BY <1>1 DEF Waiter
  <2>2. QED
    BY <1>1, <2>1, SameGroup
<1> USE DEF Stage, Local, env, task, Attached
<1>2. CASE SetupNamespaces
  BY <1>1, <1>2, FailsOwn DEF SetupNamespaces
<1>3. CASE LoginTty
  BY <1>1, <1>3, FailsOwn DEF LoginTty
<1>4. CASE SetupFilesystemIsolation
  BY <1>1, <1>4, FailsOwn DEF SetupFilesystemIsolation, Chroot
<1>5. CASE PivotRoot
  BY <1>1, <1>5, FailsOwn DEF PivotRoot, Chroot
<1>6. CASE UnmountMountTreeOrThrow
  BY <1>1, <1>6, FailsOwn DEF UnmountMountTreeOrThrow
<1>7. CASE RemountProc \/ SetupPrivateWritableDirs \/ SetLimits
  BY <1>1, <1>7 DEF RemountProc, SetupPrivateWritableDirs, SetLimits
<1>8. CASE BecomePrisoner
  BY <1>1, <1>8, FailsOwn DEF BecomePrisoner
<1>9. CASE TransferExecution
  BY <1>1, <1>9, ThrowsOwn, FailsOwn DEF TransferExecution
<1>10. QED
  BY <1>2, <1>3, <1>4, <1>5, <1>6, <1>7, <1>8, <1>9

LEMMA KInvInit == Init => KInv
  BY DEF Init, KInv, OwnGroup, Attached, GroupGoesWithTask, NoGroup

(* isOutOfMemory() and cleanTask() of other processes.                     *)
LEMMA OthersOwn ==
  ASSUME LInv, KInv, IsOutOfMemory \/ CleanCgroup
  PROVE KInv'
<1>t. GroupType
  BY DEF LInv
<1>1. UNCHANGED <<conf, base, n, pc, alive, inside, busy>> /\ Grouped' = Grouped
  BY DEF IsOutOfMemory, CleanCgroup, env, Grouped, IsAvailable
<1>2. group'.kills \subseteq group.kills
  BY <1>t, GroupOps DEF IsOutOfMemory, CleanCgroup, Making, Removed
<1>3. ~Grouped => group' = group
  BY DEF IsOutOfMemory, CleanCgroup, Grouped
<1>4. GroupGoesWithTask'
  <2>1. CASE IsOutOfMemory
    BY <1>t, <2>1, GroupOps DEF IsOutOfMemory, Making, task, KInv, GroupGoesWithTask
  <2>2. CASE CleanCgroup
    <3>1. ~Populated => group' = NoGroup
      BY <2>2 DEF CleanCgroup, Removed, KInv, Grouped
    <3>2. QED
      BY <1>t, <2>2, <3>1, GroupOps DEF CleanCgroup, GroupGoesWithTask
  <2>3. QED
    BY <2>1, <2>2
<1>5. QED
  BY <1>1, <1>2, <1>3, <1>4 DEF KInv, OwnGroup

LEMMA KInvNext == LInv /\ KInv /\ [Next]_vars => KInv'
<1> SUFFICES ASSUME LInv, KInv, [Next]_vars PROVE KInv'
  OBVIOUS
<1>1. CASE Fork
  <2>1. pc' = "cgroup" /\ UNCHANGED <<conf, base, inside, group, cleaner, used>>
    BY <1>1 DEF Fork, env, task
  <2>2. QED
    BY <2>1 DEF KInv, Attached, Grouped, IsAvailable, GroupGoesWithTask
<1>2. CASE ExecuteInJail
  BY <1>2, GroupCallsOwn, OtherCallsOwn DEF ExecuteInJail
<1>3. CASE \E i \in Launches : WaiterEnds(i) \/ ProgramForks(i)
  <2>1. PICK i \in Launches : WaiterEnds(i) \/ ProgramForks(i)
    BY <1>3
  <2>2. \A p \in alive' : p \in alive \/ \E q \in alive : q[1] = p[1]
    BY <2>1 DEF WaiterEnds, ProgramForks, Running, First, Other
  <2>3. QED
    BY <2>1, <2>2, SameGroup DEF WaiterEnds, ProgramForks, env, task
<1>4. CASE \E p \in alive : ProgramEnds(p)
  BY <1>4, DieOwn DEF ProgramEnds, env, task
<1>5. CASE \E p \in alive : OOMKills(p)
  <2>1. PICK p \in alive : OOMKills(p)
    BY <1>5
  <2>2. /\ group'.kills = group.kills \cup {p[1]} /\ group'.dir = group.dir
        /\ p[1] \in inside /\ group.limit
    BY <2>1 DEF OOMKills, LInv, GroupType
  <2>3. Grouped /\ Grouped' = Grouped
    BY <2>1, <2>2 DEF OOMKills, KInv, NoGroup, env, Grouped, IsAvailable
  <2>4. alive' \subseteq alive /\ pc' \in {pc, "failed", "ended"}
    BY <2>1 DEF OOMKills, Die
  <2>5. UNCHANGED <<n, inside, cleaner, busy, used>>
    BY <2>1 DEF OOMKills, env, task
  <2>6. pc' \in Attached \cup {"cgCreate"} /\ ~busy' => OwnGroup'
    BY <2>1, <2>2, <2>4, <2>5 DEF KInv, OwnGroup, Attached
  <2>7. QED
    BY <2>2, <2>3, <2>5, <2>6 DEF KInv, GroupGoesWithTask
<1>6. CASE CleanTask \/ CleanFiles
  BY <1>6, SameGroup DEF CleanTask, CleanFiles, env
<1>7. CASE StopPrisonerProcess
  BY <1>7, DieOwn DEF StopPrisonerProcess, env
<1>8. CASE UNCHANGED vars
  BY <1>8, SameGroup DEF vars
<1>9. QED
  BY <1>1, <1>2, <1>3, <1>4, <1>5, <1>6, <1>7, <1>8, OthersOwn DEF Next, Clean

(* isOutOfMemory() blames a launch for no kill of another one, unless      *)
(* processes of an earlier launch kept removeCgroup() from its work.       *)
THEOREM KillsStayOwn == Spec => []KillsAreOwn
<1>1. KInv => KillsAreOwn
  BY DEF KInv, KillsAreOwn, OwnGroup
<1>2. QED
  BY <1>1, LInvInit, LInvNext, KInvInit, KInvNext, PTL DEF Spec

(* cleanTask() leaves no group behind that nobody uses.                    *)
THEOREM GroupsGoWithTasks == Spec => []GroupGoesWithTask
<1>1. KInv => GroupGoesWithTask
  BY DEF KInv
<1>2. QED
  BY <1>1, LInvInit, LInvNext, KInvInit, KInvNext, PTL DEF Spec

-----------------------------------------------------------------------------
(* Types.                                                                  *)

TInv ==
  /\ alive \subseteq (Launches \X {"waiter", "first", "other"})
  /\ inside \subseteq Launches
  /\ ~group.dir => group = NoGroup
  /\ cleaner \in {"idle", "kill", "check", "group", "done", "left"}
  /\ home \in BOOLEAN /\ busy \in BOOLEAN /\ used \in BOOLEAN

LEMMA LaunchIsKnown ==
  ASSUME LInv
  PROVE /\ n \in 0 .. MaxLaunches
        /\ pc # "none" => n \in Launches
        /\ n < MaxLaunches => n + 1 \in Launches
  BY LaunchAssumption DEF LInv, ProcessesAreKnown, Launches

LEMMA DieType ==
  ASSUME TInv, NEW ps, Die(ps)
  PROVE alive' \subseteq (Launches \X {"waiter", "first", "other"})
  BY DEF TInv, Die

LEMMA ThrowsType ==
  ASSUME TInv, Throws \/ \E call : Fails(call)
  PROVE TInv'
<1>1. Throws
  BY DEF Fails
<1>2. QED
  BY <1>1, DieType DEF Throws, task, TInv

(* The group is made, removed or given its limit.                          *)
LEMMA GroupTypeStep ==
  ASSUME LInv, TInv,
         UNCHANGED <<alive, home>>,
         inside' \subseteq inside \cup {n}, n \in Launches \/ inside' = inside,
         cleaner' \in {cleaner, "done"}, busy' \in BOOLEAN, used' \in BOOLEAN,
         \/ group' = group \/ group' = Made(group, base) \/ group' = Removed(group, Populated)
         \/ group' = Removed(Made(group, base), Populated)
         \/ group.dir /\ group' = Limited(group)
  PROVE TInv'
<1>1. ~group'.dir => group' = NoGroup
  BY DEF LInv, GroupType, TInv, Made, Removed, NewGroup, NoGroup, Limited
<1>2. QED
  BY <1>1 DEF TInv

LEMMA ExecuteType ==
  ASSUME LInv, TInv, ExecuteInJail
  PROVE TInv'
<1>1. n \in Launches
  BY LaunchIsKnown
     DEF ExecuteInJail, SetupCgroup, CgroupRemove, CgroupCreate, Attach, SetMemoryLimit,
         SetupNamespaces, LoginTty, SetupFilesystemIsolation, PivotRoot,
         UnmountMountTreeOrThrow, RemountProc, SetupPrivateWritableDirs, BecomePrisoner,
         SetLimits, TransferExecution
<1>2. CASE SetupCgroup \/ CgroupRemove \/ CgroupCreate \/ Attach \/ SetMemoryLimit
  <2>1. CASE Throws \/ \E call : Fails(call)
    BY <2>1, ThrowsType
  <2>2. CASE ~(Throws \/ \E call : Fails(call))
    <3>1. UNCHANGED <<alive, task>> /\ busy' \in BOOLEAN /\ used' \in BOOLEAN
      BY <1>2, <2>2 DEF SetupCgroup, CgroupRemove, CgroupCreate, Attach, SetMemoryLimit,
         Local, Stage, Making, Populated, TInv
    <3>2. inside' \in {inside, inside \cup {n}}
      BY <1>2, <2>2 DEF SetupCgroup, CgroupRemove, CgroupCreate, Attach, SetMemoryLimit, Local
    <3>3. \/ group' = group \/ group' = Made(group, base)
          \/ group' = Removed(group, Populated)
          \/ group.dir /\ group' = Limited(group)
      BY <1>2, <2>2 DEF SetupCgroup, CgroupRemove, CgroupCreate, Attach, SetMemoryLimit,
         Local, Making, HasLimit
    <3>4. QED
      BY <1>1, <3>1, <3>2, <3>3, GroupTypeStep DEF task
  <2>3. QED
    BY <2>1, <2>2
<1>3. CASE \/ SetupNamespaces \/ LoginTty \/ SetupFilesystemIsolation \/ PivotRoot
           \/ UnmountMountTreeOrThrow \/ RemountProc \/ SetupPrivateWritableDirs
           \/ BecomePrisoner \/ SetLimits \/ TransferExecution
  <2>1. CASE Throws \/ \E call : Fails(call)
    BY <2>1, ThrowsType
  <2>2. CASE ~(Throws \/ \E call : Fails(call))
    <3>1. /\ UNCHANGED <<inside, group, task, busy, used>>
          /\ alive' \subseteq alive \cup {Waiter(n)}
      BY <1>3, <2>2
         DEF SetupNamespaces, LoginTty, SetupFilesystemIsolation, PivotRoot, Chroot,
             UnmountMountTreeOrThrow, RemountProc, SetupPrivateWritableDirs, BecomePrisoner,
             SetLimits, TransferExecution, Local, Stage, task
    <3>2. QED
      BY <1>1, <3>1 DEF TInv, Waiter, task
  <2>3. QED
    BY <2>1, <2>2
<1>4. QED
  BY <1>2, <1>3 DEF ExecuteInJail

LEMMA TInvNext == LInv /\ TInv /\ [Next]_vars => TInv'
<1> SUFFICES ASSUME LInv, TInv, [Next]_vars PROVE TInv'
  OBVIOUS
<1>1. CASE Fork
  <2>1. n + 1 \in Launches
    BY <1>1, LaunchIsKnown DEF Fork
  <2>2. alive' = alive \cup {First(n + 1)} /\ busy' = FALSE
        /\ UNCHANGED <<inside, group, home, cleaner, used>>
    BY <1>1 DEF Fork, task
  <2>3. First(n + 1) \in Launches \X {"waiter", "first", "other"}
    BY <2>1 DEF First
  <2>4. QED
    BY <2>2, <2>3 DEF TInv
<1>2. CASE \E i \in Launches : WaiterEnds(i) \/ ProgramForks(i)
  BY <1>2 DEF WaiterEnds, ProgramForks, Other, TInv, task
<1>3. CASE \E p \in alive : ProgramEnds(p)
  <2>1. PICK p \in alive : ProgramEnds(p)
    BY <1>3
  <2>2. UNCHANGED <<inside, group, task, busy, used>> /\ Die({p})
    BY <2>1 DEF ProgramEnds
  <2>3. QED
    BY <2>2, DieType DEF TInv, task
<1>4. CASE \E p \in alive : OOMKills(p)
  <2>1. PICK p \in alive : OOMKills(p)
    BY <1>4
  <2>2. group'.dir = group.dir /\ group.limit /\ NoGroup.limit = FALSE
    BY <2>1 DEF OOMKills, LInv, GroupType, NoGroup
  <2>3. QED
    BY <2>1, <2>2, DieType DEF OOMKills, TInv, task
<1>5. CASE IsOutOfMemory \/ CleanCgroup
  <2>1. /\ UNCHANGED <<alive, home, inside>> /\ cleaner' \in {cleaner, "done"}
        /\ busy' \in BOOLEAN /\ used' \in BOOLEAN
    BY <1>5 DEF IsOutOfMemory, CleanCgroup, Making, Populated, TInv, task
  <2>2. \/ group' = group \/ group' = Made(group, base)
        \/ group' = Removed(Made(group, base), Populated)
    BY <1>5 DEF IsOutOfMemory, CleanCgroup, Making
  <2>3. QED
    BY <2>1, <2>2, GroupTypeStep
<1>6. CASE CleanTask \/ CleanFiles
  BY <1>6 DEF CleanTask, CleanFiles, TInv
<1>7. CASE StopPrisonerProcess
  BY <1>7, DieType DEF StopPrisonerProcess, TInv
<1>8. CASE UNCHANGED vars
  BY <1>8 DEF vars, TInv
<1>9. QED
  BY <1>1, <1>2, <1>3, <1>4, <1>5, <1>6, <1>7, <1>8, ExecuteType DEF Next, Clean

(* Every reachable state of the launches of a task is well-formed: no      *)
(* group has a limit or kills without its directory.                       *)
THEOREM LaunchTypeOK == Spec => []TypeOK
<1>1. Init => TInv
  BY DEF Init, TInv
<1>2. CInv /\ LInv /\ TInv => TypeOK
  BY DEF CInv, AtType, LInv, ProcessesAreKnown, GroupType, TInv, TypeOK
<1>3. QED
  BY <1>1, <1>2, CInvInit, CInvNext, LInvInit, LInvNext, TInvNext, PTL DEF Spec

-----------------------------------------------------------------------------
(* Launches that fail for nothing.  What a launch meets depends on the     *)
(* host and on cleanTask() alone: as long as the task is not being cleaned *)
(* its home is there, and so is its group once it has been made.           *)

Hopeless == conf.cgroup /\ base.kind # "v2" /\ ~(conf.container /\ base = NoBase)
Excused == cleaner # "idle" \/ n \in group.kills \/ Hopeless
Grouping == {"cgRemove", "cgCreate", "attach", "limit"}

HInv ==
  /\ base.kind = "none" => base = NoBase
  /\ base.kind = "v2" => base.memory
  /\ cleaner = "idle" => home
  /\ pc \in Grouping => conf.cgroup
  /\ pc \in Attached /\ conf.cgroup /\ base.kind = "v2" /\ cleaner = "idle" => group.dir
  /\ HealthyLaunchesRun

LEMMA HInvInit == Init => HInv
<1> SUFFICES ASSUME Init PROVE HInv
  OBVIOUS
<1>1. PICK mounts \in Hosts : base \in FindCgroupFilesystem(mounts)
  BY DEF Init
<1>2. base = NoBase \/ \E m \in mounts : /\ ProbeFilesystem(m) /\ m.kind \in {"v1", "v2"}
                                        /\ base = [kind |-> m.kind, memory |-> m.memory]
  BY <1>1 DEF FindCgroupFilesystem
<1>3. (base.kind = "none" => base = NoBase) /\ (base.kind = "v2" => base.memory)
  BY <1>2 DEF ProbeFilesystem, EnableV2Controllers, NoBase
<1>4. QED
  BY <1>3 DEF Init, HInv, Grouping, Attached, HealthyLaunchesRun

LEMMA KnownBase ==
  ASSUME KInv, pc \in Grouping
  PROVE  base # NoBase
  BY DEF KInv, Grouping, Grouped, IsAvailable

(* A step that fails no launch and leaves the group.                       *)
LEMMA OnwardHealthy ==
  ASSUME HInv, UNCHANGED <<conf, base, group>>,
         cleaner' = cleaner \/ cleaner' # "idle",
         cleaner' = "idle" => home',
         \/ pc' = pc /\ n' = n /\ faults' = faults
         \/ pc' = "ended"
         \/ pc' = "cgroup"
         \/ /\ pc' \in Attached
            /\ pc' = "limit" => conf.cgroup
            /\ pc' # "attach"
            /\ pc \in Attached \/ ~conf.cgroup \/ base.kind # "v2"
  PROVE HInv'
<1>1. pc' \in Grouping => conf.cgroup
  BY DEF HInv, Grouping, Attached
<1>2. pc' \in Attached /\ conf.cgroup /\ base.kind = "v2" /\ cleaner' = "idle" => group.dir
  BY DEF HInv, Attached
<1>3. HealthyLaunchesRun'
  BY DEF HInv, HealthyLaunchesRun, Attached
<1>4. QED
  BY <1>1, <1>2, <1>3 DEF HInv

(* The process of the launch ends before it has become the program.        *)
LEMMA DieHealthy ==
  ASSUME HInv, LInv, NEW ps, Die(ps), UNCHANGED <<conf, base, n, home>>,
         cleaner' = cleaner \/ cleaner' # "idle",
         group'.dir = group.dir, group.kills \subseteq group'.kills,
         \/ First(n) \notin ps /\ faults' = faults
         \/ pc = "running"
         \/ faults' # {}
         \/ Excused'
  PROVE HInv'
<1>1. \/ First(n) \notin ps /\ pc' = pc
      \/ First(n) \in ps /\ pc' = IF pc = "running" THEN "ended" ELSE "failed"
  BY DEF Die
<1>2. HealthyLaunchesRun'
  BY <1>1 DEF HInv, HealthyLaunchesRun, Excused, Hopeless
<1>3. QED
  BY <1>1, <1>2 DEF HInv, Grouping, Attached

LEMMA ThrowsHealthy ==
  ASSUME HInv, LInv, Throws, Excused \/ faults' # {}
  PROVE HInv'
<1>1. /\ Die({First(n)}) /\ UNCHANGED <<conf, base, n, home>>
      /\ cleaner' = cleaner /\ group' = group
  BY DEF Throws, env, task
<1>2. Excused => Excused'
  BY <1>1 DEF Excused, Hopeless
<1>3. QED
  BY <1>1, <1>2, DieHealthy

LEMMA FailsHealthy ==
  ASSUME HInv, LInv, NEW call, Fails(call)
  PROVE HInv'
<1>1. faults' # {}
  BY DEF Fails
<1>2. QED
  BY <1>1, ThrowsHealthy DEF Fails

(* A step that makes or removes the group, in a launch that has not failed *)
(* or while nobody cleans.                                                 *)
LEMMA GroupHealthy ==
  ASSUME HInv, TInv, UNCHANGED <<conf, base, n, home, faults>>,
         cleaner' = cleaner,
         \/ group' = Made(group, base) /\ (pc' = pc \/ (pc' \in Grouping /\ conf.cgroup))
         \/ pc' = "cgCreate" /\ conf.cgroup
         \/ pc' = "namespaces" /\ group'.dir /\ conf.cgroup
  PROVE HInv'
<1>1. pc' \in Grouping => conf.cgroup
  BY DEF HInv, Grouping
<1>2. pc' \in Attached /\ conf.cgroup /\ base.kind = "v2" /\ cleaner' = "idle" => group'.dir
  BY DEF HInv, Attached, Grouping, Made, NewGroup
<1>3. HealthyLaunchesRun'
  <2>1. CASE pc' # "failed"
    BY <2>1 DEF HealthyLaunchesRun
  <2>2. CASE pc' = "failed"
    <3>1. pc' = pc /\ group' = Made(group, base)
      BY <2>2 DEF Grouping
    <3>2. group.kills \subseteq group'.kills
      BY <3>1 DEF TInv, Made, NoGroup, NewGroup
    <3>3. QED
      BY <3>1, <3>2 DEF HInv, HealthyLaunchesRun
  <2>3. QED
    BY <2>1, <2>2
<1>4. QED
  BY <1>1, <1>2, <1>3 DEF HInv

LEMMA GroupCallsHealthy ==
  ASSUME HInv, LInv, TInv, KInv,
         SetupCgroup \/ CgroupRemove \/ CgroupCreate \/ Attach \/ SetMemoryLimit
  PROVE HInv'
<1>1. CASE SetupCgroup
  <2>1. CASE /\ ~conf.cgroup \/ (conf.container /\ ~IsAvailable(base))
             /\ Local("namespaces") /\ UNCHANGED at
    <3>1. ~conf.cgroup \/ base.kind # "v2"
      BY <2>1 DEF IsAvailable, NoBase
    <3>2. QED
      BY <2>1, <3>1, OnwardHealthy DEF Local, Stage, env, task, Attached, HInv
  <2>2. CASE conf.cgroup /\ ~conf.container /\ ~IsAvailable(base) /\ Throws
    <3>1. Excused
      BY <2>2 DEF Excused, Hopeless, IsAvailable, NoBase
    <3>2. QED
      BY <2>2, <3>1, ThrowsHealthy
  <2>3. CASE conf.cgroup /\ Making /\ Stage("cgRemove")
    BY <2>3, GroupHealthy DEF Making, Stage, env, task, Grouping
  <2>4. CASE Fails("mkdir")
    BY <2>4, FailsHealthy
  <2>5. QED
    BY <1>1, <2>1, <2>2, <2>3, <2>4 DEF SetupCgroup
<1>2. CASE CgroupRemove
  <2>1. conf.cgroup
    BY <1>2 DEF CgroupRemove, HInv, Grouping
  <2>2. QED
    BY <1>2, <2>1, GroupHealthy DEF CgroupRemove, Stage, env, task
<1>3. CASE CgroupCreate
  <2>1. conf.cgroup
    BY <1>3 DEF CgroupCreate, HInv, Grouping
  <2>2. CASE Making /\ Stage("attach")
    BY <2>1, <2>2, GroupHealthy DEF Making, Stage, env, task, Grouping
  <2>3. QED
    BY <1>3, <2>2, FailsHealthy DEF CgroupCreate
<1>4. CASE Attach
  <2>1. conf.cgroup /\ pc \in Attached
    BY <1>4 DEF Attach, HInv, Grouping, Attached
  <2>2. CASE Stage("limit") /\ group' = group
    BY <2>1, <2>2, OnwardHealthy DEF Stage, env, task, Attached, HInv
  <2>3. CASE ~HasProcs(group) /\ Throws
    <3>1. base # NoBase
      BY <1>4, KnownBase DEF Attach, Grouping
    <3>2. Excused
      BY <2>1, <2>3, <3>1 DEF Excused, Hopeless, HasProcs, HInv
    <3>3. QED
      BY <2>3, <3>2, ThrowsHealthy
  <2>4. QED
    BY <1>4, <2>2, <2>3, FailsHealthy DEF Attach
<1>5. CASE SetMemoryLimit
  <2>1. conf.cgroup /\ pc \in Attached
    BY <1>5 DEF SetMemoryLimit, HInv, Grouping, Attached
  <2>2. CASE HasLimit(group, base) /\ group' = Limited(group) /\ Stage("namespaces")
    <3>1. group'.dir
      BY <2>2 DEF HasLimit, Limited
    <3>2. QED
      BY <2>1, <2>2, <3>1, GroupHealthy DEF Stage, env, task
  <2>3. CASE ~HasLimit(group, base) /\ Throws
    <3>1. base # NoBase
      BY <1>5, KnownBase DEF SetMemoryLimit, Grouping
    <3>2. Excused
      BY <2>1, <2>3, <3>1 DEF Excused, Hopeless, HasLimit, HInv
    <3>3. QED
      BY <2>3, <3>2, ThrowsHealthy
  <2>4. QED
    BY <1>5, <2>2, <2>3, FailsHealthy DEF SetMemoryLimit
<1>6. QED
  BY <1>1, <1>2, <1>3, <1>4, <1>5

LEMMA OtherCallsHealthy ==
  ASSUME HInv, LInv,
         \/ SetupNamespaces \/ LoginTty \/ SetupFilesystemIsolation \/ PivotRoot
         \/ UnmountMountTreeOrThrow \/ RemountProc \/ SetupPrivateWritableDirs
         \/ BecomePrisoner \/ SetLimits \/ TransferExecution
  PROVE HInv'
<1>1. CASE /\ UNCHANGED <<conf, base, n, home, cleaner, faults, group>>
           /\ pc \in Attached /\ pc' \in Attached \ {"attach", "limit"}
  BY <1>1, OnwardHealthy DEF HInv
<1>2. CASE Throws /\ ~home
  <2>1. Excused
    BY <1>2 DEF Excused, HInv
  <2>2. QED
    BY <1>2, <2>1, ThrowsHealthy
<1>3. CASE \E call : Fails(call)
  BY <1>3, FailsHealthy
<1>4. QED
  BY <1>1, <1>2, <1>3
     DEF SetupNamespaces, LoginTty, SetupFilesystemIsolation, PivotRoot, Chroot,
         UnmountMountTreeOrThrow, RemountProc, SetupPrivateWritableDirs, BecomePrisoner,
         SetLimits, TransferExecution, Local, Stage, env, task, Attached

LEMMA HInvNext == LInv /\ TInv /\ KInv /\ HInv /\ [Next]_vars => HInv'
<1> SUFFICES ASSUME LInv, TInv, KInv, HInv, [Next]_vars PROVE HInv'
  OBVIOUS
<1>1. CASE Fork
  BY <1>1, OnwardHealthy DEF Fork, env, task, HInv
<1>2. CASE ExecuteInJail
  BY <1>2, GroupCallsHealthy, OtherCallsHealthy DEF ExecuteInJail
<1>3. CASE \E i \in Launches : WaiterEnds(i) \/ ProgramForks(i)
  BY <1>3, OnwardHealthy DEF WaiterEnds, ProgramForks, env, task, HInv
<1>4. CASE \E p \in alive : ProgramEnds(p)
  <2>1. PICK p \in alive : ProgramEnds(p)
    BY <1>4
  <2>2. First(n) \in {p} => pc = "running"
    BY <2>1 DEF ProgramEnds, Running, First
  <2>3. QED
    BY <2>1, <2>2, DieHealthy DEF ProgramEnds, env, task
<1>5. CASE \E p \in alive : OOMKills(p)
  <2>1. PICK p \in alive : OOMKills(p)
    BY <1>5
  <2>2. group'.dir = group.dir /\ group'.kills = group.kills \cup {p[1]}
    BY <2>1 DEF OOMKills, LInv, GroupType
  <2>3. First(n) \in {p} => n' \in group'.kills
    BY <2>1, <2>2 DEF OOMKills, First
  <2>4. QED
    BY <2>1, <2>2, <2>3, DieHealthy DEF OOMKills, env, task, Excused
<1>6. CASE IsOutOfMemory
  BY <1>6, GroupHealthy DEF IsOutOfMemory, Making, env, task
<1>7. CASE CleanTask \/ CleanFiles
  BY <1>7, OnwardHealthy DEF CleanTask, CleanFiles, env
<1>8. CASE StopPrisonerProcess
  <2>1. Excused'
    BY <1>8 DEF StopPrisonerProcess, Excused
  <2>2. QED
    BY <1>8, <2>1, DieHealthy DEF StopPrisonerProcess, env
<1>9. CASE CleanCgroup
  BY <1>9 DEF CleanCgroup, HInv, HealthyLaunchesRun, env
<1>10. CASE UNCHANGED vars
  BY <1>10, OnwardHealthy DEF vars, env, task, HInv
<1>11. QED
  BY <1>1, <1>2, <1>3, <1>4, <1>5, <1>6, <1>7, <1>8, <1>9, <1>10 DEF Next, Clean

(* A launch in which no call fails runs its program, whatever isOutOfMemory*)
(* does with the group meanwhile: only cleanTask(), the memory limit and a *)
(* host without usable control groups can end it before.                   *)
THEOREM NoLaunchFailsForNothing == Spec => []HealthyLaunchesRun
<1>1. Init => TInv
  BY DEF Init, TInv
<1>2. HInv => HealthyLaunchesRun
  BY DEF HInv
<1>3. QED
  BY <1>1, <1>2, LInvInit, LInvNext, KInvInit, KInvNext, TInvNext, HInvInit, HInvNext, PTL
     DEF Spec
=============================================================================
