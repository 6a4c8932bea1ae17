------------------------------- MODULE Launch -------------------------------
(***************************************************************************)
(* Jail::executeInJail: the process forked by run() and runTerminal() that *)
(* confines itself and becomes the program, call by call, each of which    *)
(* may fail.  The launches of one task follow each other (compilation and  *)
(* run, VNC server and its stopper); other processes ask at any time       *)
(* whether the task is out of memory, and one may clean it.                *)
(***************************************************************************)
EXTENDS Cgroup

CONSTANTS
  Hosts,        \* what /proc/mounts may show
  MaxLaunches   \* bound: launches of a task

ASSUME LaunchAssumption == MaxLaunches \in Nat /\ \A mounts \in Hosts : mounts \subseteq Mount

Launches == 1 .. MaxLaunches

VARIABLES
  conf,      \* configuration and command line
  base,      \* the hierarchy of control groups
  n, pc,     \* the launch under way, and where it is
  at,        \* what the launching process is confined to
  alive,     \* <<launch, role>>: the processes
  inside,    \* launches whose processes are in the group
  group,     \* the control group of the prisoner
  home,      \* the home directory is there
  cleaner,   \* where cleanTask() is
  hostMounts,  \* mounts and unmounts that reached the host
  faults,    \* history: calls of the launch under way that failed
  busy,      \* history: the group was in use when the launch removed it
  used       \* history: the group was used after cleanTask() removed it

env == <<conf, base>>
task == <<home, cleaner>>
vars == <<conf, base, n, pc, at, alive, inside, group, home, cleaner, hostMounts, faults,
          busy, used>>

Pcs == {"none", "cgroup", "cgRemove", "cgCreate", "attach", "limit", "namespaces", "tty",
        "root", "pivot", "unmount", "proc", "dirs", "prisoner", "limits", "exec",
        "running", "failed", "ended"}

AtStart == [user |-> "root", root |-> "host", namespaces |-> FALSE, private |-> FALSE,
            old |-> FALSE, tty |-> FALSE, rlimits |-> FALSE]

TypeOK ==
  /\ n \in 0 .. MaxLaunches /\ pc \in Pcs
  /\ at \in [user : {"root", "prisoner"}, root : {"host", "jail"}, namespaces : BOOLEAN,
             private : BOOLEAN, old : BOOLEAN, tty : BOOLEAN, rlimits : BOOLEAN]
  /\ alive \subseteq (Launches \X {"waiter", "first", "other"})
  /\ inside \subseteq Launches
  /\ group \in [dir : BOOLEAN, limit : BOOLEAN, kills : SUBSET Launches]
  /\ ~group.dir => group = NoGroup
  /\ cleaner \in {"idle", "kill", "check", "group", "done", "left"}
  /\ home \in BOOLEAN /\ busy \in BOOLEAN /\ used \in BOOLEAN

(* main() refuses to run with a jail path in a container, and without one  *)
(* outside; in the foreground it counts as being in a container.           *)
Configurations ==
  {c \in [jail : BOOLEAN, container : BOOLEAN, namespaces : BOOLEAN, cgroup : BOOLEAN] :
     ~c.jail => c.container}

Init ==
  /\ conf \in Configurations
  /\ \E mounts \in Hosts : base \in FindCgroupFilesystem(mounts)
  /\ n = 0 /\ pc = "none" /\ at = AtStart
  /\ alive = {} /\ inside = {} /\ group = NoGroup
  /\ home = TRUE /\ cleaner = "idle"
  /\ hostMounts = {} /\ faults = {} /\ busy = FALSE /\ used = FALSE

-----------------------------------------------------------------------------
(* Processes.  first confines itself and becomes the program; other is     *)
(* what the program leaves in the background; waiter is the process that   *)
(* setupNamespaces() leaves outside of the new pid namespace.              *)

First(i) == <<i, "first">>
Waiter(i) == <<i, "waiter">>
Other(i) == <<i, "other">>

Populated == \E p \in alive : p[1] \in inside

(* The processes that run with the uid of the prisoner.                    *)
Owned == {p \in alive : \/ p[2] = "other"
                        \/ p[2] = "first" /\ (p[1] = n => at.user = "prisoner")}

(* The end of the first process of a pid namespace is the end of the rest. *)
Die(ps) ==
  /\ alive' = alive \ (ps \cup {p \in alive : /\ conf.namespaces /\ p[2] = "other"
                                              /\ First(p[1]) \in ps})
  /\ pc' = IF First(n) \in ps THEN (IF pc = "running" THEN "ended" ELSE "failed") ELSE pc

(* fork() of run() and runTerminal(): when the process of the launch       *)
(* before has been waited for; or that launch was of a VNC server, or,     *)
(* without namespaces, the program has closed its terminal.                *)
Fork ==
  /\ n < MaxLaunches
  /\ pc \in {"none", "running", "failed", "ended"}
  /\ pc # "running" => Waiter(n) \notin alive
  /\ n' = n + 1 /\ pc' = "cgroup" /\ at' = AtStart
  /\ alive' = alive \cup {First(n + 1)}
  /\ faults' = {} /\ busy' = FALSE
  /\ UNCHANGED <<env, inside, group, task, hostMounts, used>>

(* An exception: executeInJail() logs it and ends the process.             *)
Throws ==
  /\ Die({First(n)})
  /\ UNCHANGED <<env, n, at, inside, group, task, hostMounts, busy, used>>

Fails(call) == faults' = faults \cup {call} /\ Throws

(* The process goes on at l.                                               *)
Stage(l) == pc' = l /\ UNCHANGED <<env, n, alive, task, faults>>
Local(l) == Stage(l) /\ UNCHANGED <<inside, group, hostMounts, busy, used>>

(* Every Cgroup object makes its group, and so does createCgroup().        *)
Making ==
  /\ group' = Made(group, base)
  /\ used' = (used \/ (cleaner = "done" /\ base.kind = "v2"))

-----------------------------------------------------------------------------
(* setupCgroup()                                                           *)

SetupCgroup ==
  /\ pc = "cgroup"
  /\ \/ /\ ~conf.cgroup \/ (conf.container /\ ~IsAvailable(base))
        /\ Local("namespaces") /\ UNCHANGED at
     \/ /\ conf.cgroup /\ ~conf.container /\ ~IsAvailable(base)
        /\ Throws /\ UNCHANGED faults
     \/ /\ conf.cgroup /\ IsAvailable(base)
        /\ \/ Making /\ Stage("cgRemove") /\ UNCHANGED <<at, inside, hostMounts, busy>>
           \/ base.kind = "v2" /\ ~group.dir /\ Fails("mkdir")

(* Variant: what is left of an earlier launch is not removed.              *)
CgroupKept ==
  /\ pc = "cgRemove"
  /\ busy' = Populated
  /\ Stage("cgCreate") /\ UNCHANGED <<at, inside, group, hostMounts, used>>

CgroupRemove ==
  /\ pc = "cgRemove"
  /\ group' = Removed(group, Populated)
  /\ busy' = Populated
  /\ Stage("cgCreate") /\ UNCHANGED <<at, inside, hostMounts, used>>

(* Variant: the group is not made again.                                   *)
CgroupNotMadeAgain ==
  /\ pc = "cgCreate"
  /\ Stage("attach") /\ UNCHANGED <<at, inside, group, hostMounts, busy, used>>

CgroupCreate ==
  /\ pc = "cgCreate"
  /\ \/ Making /\ Stage("attach") /\ UNCHANGED <<at, inside, hostMounts, busy>>
     \/ base.kind = "v2" /\ ~group.dir /\ Fails("mkdir")

(* Variant: a process that could not be attached goes on.                  *)
AttachUnchecked ==
  /\ pc = "attach"
  /\ \/ Stage("limit") /\ inside' = inside \cup {n} /\ HasProcs(group)
     \/ Stage("limit") /\ UNCHANGED inside
  /\ UNCHANGED <<at, group, hostMounts, busy, used>>

(* The group may have been removed since by cleanTask().                   *)
Attach ==
  /\ pc = "attach"
  /\ \/ /\ HasProcs(group)
        /\ inside' = inside \cup {n}
        /\ Stage("limit") /\ UNCHANGED <<at, group, hostMounts, busy, used>>
     \/ ~HasProcs(group) /\ Throws /\ UNCHANGED faults
     \/ Fails("attach")

SetMemoryLimit ==
  /\ pc = "limit"
  /\ \/ /\ HasLimit(group, base)
        /\ group' = Limited(group)
        /\ Stage("namespaces") /\ UNCHANGED <<at, inside, hostMounts, busy, used>>
     \/ ~HasLimit(group, base) /\ Throws /\ UNCHANGED faults
     \/ Fails("limit")

-----------------------------------------------------------------------------
(* setupNamespaces() and login_tty()                                       *)

(* Variant: mounts that stay shared with the host are put up with.         *)
SetupNamespacesShared ==
  /\ pc = "namespaces"
  /\ \/ ~conf.namespaces /\ Local("tty") /\ UNCHANGED at
     \/ /\ conf.namespaces
        /\ \E private \in BOOLEAN :
             at' = [at EXCEPT !.namespaces = TRUE, !.private = private]
        /\ alive' = alive \cup {Waiter(n)}
        /\ pc' = "tty"
        /\ UNCHANGED <<env, n, inside, group, task, hostMounts, faults, busy, used>>
     \/ conf.namespaces /\ \E call \in {"unshare", "fork"} : Fails(call)

(* unshare, a mount tree that is private, and the fork that enters the pid *)
(* namespace; the parent waits for the child and ends with EXIT_SUCCESS.   *)
SetupNamespaces ==
  /\ pc = "namespaces"
  /\ \/ ~conf.namespaces /\ Local("tty") /\ UNCHANGED at
     \/ /\ conf.namespaces
        /\ at' = [at EXCEPT !.namespaces = TRUE, !.private = TRUE]
        /\ alive' = alive \cup {Waiter(n)}
        /\ pc' = "tty"
        /\ UNCHANGED <<env, n, inside, group, task, hostMounts, faults, busy, used>>
     \/ conf.namespaces /\ \E call \in {"unshare", "private", "fork"} : Fails(call)

WaiterEnds(i) ==
  /\ Waiter(i) \in alive
  /\ First(i) \notin alive
  /\ alive' = alive \ {Waiter(i)}
  /\ UNCHANGED <<env, n, pc, at, inside, group, task, hostMounts, faults, busy, used>>

LoginTty ==
  /\ pc = "tty"
  /\ \/ at' = [at EXCEPT !.tty = TRUE] /\ Local("root")
     \/ Fails("login_tty")

-----------------------------------------------------------------------------
(* setupFilesystemIsolation(), pivotRoot(), remountProc()                  *)

(* mount() and umount(): seen by the host unless the mounts are private.   *)
Mounting(m) == hostMounts' = IF at.private THEN hostMounts ELSE hostMounts \cup {m}

(* chdir() to the jail and chroot().                                       *)
Chroot(l) ==
  \/ at' = [at EXCEPT !.root = "jail"] /\ Local(l)
  \/ Fails("chroot")

SetupFilesystemIsolation ==
  /\ pc = "root"
  /\ \/ ~conf.jail /\ Local("prisoner") /\ UNCHANGED at
     \/ conf.jail /\ ~conf.namespaces /\ Chroot("prisoner")
     \/ /\ conf.jail /\ conf.namespaces
        /\ \/ /\ Mounting("bind")
              /\ Stage("pivot") /\ UNCHANGED <<at, inside, group, busy, used>>
           \/ Chroot("proc")

(* pivot_root() or, if it fails, chroot() with the host still mounted.     *)
PivotRoot ==
  /\ pc = "pivot"
  /\ \/ at' = [at EXCEPT !.root = "jail", !.old = TRUE] /\ Local("unmount")
     \/ Chroot("proc")
     \/ Fails("chdir")

(* Variant: an old root that is busy is left mounted.                      *)
UnmountMountTreeBestEffort ==
  /\ pc = "unmount"
  /\ \E old \in BOOLEAN : at' = [at EXCEPT !.old = old]
  /\ Mounting("unmount")
  /\ Stage("proc") /\ UNCHANGED <<inside, group, busy, used>>

UnmountMountTreeOrThrow ==
  /\ pc = "unmount"
  /\ \/ /\ at' = [at EXCEPT !.old = FALSE]
        /\ Mounting("unmount")
        /\ Stage("proc") /\ UNCHANGED <<inside, group, busy, used>>
     \/ Fails("unmount")

(* Best effort: the mounts of /proc and /sys may fail.                     *)
RemountProc ==
  /\ pc = "proc"
  /\ Mounting("proc") \/ UNCHANGED hostMounts
  /\ Stage("dirs") /\ UNCHANGED <<at, inside, group, busy, used>>

(* Directories of the home in the place of those that all can write; best  *)
(* effort too.                                                             *)
SetupPrivateWritableDirs ==
  /\ pc = "dirs"
  /\ Mounting("dirs") \/ UNCHANGED hostMounts
  /\ Stage("prisoner") /\ UNCHANGED <<at, inside, group, busy, used>>

-----------------------------------------------------------------------------
(* becomePrisoner(), setLimits(), transferExecution()                      *)

BecomePrisoner ==
  /\ pc = "prisoner"
  /\ \/ at' = [at EXCEPT !.user = "prisoner"] /\ Local("limits")
     \/ Fails("setresuid")

(* A limit that is refused is one that was lower before.                   *)
SetLimits ==
  /\ pc = "limits"
  /\ at' = [at EXCEPT !.rlimits = TRUE] /\ Local("exec")

TransferExecution ==
  /\ pc = "exec"
  /\ \/ home /\ Local("running") /\ UNCHANGED at
     \/ ~home /\ Throws /\ UNCHANGED faults
     \/ \E call \in {"not found", "execve"} : Fails(call)

-----------------------------------------------------------------------------
(* The program, the kernel, and the other processes of the server          *)

Running(i) == First(i) \in alive /\ (i = n => pc = "running")

ProgramForks(i) ==
  /\ Running(i)
  /\ alive' = alive \cup {Other(i)}
  /\ UNCHANGED <<env, n, pc, at, inside, group, task, hostMounts, faults, busy, used>>

ProgramEnds(p) ==
  /\ p[2] = "other" \/ (p[2] = "first" /\ Running(p[1]))
  /\ Die({p})
  /\ UNCHANGED <<env, n, at, inside, group, task, hostMounts, faults, busy, used>>

OOMKills(p) ==
  /\ p \in Owned /\ p[1] \in inside
  /\ group.limit
  /\ group' = [group EXCEPT !.kills = @ \cup {p[1]}]
  /\ Die({p})
  /\ UNCHANGED <<env, n, at, inside, task, hostMounts, faults, busy, used>>

(* isOutOfMemory(), called by the loops every second: its Cgroup object    *)
(* makes the group if it is not there.                                     *)
IsOutOfMemory ==
  /\ conf.cgroup /\ IsAvailable(base)
  /\ n > 0
  /\ Making
  /\ UNCHANGED <<env, n, pc, at, alive, inside, task, hostMounts, faults, busy>>

CleanTask ==
  /\ cleaner = "idle" /\ n > 0
  /\ cleaner' = "kill"
  /\ UNCHANGED <<env, n, pc, at, alive, inside, group, home, hostMounts, faults, busy, used>>

StopPrisonerProcess ==
  /\ cleaner = "kill"
  /\ Die(Owned)
  /\ cleaner' = "check"
  /\ UNCHANGED <<env, n, at, inside, group, home, hostMounts, faults, busy, used>>

CleanFiles ==
  /\ cleaner = "check"
  /\ IF Owned = {} THEN cleaner' = "group" /\ home' = FALSE
     ELSE cleaner' = "left" /\ UNCHANGED home
  /\ UNCHANGED <<env, n, pc, at, alive, inside, group, hostMounts, faults, busy, used>>

(* Variant: the group is left where it is.                                 *)
CleanNoCgroup ==
  /\ cleaner = "group"
  /\ cleaner' = "done"
  /\ UNCHANGED <<env, n, pc, at, alive, inside, group, home, hostMounts, faults, busy, used>>

CleanCgroup ==
  /\ cleaner = "group"
  /\ cleaner' = "done"
  /\ group' = IF conf.cgroup /\ IsAvailable(base)
              THEN Removed(Made(group, base), Populated) ELSE group
  /\ used' = Populated
  /\ UNCHANGED <<env, n, pc, at, alive, inside, home, hostMounts, faults, busy>>

-----------------------------------------------------------------------------
ExecuteInJail ==
  \/ SetupCgroup \/ CgroupRemove \/ CgroupCreate \/ Attach \/ SetMemoryLimit
  \/ SetupNamespaces \/ LoginTty
  \/ SetupFilesystemIsolation \/ PivotRoot \/ UnmountMountTreeOrThrow
  \/ RemountProc \/ SetupPrivateWritableDirs
  \/ BecomePrisoner \/ SetLimits \/ TransferExecution

Clean == CleanTask \/ StopPrisonerProcess \/ CleanFiles \/ CleanCgroup

Next ==
  \/ Fork \/ ExecuteInJail
  \/ \E i \in Launches : WaiterEnds(i) \/ ProgramForks(i)
  \/ \E p \in alive : ProgramEnds(p) \/ OOMKills(p)
  \/ IsOutOfMemory \/ Clean

Spec == Init /\ [][Next]_vars

-----------------------------------------------------------------------------
(* Properties                                                              *)

(* Whatever call of executeInJail() fails, and whatever it falls back to,  *)
(* the program runs with the uid of the prisoner, in the jail with nothing *)
(* of the host below it, in namespaces of its own, with its limits.        *)
ProgramIsConfined ==
  pc = "running" =>
    /\ at.user = "prisoner" /\ at.tty /\ at.rlimits
    /\ conf.jail => at.root = "jail"
    /\ conf.namespaces => at.namespaces /\ at.private
    /\ ~at.old

(* Mounts and unmounts of pivotRoot(), remountProc() and                   *)
(* setupPrivateWritableDirs() never reach the host.                        *)
HostIsUntouched == hostMounts = {}

(* Where control groups are used and there are any, every program of the   *)
(* task runs in the group and the group has its memory limit, although     *)
(* launches, isOutOfMemory() and cleanTask() make and remove it.           *)
ProgramsAreLimited ==
  conf.cgroup /\ IsAvailable(base) =>
    \A i \in Launches : Running(i) => i \in inside /\ group.dir /\ group.limit

(* Once a launch has set up the group, the kills that isOutOfMemory() finds*)
(* there are its own, or processes of an earlier launch were still running *)
(* in the group: nothing is blamed on a program that another one did.      *)
Attached == {"attach", "limit", "namespaces", "tty", "root", "pivot", "unmount", "proc",
             "dirs", "prisoner", "limits", "exec", "running"}
KillsAreOwn == pc \in Attached /\ ~busy => group.kills \subseteq {n}

(* A launch in which no call fails runs its program, unless the task is    *)
(* being cleaned or is out of memory, or the host has no control groups    *)
(* that work: there none at all, or those of v1, whose layout is not met.  *)
HealthyLaunchesRun ==
  pc = "failed" /\ faults = {} =>
    \/ cleaner # "idle"
    \/ n \in group.kills
    \/ conf.cgroup /\ base.kind # "v2" /\ ~(conf.container /\ base = NoBase)

(* "Also remove cgroup if used": when cleanTask() is done no group is left,*)
(* unless a process was still in it or the group was used again.           *)
GroupGoesWithTask == cleaner = "done" /\ ~used => ~group.dir
=============================================================================
