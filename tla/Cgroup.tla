------------------------------- MODULE Cgroup -------------------------------
(***************************************************************************)
(* Control groups (cgroup.cpp): the hierarchy that the daemon chooses, and *)
(* the group of one prisoner, a directory of that hierarchy.  A group is a *)
(* value; what the kernel does to it is what the calls of the code meet.   *)
(***************************************************************************)
EXTENDS Naturals, FiniteSets

-----------------------------------------------------------------------------
(* Choosing the hierarchy                                                  *)

(* A line of /proc/mounts.  memory: the controller is offered (v2: listed  *)
(* in cgroup.controllers); busy: v2, it holds processes itself; movable:   *)
(* they can be moved to a leaf.                                            *)
Mount == [kind : {"v2", "v1"}, ro : BOOLEAN, memory : BOOLEAN, busy : BOOLEAN,
          movable : BOOLEAN]

(* +memory in cgroup.subtree_control; EBUSY is met by moving the processes *)
(* of the hierarchy's root to a leaf, once.                                *)
EnableV2Controllers(m) == m.memory /\ (m.busy => m.movable)

(* A group can be made, its files be written, and the group be removed.    *)
ProbeFilesystem(m) ==
  ~m.ro /\ (IF m.kind = "v2" THEN EnableV2Controllers(m) ELSE m.memory)

NoBase == [kind |-> "none", memory |-> FALSE]

(* v2 before v1; nothing that fails the probe.                             *)
FindCgroupFilesystem(mounts) ==
  LET Usable(k) == {[kind |-> k, memory |-> m.memory] :
                      m \in {x \in mounts : x.kind = k /\ ProbeFilesystem(x)}} IN
  IF Usable("v2") # {} THEN Usable("v2")
  ELSE IF Usable("v1") # {} THEN Usable("v1")
  ELSE {NoBase}

(* The daemon asks once; its children inherit the answer.                  *)
IsAvailable(base) == base # NoBase

-----------------------------------------------------------------------------
(* The group of a prisoner                                                 *)

(* kills: the launches whose processes the kernel killed for lack of       *)
(* memory since the directory was made (oom_kill of memory.events).        *)
NoGroup == [dir |-> FALSE, limit |-> FALSE, kills |-> {}]
NewGroup == [dir |-> TRUE, limit |-> FALSE, kills |-> {}]

(* The constructor and createCgroup(): mkdir, which may meet EEXIST.  The  *)
(* layout of v1 is never made: p<uid>/memory below the mount points.       *)
Made(g, base) == IF base.kind = "v2" /\ ~g.dir THEN NewGroup ELSE g

(* removeCgroup(): rmdir fails while there are processes in it.            *)
Removed(g, populated) == IF populated THEN g ELSE NoGroup

(* setMemoryProcs() and setMemoryLimitInBytes() write files of the group.  *)
HasProcs(g) == g.dir
HasLimit(g, base) == g.dir /\ base.memory
Limited(g) == [g EXCEPT !.limit = TRUE]

(* getMemoryOOMControl(): a group that is not there has killed nobody.     *)
OOMKill(g) == g.kills # {}
=============================================================================
