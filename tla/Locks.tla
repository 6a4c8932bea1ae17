-------------------------------- MODULE Locks -------------------------------
(***************************************************************************)
(* The locks of lock.h, and how the methods of processMonitor.cpp take     *)
(* them.  A lock is a file locked with flock(); each Lock object opens the *)
(* file anew, so a process that asks again for a lock it holds waits for   *)
(* itself.  There is one GlobalLock and one TaskLock for each uid.         *)
(*                                                                         *)
(* The lock programs of the methods are all paths of one control graph:    *)
(*   selectPrisoner                          G .. -G                       *)
(*   getState, setRunner, setCompiler,                                     *)
(*   isMonitored, setExtraInfo, getResult,                                 *)
(*   set...Output                            T .. -T                       *)
(*   constructors, cleanTask (first part),                                 *)
(*   cleanPrisonerFiles, getHttpPassthrough  G T .. -T -G                  *)
(*   ticket constructor with monitorize      G T .. -T T .. -T -G          *)
(* Inside a TaskLock the config file is read and then, perhaps, replaced   *)
(* (writeConfiguration: a new file renamed onto the old one).              *)
(***************************************************************************)
CONSTANTS
  Procs,   \* processes
  Uids,    \* the uids of the tasks
  Global,  \* the global lock
  Nobody

ASSUME LocksAssumption ==
  /\ Global \notin Uids
  /\ Nobody \notin Procs

LockNames == Uids \cup {Global}

VARIABLES
  pc,     \* where each process is
  uid,    \* the uid of its processMonitor object
  copy,   \* what it last read of the config
  owner,  \* who holds each lock
  config  \* the config files: the updates they carry

vars == <<pc, uid, copy, owner, config>>

Inside == {"locked", "read", "written"}
Pcs == {"idle", "wantGlobal", "global", "wantTask"} \cup Inside

TypeOK ==
  /\ pc \in [Procs -> Pcs]
  /\ uid \in [Procs -> Uids]
  /\ copy \in [Procs -> SUBSET Procs]
  /\ owner \in [LockNames -> Procs \cup {Nobody}]
  /\ config \in [Uids -> SUBSET Procs]

Init ==
  /\ pc = [p \in Procs |-> "idle"]
  /\ uid \in [Procs -> Uids]
  /\ copy = [p \in Procs |-> {}]
  /\ owner = [l \in LockNames |-> Nobody]
  /\ config = [u \in Uids |-> {}]

Goto(p, l) == pc' = [pc EXCEPT ![p] = l]
HoldsGlobal(p) == owner[Global] = p

-----------------------------------------------------------------------------
(* A method is called: it begins with the global lock or with a task lock. *)
CallGlobal(p) ==
  /\ pc[p] = "idle"
  /\ Goto(p, "wantGlobal")
  /\ UNCHANGED <<uid, copy, owner, config>>

(* Variant: a method that holds the lock of a task calls another that      *)
(* takes it.                                                               *)
CallTaskAgain(p, u) ==
  /\ pc[p] \in {"idle", "global", "read"}
  /\ pc[p] = "read" => u = uid[p]
  /\ Goto(p, "wantTask")
  /\ uid' = [uid EXCEPT ![p] = u]
  /\ UNCHANGED <<copy, owner, config>>

(* TaskLock(getPrisonerID()), at the start of a method or inside the       *)
(* section of a GlobalLock; there the constructor may have set the uid.    *)
CallTask(p, u) ==
  /\ pc[p] \in {"idle", "global"}
  /\ Goto(p, "wantTask")
  /\ uid' = [uid EXCEPT ![p] = u]
  /\ UNCHANGED <<copy, owner, config>>

(* flock(fd, LOCK_EX) returns.                                             *)
EnterGlobal(p) ==
  /\ pc[p] = "wantGlobal"
  /\ owner[Global] = Nobody
  /\ owner' = [owner EXCEPT ![Global] = p]
  /\ Goto(p, "global")
  /\ UNCHANGED <<uid, copy, config>>

(* Variant: LOCK_SH.                                                       *)
EnterTaskShared(p) ==
  /\ pc[p] = "wantTask"
  /\ owner' = [owner EXCEPT ![uid[p]] = p]
  /\ Goto(p, "locked")
  /\ UNCHANGED <<uid, copy, config>>

EnterTask(p) ==
  /\ pc[p] = "wantTask"
  /\ owner[uid[p]] = Nobody
  /\ owner' = [owner EXCEPT ![uid[p]] = p]
  /\ Goto(p, "locked")
  /\ UNCHANGED <<uid, copy, config>>

(* readInfo()                                                              *)
ReadInfo(p) ==
  /\ pc[p] = "locked"
  /\ copy' = [copy EXCEPT ![p] = config[uid[p]]]
  /\ Goto(p, "read")
  /\ UNCHANGED <<uid, owner, config>>

(* writeInfo(): what was read, with the change of this method.             *)
WriteInfo(p) ==
  /\ pc[p] = "read"
  /\ config' = [config EXCEPT ![uid[p]] = copy[p] \cup {p}]
  /\ Goto(p, "written")
  /\ UNCHANGED <<uid, copy, owner>>

(* cleanPrisonerFilesLocked() removes the control directory.               *)
RemoveFiles(p) ==
  /\ pc[p] = "read"
  /\ HoldsGlobal(p)
  /\ config' = [config EXCEPT ![uid[p]] = {}]
  /\ Goto(p, "written")
  /\ UNCHANGED <<uid, copy, owner>>

(* The destructor of the TaskLock.                                         *)
LeaveTask(p) ==
  /\ pc[p] \in Inside
  /\ owner' = [owner EXCEPT ![uid[p]] = Nobody]
  /\ Goto(p, IF HoldsGlobal(p) THEN "global" ELSE "idle")
  /\ copy' = [copy EXCEPT ![p] = {}]
  /\ UNCHANGED <<uid, config>>

(* Variant: the file of the global lock is left open.                      *)
LeaveGlobalLeaks(p) ==
  /\ pc[p] = "global"
  /\ Goto(p, "idle")
  /\ UNCHANGED <<uid, copy, owner, config>>

(* The destructor of the GlobalLock.                                       *)
LeaveGlobal(p) ==
  /\ pc[p] = "global"
  /\ owner' = [owner EXCEPT ![Global] = Nobody]
  /\ Goto(p, "idle")
  /\ UNCHANGED <<uid, copy, config>>

(* An exception unwinds the method and its Lock objects, or the process is *)
(* killed and the kernel closes its files.                                 *)
Abandon(p) ==
  /\ pc[p] # "idle"
  /\ owner' = [l \in LockNames |-> IF owner[l] = p THEN Nobody ELSE owner[l]]
  /\ Goto(p, "idle")
  /\ copy' = [copy EXCEPT ![p] = {}]
  /\ UNCHANGED <<uid, config>>

Enter(p) == EnterGlobal(p) \/ EnterTask(p)
Work(p) == ReadInfo(p) \/ WriteInfo(p) \/ RemoveFiles(p)
Leave(p) == LeaveTask(p) \/ LeaveGlobal(p)

Next == \E p \in Procs :
  CallGlobal(p) \/ (\E u \in Uids : CallTask(p, u)) \/ Enter(p) \/ Work(p) \/ Leave(p)
  \/ Abandon(p)

Spec == Init /\ [][Next]_vars

(* No section waits for anything but a lock, and a global section holds at *)
(* most two task sections, so both are left; flock() does not overlook a   *)
(* waiter for ever.                                                        *)
FairSpec ==
  /\ Spec
  /\ \A p \in Procs : SF_vars(EnterGlobal(p)) /\ SF_vars(EnterTask(p))
  /\ \A p \in Procs : SF_vars(LeaveGlobal(p)) /\ SF_vars(LeaveTask(p))

-----------------------------------------------------------------------------
(* Properties                                                              *)

(* The lock a process waits for.                                           *)
WaitsFor(p) == CASE pc[p] = "wantGlobal" -> {Global}
                 [] pc[p] = "wantTask" -> {uid[p]}
                 [] OTHER -> {}

Waits(p) == pc[p] \in {"wantGlobal", "wantTask"}

(* No deadlock: whoever waits for a lock, that lock is free, or its holder *)
(* is at work, or its holder waits in turn for a lock that is free or held *)
(* by a process at work.                                                   *)
Unblocked(l) == owner[l] = Nobody \/ ~Waits(owner[l])

NoDeadlock ==
  \A p \in Procs : \A l \in WaitsFor(p) :
    Unblocked(l) \/ \A m \in WaitsFor(owner[l]) : Unblocked(m)

(* The config files change as if every method were atomic: no registration *)
(* is lost between readInfo() and writeInfo().                             *)
Atomic == INSTANCE TaskFile WITH file <- config
AtomicSpec == Atomic!Spec

(* Whoever waits for a lock gets on.                                       *)
WaitsEnd == \A p \in Procs : Waits(p) ~> ~Waits(p)
=============================================================================
