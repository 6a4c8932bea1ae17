----------------------------- MODULE LocksProofs ----------------------------
(***************************************************************************)
(* Theorems about module Locks, for any number of processes and tasks.     *)
(***************************************************************************)
EXTENDS Locks, TLAPS

(* The inductive invariant: who is inside a task section owns that lock    *)
(* and no other task lock, who is inside a global section or waits for a   *)
(* task from there owns the global lock, nobody else owns anything, and    *)
(* what was read of a config is still what the config holds.               *)
OwnsItsTask ==
  \A u \in Uids, p \in Procs :
    owner[u] = p <=> pc[p] \in Inside /\ uid[p] = u

OwnsGlobal ==
  \A p \in Procs :
    /\ pc[p] = "global" => owner[Global] = p
    /\ owner[Global] = p => pc[p] \in {"global", "wantTask"} \cup Inside

CopyIsCurrent ==
  \A p \in Procs : pc[p] = "read" => copy[p] = config[uid[p]]

IInv == TypeOK /\ OwnsItsTask /\ OwnsGlobal /\ CopyIsCurrent

-----------------------------------------------------------------------------
LEMMA InitIInv == Init => IInv
  BY LocksAssumption
  DEF Init, IInv, TypeOK, OwnsItsTask, OwnsGlobal, CopyIsCurrent, Pcs, Inside, LockNames

(* Every step preserves the invariant.                                     *)
LEMMA NextIInv == IInv /\ [Next]_vars => IInv'
<1> SUFFICES ASSUME IInv, [Next]_vars PROVE IInv'
  OBVIOUS
<1> USE LocksAssumption DEF IInv, TypeOK, OwnsItsTask, OwnsGlobal, CopyIsCurrent, Pcs,
                            Inside, LockNames, Goto, HoldsGlobal
<1>1. ASSUME NEW p \in Procs, CallGlobal(p) PROVE IInv'
  BY <1>1 DEF CallGlobal
<1>2. ASSUME NEW p \in Procs, NEW u \in Uids, CallTask(p, u) PROVE IInv'
  BY <1>2 DEF CallTask
<1>3. ASSUME NEW p \in Procs, EnterGlobal(p) PROVE IInv'
  BY <1>3 DEF EnterGlobal
<1>4. ASSUME NEW p \in Procs, EnterTask(p) PROVE IInv'
  BY <1>4 DEF EnterTask
<1>5. ASSUME NEW p \in Procs, ReadInfo(p) PROVE IInv'
  BY <1>5 DEF ReadInfo
<1>6. ASSUME NEW p \in Procs, WriteInfo(p) PROVE IInv'
  BY <1>6 DEF WriteInfo
<1>7. ASSUME NEW p \in Procs, RemoveFiles(p) PROVE IInv'
  BY <1>7 DEF RemoveFiles
<1>8. ASSUME NEW p \in Procs, LeaveTask(p) PROVE IInv'
  BY <1>8 DEF LeaveTask
<1>9. ASSUME NEW p \in Procs, LeaveGlobal(p) PROVE IInv'
  BY <1>9 DEF LeaveGlobal
<1>10. ASSUME NEW p \in Procs, Abandon(p) PROVE IInv'
  BY <1>10 DEF Abandon
<1>11. CASE UNCHANGED vars
  BY <1>11 DEF vars
<1>12. QED
  BY <1>1, <1>2, <1>3, <1>4, <1>5, <1>6, <1>7, <1>8, <1>9, <1>10, <1>11
  DEF Next, Enter, Work, Leave

LEMMA InvariantIInv == Spec => []IInv
  BY InitIInv, NextIInv, PTL DEF Spec

-----------------------------------------------------------------------------
(* No set of processes waits on each other for ever in the locks of        *)
(* processMonitor.cpp: a chain of waiting processes has at most two links. *)
THEOREM LocksNeverDeadlock == Spec => []NoDeadlock
<1>1. IInv => NoDeadlock
  <2> SUFFICES ASSUME IInv, NEW p \in Procs, NEW l \in WaitsFor(p), ~Unblocked(l)
               PROVE \A m \in WaitsFor(owner[l]) : Unblocked(m)
    BY DEF NoDeadlock
  <2> USE LocksAssumption DEF IInv, TypeOK, OwnsItsTask, OwnsGlobal, Inside, LockNames,
                              Unblocked, Waits, Pcs
  <2>1. l \in LockNames
    BY DEF WaitsFor
  <2>2. owner[l] \in Procs /\ pc[owner[l]] \in {"wantGlobal", "wantTask"}
    BY <2>1
  <2>3. l = Global /\ pc[owner[l]] = "wantTask"
    BY <2>1, <2>2
  <2>4. WaitsFor(owner[l]) = {uid[owner[l]]}
    BY <2>3 DEF WaitsFor
  <2>5. uid[owner[l]] \in Uids
    BY <2>2
  <2>6. Unblocked(uid[owner[l]])
    BY <2>5
  <2>7. QED
    BY <2>4, <2>6
<1>2. QED
  BY <1>1, InvariantIInv, PTL

(* The locks make every method of processMonitor.cpp atomic on its config  *)
(* file: the locked reads and writes implement module TaskFile.            *)
THEOREM LocksImplementAtomicFile == Spec => AtomicSpec
<1>1. Init => Atomic!Init
  BY DEF Init, Atomic!Init
<1>2. IInv /\ [Next]_vars => [Atomic!Next]_config
  <2> SUFFICES ASSUME IInv, [Next]_vars, config' # config
               PROVE Atomic!Next
    OBVIOUS
  <2>1. PICK p \in Procs : WriteInfo(p) \/ RemoveFiles(p)
    BY DEF Next, Enter, Work, Leave, vars, CallGlobal, CallTask, EnterGlobal, EnterTask,
           ReadInfo, LeaveTask, LeaveGlobal, Abandon
  <2>2. uid[p] \in Uids
    BY DEF IInv, TypeOK
  <2>3. CASE WriteInfo(p)
    <3>1. copy[p] = config[uid[p]]
      BY <2>3 DEF WriteInfo, IInv, CopyIsCurrent
    <3>2. Atomic!Update(p, uid[p])
      BY <2>3, <3>1 DEF WriteInfo, Atomic!Update
    <3>3. QED
      BY <2>2, <3>2 DEF Atomic!Next
  <2>4. CASE RemoveFiles(p)
    <3>1. Atomic!Remove(uid[p])
      BY <2>4 DEF RemoveFiles, Atomic!Remove
    <3>2. QED
      BY <2>2, <3>1 DEF Atomic!Next
  <2>5. QED
    BY <2>1, <2>3, <2>4
<1>3. QED
  BY <1>1, <1>2, InvariantIInv, PTL DEF Spec, AtomicSpec, Atomic!Spec
=============================================================================
