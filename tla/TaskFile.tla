------------------------------ MODULE TaskFile ------------------------------
(***************************************************************************)
(* What the locks of lock.h promise to processMonitor.cpp: an operation on *)
(* the config file of a task takes effect at once, on what the previous    *)
(* one left.  file[u] is the set of updates the file of task u carries.    *)
(***************************************************************************)
CONSTANTS Procs, Uids

VARIABLE file

Init == file = [u \in Uids |-> {}]

(* setCompiler(), setRunner(), monitorize() ...: one more registration.    *)
Update(p, u) == file' = [file EXCEPT ![u] = @ \cup {p}]

(* cleanPrisonerFiles(): the task is removed.                              *)
Remove(u) == file' = [file EXCEPT ![u] = {}]

Next == \E u \in Uids : Remove(u) \/ \E p \in Procs : Update(p, u)

Spec == Init /\ [][Next]_file
=============================================================================
