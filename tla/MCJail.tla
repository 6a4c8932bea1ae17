------------------------------- MODULE MCJail -------------------------------
(* JailCommands on small instances; the .cfg files give the constants.     *)
EXTENDS JailCommands, TLC

(* Requests of one kind are interchangeable, and so are the processes of   *)
(* one kind.                                                               *)
Symmetry ==
  UNION {Permutations(BatchTasks), Permutations(Monitors), Permutations(Executors),
         Permutations(Admins)}
=============================================================================
