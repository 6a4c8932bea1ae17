------------------------------ MODULE MCLocks -------------------------------
(* Locks on small instances; the .cfg files give the constants.            *)
EXTENDS Locks
=============================================================================
