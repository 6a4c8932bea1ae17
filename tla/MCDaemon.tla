------------------------------ MODULE MCDaemon ------------------------------
(* Daemon on small instances; the .cfg files give the constants.           *)
EXTENDS Daemon
=============================================================================
