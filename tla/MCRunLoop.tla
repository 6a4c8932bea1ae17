----------------------------- MODULE MCRunLoop ------------------------------
(* RunLoop on small instances; the .cfg file gives the other constants.    *)
EXTENDS RunLoop

(* A batch program writes enough for its output to be cut twice.           *)
Chunks == [batch |-> 7, vncLaunch |-> 1, terminal |-> 2]
=============================================================================
