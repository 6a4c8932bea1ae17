------------------------------ MODULE MCLaunch ------------------------------
(* Launch on every host that mounts at most two hierarchies.               *)
EXTENDS Launch
MCHosts == {{}} \cup {{m1, m2} : m1, m2 \in Mount}
=============================================================================
