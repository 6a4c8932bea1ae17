------------------------------ MODULE MCRelay -------------------------------
(* Relay on a small instance; the .cfg file gives the constants.           *)
EXTENDS Relay
=============================================================================
