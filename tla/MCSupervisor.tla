---------------------------- MODULE MCSupervisor ----------------------------
(* Model-checking instances of Supervisor: see the cfg files.              *)
EXTENDS Supervisor
=============================================================================
