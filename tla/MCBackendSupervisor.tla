-------------------------- MODULE MCBackendSupervisor --------------------------
(* Instances of BackendSupervisor for TLC.                                   *)
EXTENDS BackendSupervisor

\* Waits shorter than, equal to and longer than the wait after kill().
Waits == <<1, 2, 4>>
===============================================================================
