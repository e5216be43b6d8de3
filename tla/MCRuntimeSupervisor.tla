------------------------ MODULE MCRuntimeSupervisor ------------------------
(* Small instances of RuntimeSupervisor for TLC.                            *)
EXTENDS RuntimeSupervisor
=============================================================================
