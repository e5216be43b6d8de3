----------------------- MODULE MCOperationCoordinator ------------------------
(***************************************************************************)
(* Four operations over a history of two: operations are pruned, and      *)
(* several of them can be inside finish at the same time.                   *)
(***************************************************************************)
EXTENDS OperationCoordinator
=============================================================================
