---------------------------- MODULE MCConfigApply ----------------------------
(***************************************************************************)
(* Instances of ConfigApply: one key of each kind that is treated           *)
(* differently.                                                             *)
(***************************************************************************)
EXTENDS ConfigApply
=============================================================================
