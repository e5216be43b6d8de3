---------------------------- MODULE OperationSlot ----------------------------
(***************************************************************************)
(* What the controller promises about lifecycle operations: they are        *)
(* accepted one at a time, only while no other one is pending, each gets     *)
(* exactly one outcome, and an outcome is final.                            *)
(***************************************************************************)
EXTENDS Naturals

CONSTANT MaxOps \* bound: operations that are ever accepted

VARIABLES accepted, outcome

slotVars == <<accepted, outcome>>

Outcome == {"succeeded", "failed", "cancelled"}

SlotInit == accepted = 0 /\ outcome = [id \in 1 .. MaxOps |-> "none"]

\* A request is accepted when the previous operation has its outcome.
Accept ==
    /\ accepted < MaxOps
    /\ \A id \in 1 .. MaxOps : outcome[id] # "pending"
    /\ accepted' = accepted + 1
    /\ outcome' = [outcome EXCEPT ![accepted + 1] = "pending"]

\* The pending operation ends.
Complete ==
    /\ \E id \in 1 .. MaxOps, result \in Outcome :
          /\ outcome[id] = "pending"
          /\ outcome' = [outcome EXCEPT ![id] = result]
    /\ UNCHANGED accepted

SlotNext == Accept \/ Complete

SlotSpec == SlotInit /\ [][SlotNext]_slotVars
=============================================================================
