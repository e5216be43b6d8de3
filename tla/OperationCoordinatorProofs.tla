--------------------- MODULE OperationCoordinatorProofs ----------------------
(***************************************************************************)
(* Proofs about the Coordinator, for every history bound and every number   *)
(* of operations.                                                           *)
(***************************************************************************)
EXTENDS OperationCoordinator, TLAPS

\* How the fields of the Coordinator, the phases and the goroutines of
\* operations relate.  The conjunct that carries OneAtATime is the last: an
\* unfinished operation is the active one, so a Submit always sees it.
SlotInv ==
    /\ TypeOK
    /\ active <= nextID
    /\ \A id \in Ops : (thread[id] = "none" <=> nextID < id)
                       /\ (phase[id] = "none" <=> nextID < id)
    /\ \A id \in Ops : phase[id] \in Unfinished <=> thread[id] \in {"start", "act"}
    /\ \A id \in Ops : phase[id] \in Unfinished => active = id

USE HistoryAssumption

\* The initial state satisfies SlotInv.
LEMMA SlotInvInit == Init => SlotInv
<1> SUFFICES ASSUME Init PROVE SlotInv
  OBVIOUS
<1> USE DEF Init, Ops, Unfinished, Terminal
<1>1. cancelled \in BOOLEAN /\ kind \in [Ops -> Kinds \cup {"none"}]
  BY DEF Kinds
<1>2. TypeOK
  BY <1>1 DEF TypeOK
<1> QED
  BY <1>2 DEF SlotInv

\* Every step preserves SlotInv.
LEMMA SlotInvNext == SlotInv /\ [Next]_vars => SlotInv'
<1> SUFFICES ASSUME SlotInv, [Next]_vars PROVE SlotInv'
  OBVIOUS
<1> USE DEF SlotInv, TypeOK, Ops, Unfinished, Terminal
<1>1. ASSUME NEW k \in Kinds, Submit(k) PROVE SlotInv'
  BY <1>1 DEF Submit, Kinds
<1>2. CASE CancelParent
  BY <1>2 DEF CancelParent
<1>3. ASSUME NEW id \in Ops, update(id) PROVE SlotInv'
  BY <1>3 DEF update
<1>4. ASSUME NEW id \in Ops, NEW err \in {"nil", "cancelled", "error"}, finish(id, err)
      PROVE  SlotInv'
  <2>1. Verdict(err) \in Terminal
    BY DEF Verdict
  <2>2. phase[id] \in Unfinished /\ active = id
    BY <1>4 DEF finish
  <2>3. /\ phase' = [phase EXCEPT ![id] = Verdict(err)]
        /\ thread' = [thread EXCEPT ![id] = "close"]
        /\ UNCHANGED <<kind, cancelled, nextID, active, last, byID, history>>
    BY <1>4, <2>2 DEF finish
  <2> QED
    BY <2>1, <2>2, <2>3
<1>5. ASSUME NEW id \in Ops, CloseDone(id) PROVE SlotInv'
  BY <1>5 DEF CloseDone
<1>6. ASSUME NEW id \in Ops, Record(id) PROVE SlotInv'
  <2> DEFINE all == Append(history, id)
             cut == Cut(all)
  <2>1. all \in Seq(Ops) /\ Len(all) = Len(history) + 1
    OBVIOUS
  <2>2. cut \in 0 .. Len(all)
    BY <2>1 DEF Cut
  <2>3. SubSeq(all, cut + 1, Len(all)) \in Seq(Ops)
    BY <2>1, <2>2
  <2>4. history' \in Seq(Ops) /\ byID' \subseteq Ops
    BY <1>6, <2>3 DEF Record
  <2>5. /\ thread[id] = "record" /\ thread' = [thread EXCEPT ![id] = "end"]
        /\ active' = (IF active = id THEN 0 ELSE active) /\ last' = id
        /\ UNCHANGED <<kind, cancelled, nextID, phase>>
    BY <1>6 DEF Record, ClearActive
  <2>6. TypeOK'
    BY <2>4, <2>5
  <2> QED
    BY <2>5, <2>6
<1>7. CASE UNCHANGED vars
  BY <1>7 DEF vars
<1> QED
  BY <1>1, <1>2, <1>3, <1>4, <1>5, <1>6, <1>7 DEF Next, run, ActionReturns

\* The Coordinator's fields keep their types, and an unfinished operation is
\* the active one, in every behaviour.
THEOREM SlotInvariant == Spec => []SlotInv
<1>1. Init => SlotInv
  BY SlotInvInit
<1>2. SlotInv /\ [Next]_vars => SlotInv'
  BY SlotInvNext
<1> QED
  BY <1>1, <1>2, PTL DEF Spec

\* No two operations are ever queued or running at the same time, whatever
\* Submit runs between the two halves of finish (operation.go, Submit, finish).
THEOREM MutualExclusion == Spec => []OneAtATime
<1>1. SlotInv => OneAtATime
  BY DEF SlotInv, OneAtATime, TypeOK, Ops
<1> QED
  BY <1>1, SlotInvariant, PTL
-----------------------------------------------------------------------------
(* The registry                                                            *)

\* RegistryExact with what makes it inductive: what the history tells of has
\* been recorded.
RegistryInv ==
    /\ SlotInv
    /\ RegistryExact
    /\ \A i \in 1 .. Len(history) : thread[history[i]] = "end"

\* What Record does to the history: one entry is appended, and the oldest one
\* goes when the history is full.
LEMMA RecordHistory ==
    ASSUME NEW id \in Ops, TypeOK, Len(history) <= MaxHistory, Record(id)
    PROVE  \/ /\ Len(history) < MaxHistory
              /\ Len(history') = Len(history) + 1
              /\ \A i \in 1 .. Len(history) : history'[i] = history[i]
              /\ history'[Len(history) + 1] = id
              /\ byID' = byID
           \/ /\ Len(history) = MaxHistory
              /\ Len(history') = MaxHistory
              /\ \A i \in 1 .. MaxHistory - 1 : history'[i] = history[i + 1]
              /\ history'[MaxHistory] = id
              /\ byID' = byID \ {history[1]}
<1> DEFINE all == Append(history, id)
<1> USE DEF TypeOK
<1>1. /\ all \in Seq(Ops) /\ Len(all) = Len(history) + 1
      /\ \A i \in 1 .. Len(history) : all[i] = history[i]
      /\ all[Len(history) + 1] = id
  OBVIOUS
<1>2. Len(history) \in Nat
  OBVIOUS
<1>3. /\ history' = SubSeq(all, Cut(all) + 1, Len(all))
      /\ byID' = byID \ {all[i] : i \in 1 .. Cut(all)}
  BY DEF Record
<1> HIDE DEF all
<1>4. CASE Len(history) < MaxHistory
  <2>1. Cut(all) = 0
    BY <1>1, <1>2, <1>4 DEF Cut
  <2>2. history' = SubSeq(all, 1, Len(all)) /\ byID' = byID
    BY <1>3, <2>1
  <2>3. Len(history') = Len(all) /\ \A i \in 1 .. Len(all) : history'[i] = all[i]
    BY <1>1, <1>2, <2>2
  <2> QED
    BY <1>1, <1>2, <1>4, <2>2, <2>3
<1>5. CASE Len(history) = MaxHistory
  <2>1. Cut(all) = 1
    BY <1>1, <1>2, <1>5 DEF Cut
  <2>2. history' = SubSeq(all, 2, Len(all)) /\ byID' = byID \ {all[1]}
    BY <1>3, <2>1
  <2>3. /\ Len(history') = Len(all) - 1
        /\ \A i \in 1 .. Len(all) - 1 : history'[i] = all[i + 1]
    BY <1>1, <1>2, <1>5, <2>2
  <2> QED
    BY <1>1, <1>2, <1>5, <2>2, <2>3
<1> QED
  BY <1>2, <1>4, <1>5

\* Record preserves RegistryInv.
LEMMA RecordRegistry ==
    ASSUME RegistryInv, SlotInv', NEW id \in Ops, Record(id)
    PROVE  RegistryInv'
<1> DEFINE H == Len(history)
           Busy == {o \in Ops : thread[o] \notin {"none", "end"}}
<1>1. /\ H \in Nat /\ H <= MaxHistory
      /\ \A i \in 1 .. H : history[i] \in Ops /\ thread[history[i]] = "end"
  BY DEF RegistryInv, RegistryExact, SlotInv, TypeOK
<1>2. \A i, j \in 1 .. H : history[i] = history[j] => i = j
  BY DEF RegistryInv, RegistryExact
<1>3. byID = Busy \cup Recorded
  BY DEF RegistryInv, RegistryExact
<1>4. \A o \in 1 .. nextID : o \notin byID => H = MaxHistory
  BY DEF RegistryInv, RegistryExact
<1>5. /\ thread \in [Ops -> {"none", "start", "act", "close", "record", "end"}]
      /\ thread[id] = "record" /\ thread' = [thread EXCEPT ![id] = "end"]
      /\ nextID' = nextID
  BY DEF Record, RegistryInv, SlotInv, TypeOK
<1>6. /\ thread'[id] = "end"
      /\ \A o \in Ops : o # id => thread'[o] = thread[o]
  BY <1>5
<1>7. \A i \in 1 .. H : history[i] # id
  BY <1>1, <1>5
<1>8. Busy' = Busy \ {id} /\ id \in Busy
  BY <1>5, <1>6
<1>9. TypeOK /\ Len(history) <= MaxHistory
  BY <1>1 DEF RegistryInv, SlotInv
<1> HIDE DEF Busy
<1>10. CASE /\ H < MaxHistory
            /\ Len(history') = H + 1
            /\ \A i \in 1 .. H : history'[i] = history[i]
            /\ history'[H + 1] = id
            /\ byID' = byID
  <2>1. Recorded' = Recorded \cup {id}
    <3>1. \A o \in Recorded' : o = id \/ o \in Recorded
      BY <1>1, <1>10 DEF Recorded
    <3>2. \A o \in Recorded : o \in Recorded'
      BY <1>1, <1>10 DEF Recorded
    <3>3. id \in Recorded'
      BY <1>1, <1>10 DEF Recorded
    <3> QED
      BY <3>1, <3>2, <3>3
  <2>2. byID' = Busy' \cup Recorded'
    BY <1>3, <1>8, <1>10, <2>1
  <2>3. \A i, j \in 1 .. H + 1 : history'[i] = history'[j] => i = j
    BY <1>1, <1>2, <1>7, <1>10
  <2>4. \A i \in 1 .. H + 1 : thread'[history'[i]] = "end"
    BY <1>1, <1>6, <1>7, <1>10
  <2>5. \A o \in 1 .. nextID' : o \in byID'
    BY <1>1, <1>4, <1>5, <1>10
  <2> QED
    BY <1>1, <1>10, <2>2, <2>3, <2>4, <2>5 DEF RegistryInv, RegistryExact, Busy
<1>11. CASE /\ H = MaxHistory
            /\ Len(history') = MaxHistory
            /\ \A i \in 1 .. MaxHistory - 1 : history'[i] = history[i + 1]
            /\ history'[MaxHistory] = id
            /\ byID' = byID \ {history[1]}
  <2> DEFINE first == history[1]
  <2>1. first \in Ops /\ thread[first] = "end" /\ first # id
    BY <1>1, <1>7, <1>11
  <2>2. Recorded' = (Recorded \ {first}) \cup {id}
    <3>1. \A o \in Recorded' : o = id \/ o \in Recorded \ {first}
      BY <1>1, <1>2, <1>11 DEF Recorded
    <3>2. \A o \in Recorded \ {first} : o \in Recorded'
      <4> SUFFICES ASSUME NEW o \in Recorded, o # first PROVE o \in Recorded'
        OBVIOUS
      <4>1. PICK j \in 1 .. H : o = history[j]
        BY DEF Recorded
      <4>2. j - 1 \in 1 .. MaxHistory - 1 /\ (j - 1) + 1 = j
        BY <1>1, <1>11, <4>1
      <4>3. history'[j - 1] = o
        BY <1>11, <4>1, <4>2
      <4> QED
        BY <1>11, <4>2, <4>3 DEF Recorded
    <3>3. id \in Recorded'
      BY <1>11 DEF Recorded
    <3> QED
      BY <3>1, <3>2, <3>3
  <2>3. first \notin Busy
    BY <2>1 DEF Busy
  <2>4. byID' = Busy' \cup Recorded'
    BY <1>3, <1>8, <1>11, <2>1, <2>2, <2>3
  <2>5. \A i \in 1 .. MaxHistory - 1 : i + 1 \in 1 .. H /\ history'[i] = history[i + 1]
    BY <1>11
  <2>6. \A i, j \in 1 .. MaxHistory : history'[i] = history'[j] => i = j
    <3> SUFFICES ASSUME NEW i \in 1 .. MaxHistory, NEW j \in 1 .. MaxHistory,
                        history'[i] = history'[j]
                 PROVE  i = j
      OBVIOUS
    <3>1. CASE i # MaxHistory /\ j # MaxHistory
      BY <1>2, <2>5, <3>1
    <3>2. CASE i = MaxHistory \/ j = MaxHistory
      BY <1>7, <1>11, <2>5, <3>2
    <3> QED
      BY <3>1, <3>2
  <2>7. \A i \in 1 .. MaxHistory : thread'[history'[i]] = "end"
    <3> SUFFICES ASSUME NEW i \in 1 .. MaxHistory PROVE thread'[history'[i]] = "end"
      OBVIOUS
    <3>1. CASE i = MaxHistory
      BY <1>6, <1>11, <3>1
    <3>2. CASE i # MaxHistory
      BY <1>1, <1>6, <2>5, <3>2
    <3> QED
      BY <3>1, <3>2
  <2> QED
    BY <1>11, <2>4, <2>6, <2>7 DEF RegistryInv, RegistryExact, Busy
<1> QED
  BY <1>9, <1>10, <1>11, RecordHistory

\* Every step preserves RegistryInv.
LEMMA RegistryInvNext == RegistryInv /\ [Next]_vars => RegistryInv'
<1> SUFFICES ASSUME RegistryInv, [Next]_vars PROVE RegistryInv'
  OBVIOUS
<1>1. SlotInv'
  BY SlotInvNext DEF RegistryInv
<1> USE DEF RegistryInv, RegistryExact, Recorded, SlotInv, TypeOK, Ops
<1>2. ASSUME NEW k \in Kinds, Submit(k) PROVE RegistryInv'
  BY <1>1, <1>2 DEF Submit
<1>3. CASE CancelParent
  BY <1>1, <1>3 DEF CancelParent
<1>4. ASSUME NEW id \in Ops, update(id) PROVE RegistryInv'
  BY <1>1, <1>4 DEF update
<1>5. ASSUME NEW id \in Ops, NEW err \in {"nil", "cancelled", "error"}, finish(id, err)
      PROVE  RegistryInv'
  BY <1>1, <1>5 DEF finish, Unfinished
<1>6. ASSUME NEW id \in Ops, CloseDone(id) PROVE RegistryInv'
  BY <1>1, <1>6 DEF CloseDone
<1>7. ASSUME NEW id \in Ops, Record(id) PROVE RegistryInv'
  BY <1>1, <1>7, RecordRegistry
<1>8. CASE UNCHANGED vars
  BY <1>1, <1>8 DEF vars
<1> HIDE DEF RegistryInv, RegistryExact, Recorded, SlotInv, TypeOK, Ops
<1> QED
  BY <1>2, <1>3, <1>4, <1>5, <1>6, <1>7, <1>8, Zenon DEF Next, run, ActionReturns

-----------------------------------------------------------------------------
(* Refinement                                                              *)

\* A step of the Coordinator is a step of the slot or leaves it as it is.
LEMMA SlotStep == SlotInv /\ SlotInv' /\ [Next]_vars => [Slot!SlotNext]_(Slot!slotVars)
<1> SUFFICES ASSUME SlotInv, SlotInv', [Next]_vars
             PROVE  [Slot!SlotNext]_(Slot!slotVars)
  OBVIOUS
<1> DEFINE outcome == [id \in Ops |-> IF phase[id] \in Unfinished THEN "pending" ELSE phase[id]]
<1> USE DEF SlotInv, TypeOK, Ops, Slot!slotVars
<1>1. ASSUME NEW k \in Kinds, Submit(k) PROVE Slot!SlotNext
  <2>1. nextID' = nextID + 1 /\ nextID < MaxOps
    BY <1>1 DEF Submit
  <2>2. \A id \in Ops : phase[id] \notin Unfinished
    BY <1>1 DEF Submit
  <2>3. \A id \in Ops : outcome[id] = phase[id] /\ outcome[id] # "pending"
    BY <2>2 DEF Unfinished, Terminal
  <2>4. phase' = [phase EXCEPT ![nextID + 1] = "queued"]
    BY <1>1 DEF Submit
  <2>5. outcome' = [outcome EXCEPT ![nextID + 1] = "pending"]
    BY <2>1, <2>2, <2>4 DEF Unfinished
  <2> QED
    BY <2>1, <2>3, <2>5 DEF Slot!SlotNext, Slot!Accept
<1>2. ASSUME NEW id \in Ops, NEW err \in {"nil", "cancelled", "error"}, finish(id, err)
      PROVE  Slot!SlotNext
  <2>1. Verdict(err) \in Slot!Outcome /\ Verdict(err) \notin Unfinished
    BY DEF Verdict, Slot!Outcome, Unfinished
  <2>2. phase[id] \in Unfinished
    BY <1>2 DEF finish
  <2>3. phase' = [phase EXCEPT ![id] = Verdict(err)] /\ nextID' = nextID
    BY <1>2, <2>2 DEF finish
  <2>4. outcome' = [outcome EXCEPT ![id] = Verdict(err)]
    BY <2>1, <2>3
  <2>5. outcome[id] = "pending"
    BY <2>2
  <2> HIDE DEF outcome
  <2>6. \E o \in Ops, result \in Slot!Outcome :
           outcome[o] = "pending" /\ outcome' = [outcome EXCEPT ![o] = result]
    BY <2>1, <2>4, <2>5
  <2> USE DEF outcome
  <2> QED
    BY <2>3, <2>6 DEF Slot!SlotNext, Slot!Complete
<1>3. ASSUME NEW id \in Ops, update(id) \/ CloseDone(id) \/ Record(id)
      PROVE  UNCHANGED <<nextID, outcome>>
  <2>1. CASE update(id)
    BY <2>1 DEF update, Unfinished
  <2>2. CASE CloseDone(id)
    BY <2>2 DEF CloseDone
  <2>3. CASE Record(id)
    BY <2>3 DEF Record
  <2> QED
    BY <1>3, <2>1, <2>2, <2>3
<1>4. CASE CancelParent \/ UNCHANGED vars
  BY <1>4 DEF CancelParent, vars
<1> QED
  BY <1>1, <1>2, <1>3, <1>4 DEF Next, run, ActionReturns

\* The Coordinator implements the one-slot specification: operations are
\* accepted one at a time and an outcome, once given, is final.
THEOREM Refinement == Spec => SlotImplemented
<1>1. Init => Slot!SlotInit
  BY DEF Init, Slot!SlotInit, Ops, Unfinished
<1>2. SlotInv /\ SlotInv' /\ [Next]_vars => [Slot!SlotNext]_(Slot!slotVars)
  BY SlotStep
<1> QED
  BY <1>1, <1>2, SlotInvariant, PTL DEF Spec, SlotImplemented, Slot!SlotSpec

\* In every behaviour the registry holds exactly the operations that are not
\* recorded yet and those of the bounded history (operation.go, finish).
THEOREM Registry == Spec => []RegistryExact
<1>1. Init => RegistryInv
  <2> SUFFICES ASSUME Init PROVE RegistryInv
    OBVIOUS
  <2>1. SlotInv
    BY SlotInvInit
  <2>2. Len(history) = 0 /\ Recorded = {}
    BY DEF Init, Recorded
  <2>3. byID = {id \in Ops : thread[id] \notin {"none", "end"}} \cup Recorded
    BY <2>2 DEF Init
  <2> QED
    BY <2>1, <2>2, <2>3 DEF Init, RegistryInv, RegistryExact
<1>2. RegistryInv /\ [Next]_vars => RegistryInv'
  BY RegistryInvNext
<1>3. RegistryInv => RegistryExact
  BY DEF RegistryInv
<1> QED
  BY <1>1, <1>2, <1>3, PTL DEF Spec
=============================================================================
