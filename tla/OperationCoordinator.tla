------------------------ MODULE OperationCoordinator -------------------------
(***************************************************************************)
(* internal/controller/operation.go: the Coordinator admits lifecycle       *)
(* operations from concurrent dashboard requests and runs each on a         *)
(* goroutine of its own.  Submit is one critical section of Coordinator.mu;  *)
(* finish first ends the operation under the operation's own mutex, then    *)
(* closes its done channel, and only then takes Coordinator.mu to record    *)
(* it: in between, another operation may be submitted, run and recorded.    *)
(* Current, Get, History and Wait only read.  Of an operation's kind only   *)
(* what bounds its action is kept; times and messages are displayed only.   *)
(***************************************************************************)
EXTENDS Naturals, Sequences, FiniteSets

CONSTANTS
    MaxHistory, \* Coordinator.maxHistory (32 in the code)
    MaxOps      \* bound: operations submitted

ASSUME HistoryAssumption == MaxHistory \in Nat \ {0} /\ MaxOps \in Nat

VARIABLES
    kind,      \* operation.snap.Kind (see Kinds), "none" before Submit
    cancelled, \* the parent context has been cancelled
    nextID, active, last, byID, history, \* the Coordinator (0 is nil)
    phase,     \* operation.snap.Phase, "none" before Submit
    thread     \* what the operation's goroutine does next

vars == <<kind, cancelled, nextID, active, last, byID, history, phase, thread>>

Ops == 1 .. MaxOps

\* A "runtime" operation (start, stop, restart) calls one transition of the
\* supervisor, which bounds itself with a timeout.  A "config" operation may
\* also ask Credimi for identifiers through http.DefaultClient, which has no
\* timeout, and only the context of the request can end it.
Kinds == {"runtime", "config"}

Unfinished == {"queued", "running"}
Terminal == {"succeeded", "failed", "cancelled"}

Init ==
    /\ kind = [id \in Ops |-> "none"] /\ cancelled = FALSE
    /\ nextID = 0 /\ active = 0 /\ last = 0 /\ byID = {} /\ history = <<>>
    /\ phase = [id \in Ops |-> "none"] /\ thread = [id \in Ops |-> "none"]

\* Mutant of Submit: only a queued operation is a conflict.
SubmitChecksQueued(k) ==
    /\ nextID < MaxOps
    /\ active # 0 => phase[active] # "queued"
    /\ nextID' = nextID + 1 /\ active' = nextID'
    /\ kind' = [kind EXCEPT ![nextID'] = k]
    /\ byID' = byID \cup {nextID'}
    /\ phase' = [phase EXCEPT ![nextID'] = "queued"]
    /\ thread' = [thread EXCEPT ![nextID'] = "start"]
    /\ UNCHANGED <<cancelled, last, history>>

\* A Submit that is not refused with a ConflictError.
Submit(k) ==
    /\ nextID < MaxOps
    /\ active # 0 => phase[active] \notin Unfinished
    /\ nextID' = nextID + 1 /\ active' = nextID'
    /\ kind' = [kind EXCEPT ![nextID'] = k]
    /\ byID' = byID \cup {nextID'}
    /\ phase' = [phase EXCEPT ![nextID'] = "queued"]
    /\ thread' = [thread EXCEPT ![nextID'] = "start"]
    /\ UNCHANGED <<cancelled, last, history>>

\* update(op, progress): the first one when the goroutine starts; the others
\* are the action's progress reports and leave the phase as it is.
update(id) ==
    /\ thread[id] = "start"
    /\ phase' = IF phase[id] \in Unfinished THEN [phase EXCEPT ![id] = "running"]
                                            ELSE phase
    /\ thread' = [thread EXCEPT ![id] = "act"]
    /\ UNCHANGED <<kind, cancelled, nextID, active, last, byID, history>>

\* How run judges the error of the action and the state of the context.
Verdict(err) ==
    CASE err = "cancelled" \/ cancelled -> "cancelled"
      [] err = "error" /\ ~cancelled    -> "failed"
      [] OTHER                          -> "succeeded"

\* Mutant of finish: it only ends an operation that is still queued.
finishQueuedOnly(id, err) ==
    /\ thread[id] = "act"
    /\ IF phase[id] = "queued"
       THEN /\ phase' = [phase EXCEPT ![id] = Verdict(err)]
            /\ thread' = [thread EXCEPT ![id] = "close"]
       ELSE /\ thread' = [thread EXCEPT ![id] = "end"]
            /\ UNCHANGED phase
    /\ UNCHANGED <<kind, cancelled, nextID, active, last, byID, history>>

\* The action returns and finish ends the operation under its mutex.
finish(id, err) ==
    /\ thread[id] = "act"
    /\ IF phase[id] \in Unfinished
       THEN /\ phase' = [phase EXCEPT ![id] = Verdict(err)]
            /\ thread' = [thread EXCEPT ![id] = "close"]
       ELSE /\ thread' = [thread EXCEPT ![id] = "end"]
            /\ UNCHANGED phase
    /\ UNCHANGED <<kind, cancelled, nextID, active, last, byID, history>>

\* close(op.done)
CloseDone(id) ==
    /\ thread[id] = "close"
    /\ thread' = [thread EXCEPT ![id] = "record"]
    /\ UNCHANGED <<kind, cancelled, nextID, active, last, byID, history, phase>>

\* Mutant of Cut: the oldest entry is dropped as soon as the history is full.
CutFull(all) == IF Len(all) >= MaxHistory THEN Len(all) + 1 - MaxHistory ELSE 0

\* How many of the oldest entries exceed the bound.
Cut(all) == IF Len(all) > MaxHistory THEN Len(all) - MaxHistory ELSE 0

\* A late finish must not clear the operation that has replaced it.
ClearActive(id) == IF active = id THEN 0 ELSE active

\* The critical section of Coordinator.mu at the end of finish.
Record(id) ==
    LET all == Append(history, id)
        cut == Cut(all)
    IN /\ thread[id] = "record"
       /\ last' = id
       /\ history' = SubSeq(all, cut + 1, Len(all))
       /\ byID' = byID \ {all[i] : i \in 1 .. cut}
       /\ active' = ClearActive(id)
       /\ thread' = [thread EXCEPT ![id] = "end"]
       /\ UNCHANGED <<kind, cancelled, nextID, phase>>

\* The application's context, the parent of every operation, is cancelled.
CancelParent ==
    /\ ~cancelled /\ cancelled' = TRUE
    /\ UNCHANGED <<kind, nextID, active, last, byID, history, phase, thread>>

\* The action of this operation returns.
ActionReturns(id) == \E err \in {"nil", "cancelled", "error"} : finish(id, err)

run(id) ==
    \/ update(id)
    \/ ActionReturns(id)
    \/ CloseDone(id)
    \/ Record(id)

Next == (\E k \in Kinds : Submit(k)) \/ CancelParent \/ \E id \in Ops : run(id)

Spec == Init /\ [][Next]_vars

\* Goroutines run.  A runtime action returns, because the supervisor's
\* transitions end (RuntimeSupervisor, TransitionsEnd); nothing makes a
\* configuration action return before the parent context is cancelled, which
\* every request it makes carries.
FairSpec ==
    /\ Spec
    /\ \A id \in Ops :
          /\ WF_vars(update(id)) /\ WF_vars(CloseDone(id)) /\ WF_vars(Record(id))
          /\ WF_vars((kind[id] = "runtime" \/ cancelled) /\ ActionReturns(id))

-----------------------------------------------------------------------------
(* Properties                                                              *)

\* Every variable of the Coordinator and of its operations has its type.
TypeOK ==
    /\ kind \in [Ops -> Kinds \cup {"none"}] /\ cancelled \in BOOLEAN
    /\ nextID \in 0 .. MaxOps /\ active \in 0 .. MaxOps /\ last \in 0 .. MaxOps
    /\ byID \subseteq Ops /\ history \in Seq(Ops)
    /\ phase \in [Ops -> {"none"} \cup Unfinished \cup Terminal]
    /\ thread \in [Ops -> {"none", "start", "act", "close", "record", "end"}]

\* At most one operation is queued or running, also when a Submit falls
\* between the two halves of an earlier operation's finish: the action of one
\* operation never runs beside the action of another.
OneAtATime ==
    \A a, b \in Ops : phase[a] \in Unfinished /\ phase[b] \in Unfinished => a = b

Recorded == {history[i] : i \in 1 .. Len(history)}

\* Get finds every operation that is not recorded yet and every recorded one
\* that is still in the history, which tells each operation once and keeps
\* at most MaxHistory of them; an operation is forgotten only once the
\* history is full of others.
RegistryExact ==
    /\ byID = {id \in Ops : thread[id] \notin {"none", "end"}} \cup Recorded
    /\ Len(history) <= MaxHistory
    /\ \A i, j \in 1 .. Len(history) : history[i] = history[j] => i = j
    /\ \A id \in 1 .. nextID : id \notin byID => Len(history) = MaxHistory

\* Seen through the identifiers handed out and the phases of the operations.
Slot == INSTANCE OperationSlot WITH
            accepted <- nextID,
            outcome <- [id \in Ops |-> IF phase[id] \in Unfinished THEN "pending"
                                                                  ELSE phase[id]]

\* Submit, run and finish together implement the one-slot specification: an
\* operation is accepted only when no other is pending, and its outcome is final.
SlotImplemented == Slot!SlotSpec

\* The operation's done channel is closed and it was entered in the history.
WasRecorded(id) == phase[id] \in Terminal /\ thread[id] = "end"

\* An operation ends up recorded, so that a waiter returns and the slot is
\* free: a runtime operation always, every operation whose action has returned,
\* and once the application's context is cancelled every accepted one.  A
\* configuration operation that waits for Credimi is promised nothing before
\* that: it may keep the slot, and later requests get a conflict.
EveryOperationIsRecorded ==
    \A id \in Ops :
        (\/ kind[id] = "runtime"
         \/ phase[id] \in Terminal
         \/ cancelled /\ phase[id] # "none") ~> WasRecorded(id)
=============================================================================
