---------------------------- MODULE WorkerProcess ----------------------------
(***************************************************************************)
(* pkg/server: the ProcessStore of a runtime generation and the worker       *)
(* Processes in it, one per namespace.  Three kinds of goroutines meet in it: *)
(* API requests (processStart), the activation of the generation            *)
(* (StartExistingWorkers, the thread "boot") and its teardown               *)
(* (StopAll, Shutdown of the API, WaitAll).  Each start of a Process has a  *)
(* goroutine that runs the Temporal worker loop of pkg/workermanager.       *)
(*                                                                          *)
(* A critical section of Process.mu or ProcessStore.mu is one step.  Stop   *)
(* calls the cancel function after the unlock; it is that start's own       *)
(* function, so the call is merged with the critical section.               *)
(***************************************************************************)
EXTENDS Naturals, FiniteSets, Functions

CONSTANTS
    Namespace, \* namespaces of Credimi organizations
    Request,   \* concurrent requests of the execution API
    MaxProcs,  \* bound: Process objects ever made
    MaxStarts, \* bound: starts of one Process
    MaxTeardowns \* bound: attempts at tearing the generation down

ASSUME WorkerAssumption ==
    /\ "boot" \notin Request
    /\ MaxProcs \in Nat /\ MaxStarts \in Nat \ {0} /\ MaxTeardowns \in Nat

VARIABLES
    \* ProcessStore.processes (0: no entry) and the Processes made so far
    store, made,
    \* Process: Running and generation
    running, generation,
    \* per start of a Process: its goroutine, whether its context is
    \* cancelled, and what was sent on its ready channel
    run, cancelled, ready,
    \* threads that start workers: next step, namespace, Process, and start awaited
    pc, ns, proc, awaited,
    \* namespaces StartExistingWorkers has still to look at
    toStart,
    \* teardown: its step, Processes it has yet to stop or (with the start it
    \* saw) to wait for, whether something failed, and how often it ran; the
    \* API accepts requests
    teardown, toStop, waitFor, failed, attempts, accepting

storeVars == <<store, made>>
procVars == <<running, generation, run, cancelled, ready>>
threadVars == <<pc, ns, proc, awaited, toStart>>
teardownVars == <<teardown, toStop, waitFor, failed, attempts, accepting>>
vars == <<storeVars, procVars, threadVars, teardownVars>>

Proc == 1 .. MaxProcs
Start1 == 1 .. MaxStarts
Thread == Request \cup {"boot"}

Init ==
    /\ store = [n \in Namespace |-> 0] /\ made = 0
    /\ running = [p \in Proc |-> FALSE] /\ generation = [p \in Proc |-> 0]
    /\ run = [p \in Proc |-> [s \in Start1 |-> "none"]]
    /\ cancelled = [p \in Proc |-> [s \in Start1 |-> FALSE]]
    /\ ready = [p \in Proc |-> [s \in Start1 |-> "none"]]
    /\ pc = [t \in Thread |-> "idle"] /\ ns = [t \in Thread |-> "none"]
    /\ proc = [t \in Thread |-> 0] /\ awaited = [t \in Thread |-> 0]
    /\ toStart \in SUBSET Namespace
    /\ teardown = "no" /\ toStop = {} /\ waitFor = {} /\ failed = FALSE
    /\ attempts = 0 /\ accepting = TRUE

Live(p, s) == run[p][s] \in {"init", "serving", "returning"}

-----------------------------------------------------------------------------
(* Process                                                                 *)

\* Process.Stop: only a running Process is cancelled.
Stop(p) ==
    IF p # 0 /\ running[p]
    THEN /\ running' = [running EXCEPT ![p] = FALSE]
         /\ cancelled' = [cancelled EXCEPT ![p][generation[p]] = TRUE]
    ELSE UNCHANGED <<running, cancelled>>

\* Mutant of Stopped: a Process that was told to stop counts as stopped.
StoppedIfNotRunning(p) == ~running[p]

\* p.done is nil or closed.
Stopped(p) == generation[p] # 0 => run[p][generation[p]] = "ended"

Finished(t) ==
    /\ pc' = [pc EXCEPT ![t] = "idle"]
    /\ ns' = [ns EXCEPT ![t] = "none"]
    /\ proc' = [proc EXCEPT ![t] = 0] /\ awaited' = [awaited EXCEPT ![t] = 0]

\* An error of a worker ends StartExistingWorkers; success takes it to the
\* next namespace.
Returns(t, ok) ==
    /\ Finished(t)
    /\ toStart' = IF t = "boot" THEN IF ok THEN toStart \ {ns[t]} ELSE {} ELSE toStart

\* The critical section of Process.Start: nothing to do for a running
\* Process, an error while the previous goroutine is still ending.
Start(t) ==
    LET p == proc[t]
        s == generation[p] + 1
    IN /\ pc[t] = "start"
       /\ \/ /\ running[p] /\ Returns(t, TRUE)
             /\ UNCHANGED procVars
          \/ /\ ~running[p] /\ ~Stopped(p) /\ Returns(t, FALSE)
             /\ UNCHANGED procVars
          \/ /\ ~running[p] /\ Stopped(p) /\ s <= MaxStarts
             /\ running' = [running EXCEPT ![p] = TRUE]
             /\ generation' = [generation EXCEPT ![p] = s]
             /\ run' = [run EXCEPT ![p][s] = "init"]
             /\ pc' = [pc EXCEPT ![t] = "await"]
             /\ awaited' = [awaited EXCEPT ![t] = s]
             /\ UNCHANGED <<cancelled, ready, proc, ns, toStart>>
    /\ UNCHANGED <<storeVars, teardownVars>>

\* Start takes the readiness result; on an error it calls p.Stop(), which
\* stops whatever the Process runs by then.
StartReturns(t) ==
    LET p == proc[t]
        result == ready[p][awaited[t]]
    IN /\ pc[t] = "await" /\ result # "none"
       /\ IF result = "error" THEN Stop(p) ELSE UNCHANGED <<running, cancelled>>
       /\ Returns(t, result = "ok")
       /\ UNCHANGED <<storeVars, generation, run, ready, teardownVars>>

\* The context of StartExistingWorkers ends first (requests pass Background).
StartTimesOut ==
    /\ pc["boot"] = "await"
    /\ Stop(proc["boot"])
    /\ Returns("boot", FALSE)
    /\ UNCHANGED <<storeVars, generation, run, ready, teardownVars>>

\* signalReady is a sync.Once around a channel with one slot.
signalReady(p, s, result) ==
    ready' = IF ready[p][s] = "none" THEN [ready EXCEPT ![p][s] = result] ELSE ready

WorkerFrame == <<storeVars, generation, cancelled, threadVars, teardownVars>>

\* runTemporalWorker: the Temporal worker started and the loop serves.
WorkerServes(p, s) ==
    /\ run[p][s] = "init"
    /\ run' = [run EXCEPT ![p][s] = "serving"]
    /\ signalReady(p, s, "ok")
    /\ UNCHANGED <<WorkerFrame, running>>

\* A fatal error that is retried (a failed attempt to start is retried without
\* leaving the initial state).
WorkerRetries(p, s) ==
    /\ run[p][s] = "serving" /\ ~cancelled[p][s]
    /\ run' = [run EXCEPT ![p][s] = "init"]
    /\ UNCHANGED <<WorkerFrame, running, ready>>

\* An error that is not retried.
WorkerFails(p, s) ==
    /\ run[p][s] \in {"init", "serving"}
    /\ run' = [run EXCEPT ![p][s] = "returning"]
    /\ signalReady(p, s, "error")
    /\ UNCHANGED <<WorkerFrame, running>>

\* Mutant of WorkerSeesCancel: the retry loop misses a cancellation.
WorkerMissesCancel(p, s) ==
    /\ run[p][s] = "serving" /\ cancelled[p][s]
    /\ run' = [run EXCEPT ![p][s] = "returning"]
    /\ signalReady(p, s, "error")
    /\ UNCHANGED <<WorkerFrame, running>>

\* The loop notices the cancelled context, before or while it serves.
WorkerSeesCancel(p, s) ==
    /\ run[p][s] \in {"init", "serving"} /\ cancelled[p][s]
    /\ run' = [run EXCEPT ![p][s] = "returning"]
    /\ signalReady(p, s, "error")
    /\ UNCHANGED <<WorkerFrame, running>>

\* Mutant of RunEnds: an ended goroutine leaves Running as it is.
RunEndsUnmarked(p, s) ==
    /\ run[p][s] = "returning"
    /\ run' = [run EXCEPT ![p][s] = "ended"]
    /\ UNCHANGED <<WorkerFrame, running, ready>>

\* The deferred function of the goroutine.
RunEnds(p, s) ==
    /\ run[p][s] = "returning"
    /\ run' = [run EXCEPT ![p][s] = "ended"]
    /\ running' = IF generation[p] = s THEN [running EXCEPT ![p] = FALSE] ELSE running
    /\ UNCHANGED <<WorkerFrame, ready>>

-----------------------------------------------------------------------------
(* processStart and startWorkerIfNeeded                                    *)

\* A request for namespace n; the worker of oldNamespace (if any) is stopped.
processStart(t, n, old) ==
    /\ t # "boot" /\ accepting /\ pc[t] = "idle"
    /\ pc' = [pc EXCEPT ![t] = "get"] /\ ns' = [ns EXCEPT ![t] = n]
    /\ IF old \in Namespace THEN Stop(store[old]) ELSE UNCHANGED <<running, cancelled>>
    /\ UNCHANGED <<storeVars, generation, run, ready, proc, awaited, toStart,
                   teardownVars>>

\* StartExistingWorkers goes to its next namespace.
startWorkerIfNeeded(n) ==
    /\ pc["boot"] = "idle" /\ n \in toStart /\ teardown = "no"
    /\ pc' = [pc EXCEPT !["boot"] = "get"] /\ ns' = [ns EXCEPT !["boot"] = n]
    /\ UNCHANGED <<storeVars, procVars, proc, awaited, toStart, teardownVars>>

\* Store.Get
Get(t) ==
    /\ pc[t] = "get"
    /\ proc' = [proc EXCEPT ![t] = store[ns[t]]]
    /\ pc' = [pc EXCEPT ![t] = IF store[ns[t]] = 0 THEN "add" ELSE "start"]
    /\ UNCHANGED <<storeVars, procVars, ns, awaited, toStart, teardownVars>>

\* NewProcess and Store.Add, which replaces whatever is stored by then.
Add(t) ==
    /\ pc[t] = "add" /\ made < MaxProcs
    /\ made' = made + 1
    /\ store' = [store EXCEPT ![ns[t]] = made']
    /\ proc' = [proc EXCEPT ![t] = made']
    /\ pc' = [pc EXCEPT ![t] = "start"]
    /\ UNCHANGED <<procVars, ns, awaited, toStart, teardownVars>>

-----------------------------------------------------------------------------
(* Teardown of the generation, as teardownGeneration calls it               *)

Stored == Range(store) \ {0}

\* StopAll: a snapshot of the store, then each Process in turn.
StopAll ==
    /\ teardown \in {"no", "dirty"} /\ attempts < MaxTeardowns
    /\ pc["boot"] = "idle" /\ toStart = {}
    /\ teardown' = "stopping" /\ toStop' = Stored /\ failed' = FALSE
    /\ attempts' = attempts + 1
    /\ UNCHANGED <<storeVars, procVars, threadVars, waitFor, accepting>>

StopOne(p) ==
    /\ teardown = "stopping" /\ p \in toStop
    /\ Stop(p) /\ toStop' = toStop \ {p}
    /\ UNCHANGED <<storeVars, generation, run, ready, threadVars, teardown, waitFor,
                   failed, attempts, accepting>>

\* HTTPAPI.Shutdown closes the listener and waits for the requests in flight,
Shutdown ==
    /\ teardown = "stopping" /\ toStop = {}
    /\ teardown' = "draining" /\ accepting' = FALSE
    /\ UNCHANGED <<storeVars, procVars, threadVars, toStop, waitFor, failed, attempts>>

\* Mutant of Drained: Shutdown does not wait for requests in flight.
NotDrained == TRUE

Drained == \A t \in Request : pc[t] = "idle"

\* The done channels WaitAll waits for; a Process that never started has none.
WaitTargets == {<<p, generation[p]>> : p \in {q \in Stored : generation[q] # 0}}

\* ... or gives up at its deadline.  WaitAll then takes a second snapshot and
\* the start each Process is in.
WaitAll ==
    /\ teardown = "draining"
    /\ failed' \in {TRUE} \cup (IF Drained THEN {FALSE} ELSE {})
    /\ teardown' = "waiting"
    /\ waitFor' = WaitTargets
    /\ UNCHANGED <<storeVars, procVars, threadVars, toStop, attempts, accepting>>

\* WaitAll returns: every awaited goroutine has ended, or its context has.
WaitAllReturns ==
    LET ended == \A w \in waitFor : run[w[1]][w[2]] = "ended" IN
    /\ teardown = "waiting"
    /\ \/ ended /\ teardown' = IF failed THEN "dirty" ELSE "clean"
       \/ ~ended /\ teardown' = "dirty"
    /\ waitFor' = {}
    /\ UNCHANGED <<storeVars, procVars, threadVars, toStop, failed, attempts, accepting>>

ThreadStep(t) == Get(t) \/ Add(t) \/ Start(t) \/ StartReturns(t)

RunStep(p, s) == WorkerSeesCancel(p, s) \/ RunEnds(p, s)

Next ==
    \/ \E t \in Request, n \in Namespace, old \in Namespace \cup {"none"} :
          processStart(t, n, old)
    \/ \E n \in Namespace : startWorkerIfNeeded(n)
    \/ \E t \in Thread : ThreadStep(t)
    \/ StartTimesOut
    \/ \E p \in Proc, s \in Start1 :
          \/ WorkerServes(p, s) \/ WorkerRetries(p, s) \/ WorkerFails(p, s)
          \/ RunStep(p, s)
    \/ StopAll \/ \E p \in Proc : StopOne(p)
    \/ Shutdown \/ WaitAll \/ WaitAllReturns

Spec == Init /\ [][Next]_vars

\* Goroutines run, and the worker loop looks at its context in every round.
\* Nothing makes a worker become ready: the loop may retry for ever.
FairSpec ==
    /\ Spec
    /\ \A t \in Thread : WF_vars(ThreadStep(t))
    /\ \A p \in Proc, s \in Start1 : WF_vars(RunStep(p, s))

-----------------------------------------------------------------------------
(* Properties                                                              *)

\* The store, the Processes, the threads and the teardown are well typed.
TypeOK ==
    /\ store \in [Namespace -> 0 .. MaxProcs] /\ made \in 0 .. MaxProcs
    /\ running \in [Proc -> BOOLEAN] /\ generation \in [Proc -> 0 .. MaxStarts]
    /\ run \in [Proc -> [Start1 -> {"none", "init", "serving", "returning", "ended"}]]
    /\ cancelled \in [Proc -> [Start1 -> BOOLEAN]]
    /\ ready \in [Proc -> [Start1 -> {"none", "ok", "error"}]]
    /\ pc \in [Thread -> {"idle", "get", "add", "start", "await"}]
    /\ ns \in [Thread -> Namespace \cup {"none"}]
    /\ proc \in [Thread -> 0 .. MaxProcs] /\ awaited \in [Thread -> 0 .. MaxStarts]
    /\ toStart \subseteq Namespace
    /\ teardown \in {"no", "stopping", "draining", "waiting", "dirty", "clean"}
    /\ toStop \subseteq Proc /\ waitFor \subseteq Proc \X Start1
    /\ failed \in BOOLEAN /\ attempts \in 0 .. MaxTeardowns /\ accepting \in BOOLEAN

\* A Process never has two worker goroutines: a start after a stop has to
\* wait for the previous goroutine ("worker is still stopping").
OneRunPerProcess ==
    \A p \in Proc : \A a, b \in Start1 : Live(p, a) /\ Live(p, b) => a = b

\* IsRunning tells the truth and a live worker can always be stopped: a
\* running Process has a live goroutine that was not cancelled, and a live
\* goroutine that was not cancelled belongs to a Process that Stop acts on.
RunningIsTruthful ==
    \A p \in Proc :
        running[p] <=> \E s \in Start1 : s = generation[p] /\ Live(p, s) /\ ~cancelled[p][s]

\* After a teardown without errors no Process of the store has a live worker,
\* also when requests started workers while it ran.
CleanEndsStored ==
    teardown = "clean" => \A p \in Stored, s \in Start1 : ~Live(p, s)

\* A worker that was cancelled ends, and the thread that waits for it to be
\* ready returns, even if Temporal never answers.
CancelledEnds ==
    \A p \in Proc, s \in Start1 :
        /\ cancelled[p][s] ~> run[p][s] = "ended"
        /\ \A t \in Thread :
              (pc[t] = "await" /\ proc[t] = p /\ awaited[t] = s /\ cancelled[p][s])
                  ~> pc[t] # "await"

\* Process.Start: "The old goroutine must not mark that replacement as stopped."
\* A Start that returns late leaves the worker of a newer start alone.
LateStartKeepsReplacement ==
    [][\A t \in Thread :
          (pc[t] = "await" /\ pc'[t] = "idle" /\ awaited[t] < generation[proc[t]])
              => running'[proc[t]] = running[proc[t]]]_vars

\* README: "Runtime stop ... closing the runner API, workers"; StopAllAndWait:
\* "a deterministic completion boundary".  After a teardown without errors no
\* worker is live at all.
CleanEndsAll ==
    teardown = "clean" => \A p \in Proc, s \in Start1 : ~Live(p, s)
=============================================================================
