-------------------------- MODULE RuntimeSupervisor --------------------------
(***************************************************************************)
(* internal/runtimesupervisor: the Supervisor owns at most one runtime      *)
(* generation (execution API, edge, workers, heartbeat, telemetry) and the  *)
(* persisted desired/actual state.                                          *)
(*                                                                          *)
(* Threads.  Start, Stop, Restart, Reconcile and RequestStart are called    *)
(* from operations of the controller, which runs one operation at a time;   *)
(* Close is called by the application once its context is cancelled; every  *)
(* activated generation has a monitor goroutine that calls                  *)
(* handleGenerationFailure.  All of them except RequestStart hold           *)
(* transitionMu, so one program counter (pc) describes whoever holds it and *)
(* pc = "idle" means that the mutex is free.  RequestStart and the          *)
(* component watchers run between any two steps of the holder.              *)
(***************************************************************************)
EXTENDS Naturals, FiniteSets

CONSTANTS
    Observability,  \* Dependencies.InitObservability is set
    MaxGenerations, \* bound: generations one process may construct
    MaxBoots        \* bound: times the process is started

ASSUME BoundsAssumption ==
    /\ MaxGenerations \in Nat \ {0}
    /\ MaxBoots \in Nat \ {0}
    /\ Observability \in BOOLEAN

VARIABLES
    \* the desired state in runtime-state.json (the actual state stored there
    \* is never used again), and whether config.toml exists
    disk, configured,
    \* the process: application life cycle and number of starts
    app, boots,
    \* Supervisor.state and Supervisor.generation (0 is nil)
    mem, gen,
    \* generations constructed by this process; those setGeneration has stored
    created, installed,
    \* the transitionMu holder
    pc,     \* next step of the holder, "idle" when the mutex is free
    kind,   \* the operation the holder runs
    reason, \* the reason passed to teardownGeneration
    target, \* the generation being activated or torn down
    want,   \* Reconcile's and Close's local copy of the desired state
    prev,   \* previousState of Start and Restart
    saving, \* the value updateState is about to save
    cont,   \* where the holder continues when that save succeeds or fails
    remoteErr, localErr, \* results of teardownGeneration
    failed,  \* Stop is going to return an error
    \* RequestStart: the value it is about to save
    reqSaving,
    \* per generation
    open,      \* resources whose ...Closed flag is false
    up,        \* components that were started and not yet stopped
    workers,   \* the worker store: none, running (not cancelled), cancelled
    registered, executing, url,
    dead, fatal, \* a component has failed; the fatal channel holds an error
    monitor,   \* the monitorGeneration goroutine
    \* the runner record kept by Credimi
    remote,
    \* history: the last Stop returned nil and nothing asked for a start since
    stopAck

stateVars == <<disk, mem, reqSaving>>
ownVars == <<gen, created, installed>>
procVars == <<app, boots, configured>>
localVars == <<kind, want, prev, saving, cont, failed>>
holderVars == <<pc, reason, target, remoteErr, localErr, localVars>>
watchVars == <<dead, fatal, monitor>>
genVars == <<open, up, workers, registered, executing, url, watchVars>>
vars == <<stateVars, ownVars, procVars, holderVars, genVars, remote, stopAck>>
\* what no step of teardownGeneration changes
tearFrame == <<stateVars, ownVars, procVars, localVars, reason, target,
               registered, watchVars, stopAck>>

-----------------------------------------------------------------------------
Gens == 1 .. MaxGenerations
Desired == {"running", "stopped"}
Actual == {"starting", "running", "stopping", "stopped", "failed"}
\* PersistentState.  LastError and UpdatedAt are only displayed and are left out.
State == [desired : Desired, actual : Actual]
NoState == [none |-> TRUE]
Resource == {"otel", "api", "edge", "workers", "ctx"}
Component == {"api", "edge", "heartbeat"}
OpKind == {"start", "stop", "restart", "reconcile"}
Kind == OpKind \cup {"close", "failure"}
Reason == {"none", "start_cleanup", "generation_create_failed", "start_failed",
           "component_failed", "runtime_stop", "runtime_restart",
           "config_reconcile", "service_shutdown"}
ActStep == {"api", "edge", "capabilities", "verify", "register", "workers",
            "resume", "heartbeat", "loop"}
TearStep == {"pause", "stopWorkers", "stopAPI", "stopEdge", "waitWorkers", "release",
             "tornDown"}
Pc == {"idle", "save", "started", "restore", "restartFailed", "load", "create",
       "activated", "rollback", "armMonitor", "stopGen", "restartGen",
       "reconcileGen", "closeGen", "reconcileFailed", "done"} \cup ActStep \cup TearStep

St(d, a) == [desired |-> d, actual |-> a]

\* Mutant of Load: no default for a configured runner without a state file.
LoadWithoutDefault == St(disk, "stopped")

\* StateStore.Load followed by New, which always resets the actual state.
Load ==
    IF configured THEN St(IF disk = "none" THEN "running" ELSE disk, "stopped")
                  ELSE St("stopped", "stopped")

IdleHolder ==
    /\ pc' = "idle" /\ kind' = "stop" /\ reason' = "none" /\ target' = 0
    /\ want' = "stopped" /\ prev' = NoState /\ saving' = "none"
    /\ cont' = <<"idle", "idle">>
    /\ remoteErr' = FALSE /\ localErr' = FALSE /\ failed' = FALSE

FreshGenerations ==
    /\ open' = [g \in Gens |-> {}]        /\ up' = [g \in Gens |-> {}]
    /\ workers' = [g \in Gens |-> "none"] /\ registered' = [g \in Gens |-> FALSE]
    /\ executing' = [g \in Gens |-> FALSE] /\ url' = [g \in Gens |-> FALSE]
    /\ dead' = [g \in Gens |-> FALSE]
    /\ fatal' = [g \in Gens |-> FALSE]    /\ monitor' = [g \in Gens |-> "off"]

Init ==
    /\ disk = "none" /\ configured \in BOOLEAN
    /\ app = "down" /\ boots = 0
    /\ mem = St("stopped", "stopped") /\ gen = 0
    /\ created = 0 /\ installed = {}
    /\ pc = "idle" /\ kind = "stop" /\ reason = "none" /\ target = 0
    /\ want = "stopped" /\ prev = NoState /\ saving = "none"
    /\ cont = <<"idle", "idle">>
    /\ remoteErr = FALSE /\ localErr = FALSE /\ failed = FALSE
    /\ reqSaving = "none"
    /\ open = [g \in Gens |-> {}] /\ up = [g \in Gens |-> {}]
    /\ workers = [g \in Gens |-> "none"] /\ registered = [g \in Gens |-> FALSE]
    /\ executing = [g \in Gens |-> FALSE] /\ url = [g \in Gens |-> FALSE]
    /\ dead = [g \in Gens |-> FALSE]
    /\ fatal = [g \in Gens |-> FALSE] /\ monitor = [g \in Gens |-> "off"]
    /\ remote = "paused" /\ stopAck = "no"

-----------------------------------------------------------------------------
(* Saving the state: updateState assigns memory under mu, releases mu and   *)
(* only then writes the file.                                              *)

updateState(st, ok, bad) ==
    /\ mem' = st /\ saving' = st.desired
    /\ pc' = "save" /\ cont' = <<ok, bad>>

\* The write of the holder's last updateState succeeds, or fails.
Save(ok) ==
    /\ pc = "save"
    /\ disk' = IF ok THEN saving ELSE disk
    /\ failed' = (failed \/ (kind = "stop" /\ ~ok))
    /\ saving' = "none" /\ cont' = <<"idle", "idle">>
    /\ pc' = IF ok THEN cont[1] ELSE cont[2]
    /\ prev' = IF pc' = "restore" THEN prev ELSE NoState
    /\ UNCHANGED <<mem, reqSaving, ownVars, procVars, kind, reason, target, want,
                   remoteErr, localErr, genVars, remote, stopAck>>

\* The holder returns (Stop: nil unless failed) and releases transitionMu.
Return ==
    /\ pc = "done"
    /\ IdleHolder
    /\ stopAck' = IF kind = "stop" /\ ~failed
                  THEN IF target # 0 /\ registered[target] THEN "torn" ELSE "acked"
                  ELSE stopAck
    /\ app' = IF kind = "close" THEN "closed" ELSE app
    /\ UNCHANGED <<stateVars, ownVars, boots, configured, genVars, remote>>

\* fail(desired, err)
fail(d) == updateState(St(d, "failed"), "done", "done")

\* RequestStart runs without transitionMu, on the operation's goroutine.
OpFree == reqSaving = "none" /\ (pc = "idle" \/ kind \notin OpKind)

RequestStart ==
    /\ app # "down" /\ OpFree
    /\ mem' = St("running", IF mem.actual = "failed" THEN "stopped" ELSE mem.actual)
    /\ reqSaving' = "running"
    /\ stopAck' = "no"
    /\ UNCHANGED <<disk, gen, created, installed, procVars, holderVars, genVars,
                   remote>>

RequestSave(ok) ==
    /\ reqSaving # "none"
    /\ disk' = IF ok THEN reqSaving ELSE disk
    /\ reqSaving' = "none"
    /\ UNCHANGED <<mem, gen, created, installed, procVars, holderVars, genVars,
                   remote, stopAck>>

-----------------------------------------------------------------------------
(* teardownGeneration(ctx, g, reason, pause)                               *)

\* What a caller does to enter teardownGeneration.
BeginTeardown(g, why) ==
    /\ pc' = "pause" /\ target' = g /\ reason' = why
    /\ remoteErr' = FALSE /\ localErr' = FALSE

Pauses == \/ reason \notin {"start_cleanup", "generation_create_failed", "config_reconcile"}
          \/ reason = "config_reconcile" /\ want = "running"

\* Mutant of StopWorkers: the workers are not marked as open again.
StopWorkersOnly(g) ==
    /\ workers' = [workers EXCEPT ![g] = IF @ = "running" THEN "cancelled" ELSE @]
    /\ open' = open

\* workers.StopAll() and setWorkersClosed(false)
StopWorkers(g) ==
    /\ workers' = [workers EXCEPT ![g] = IF @ = "running" THEN "cancelled" ELSE @]
    /\ open' = [open EXCEPT ![g] = @ \cup {"workers"}]

\* Mutant of Pause: an error of the pause request is not reported.
PauseUnreported ==
    /\ remote' \in {remote, "paused"}
    /\ remoteErr' = FALSE

\* lifecycle.Pause; a request that fails may have been applied all the same.
Pause ==
    \/ remote' = "paused" /\ remoteErr' = FALSE
    \/ remote' \in {remote, "paused"} /\ remoteErr' = TRUE

\* g.stopHeartbeat(), then the best-effort remote pause of a registered runner.
TearPause ==
    /\ pc = "pause"
    /\ up' = [up EXCEPT ![target] = @ \ {"heartbeat"}]
    /\ IF Pauses /\ registered[target] THEN Pause ELSE UNCHANGED <<remote, remoteErr>>
    /\ pc' = "stopWorkers"
    /\ UNCHANGED <<tearFrame, localErr, open, workers, executing, url>>

TearStopWorkers ==
    /\ pc = "stopWorkers"
    /\ StopWorkers(target)
    /\ pc' = "stopAPI"
    /\ UNCHANGED <<tearFrame, remoteErr, localErr, up, executing, url, remote>>

\* api.Shutdown, unless the API is already closed; a failure is kept and the
\* remaining resources are closed all the same.
TearStopAPI ==
    /\ pc = "stopAPI"
    /\ \/ /\ open' = [open EXCEPT ![target] = @ \ {"api"}]
          /\ up' = [up EXCEPT ![target] = @ \ {"api"}]
          /\ UNCHANGED localErr
       \/ /\ "api" \in open[target]
          /\ localErr' = TRUE
          /\ UNCHANGED <<open, up>>
    /\ pc' = "stopEdge"
    /\ UNCHANGED <<tearFrame, remoteErr, workers, executing, url, remote>>

\* edge.Stop, then the public URL is withdrawn, then edge.Close.
TearStopEdge ==
    /\ pc = "stopEdge"
    /\ \/ /\ open' = [open EXCEPT ![target] = @ \ {"edge"}]
          /\ up' = [up EXCEPT ![target] = @ \ {"edge"}]
          /\ url' = IF "edge" \in open[target] THEN [url EXCEPT ![target] = FALSE] ELSE url
          /\ UNCHANGED localErr
       \/ /\ "edge" \in open[target] \* Stop succeeds, Close fails
          /\ up' = [up EXCEPT ![target] = @ \ {"edge"}]
          /\ url' = [url EXCEPT ![target] = FALSE]
          /\ localErr' = TRUE
          /\ UNCHANGED open
       \/ /\ "edge" \in open[target] \* Stop fails
          /\ localErr' = TRUE
          /\ UNCHANGED <<open, up, url>>
    /\ pc' = "waitWorkers"
    /\ UNCHANGED <<tearFrame, remoteErr, workers, executing, remote>>

\* Mutant of WaitAll: it does not give up when its context expires.
WaitAllForever(g) ==
    /\ "workers" \in open[g] => workers[g] # "running"
    /\ open' = [open EXCEPT ![g] = @ \ {"workers"}]
    /\ workers' = IF "workers" \in open[g] THEN [workers EXCEPT ![g] = "none"] ELSE workers
    /\ UNCHANGED localErr

\* workers.WaitAll: it returns once every worker of the store has ended, or
\* with an error when the context expires first.
WaitAll(g) ==
    \/ /\ "workers" \in open[g] => workers[g] # "running"
       /\ open' = [open EXCEPT ![g] = @ \ {"workers"}]
       /\ workers' = IF "workers" \in open[g] THEN [workers EXCEPT ![g] = "none"] ELSE workers
       /\ UNCHANGED localErr
    \/ /\ "workers" \in open[g] /\ workers[g] # "none"
       /\ localErr' = TRUE
       /\ UNCHANGED <<open, workers>>

TearWaitWorkers ==
    /\ pc = "waitWorkers"
    /\ WaitAll(target)
    /\ pc' = "release"
    /\ UNCHANGED <<tearFrame, remoteErr, up, executing, url, remote>>

\* Observability shutdown, cancellation of the generation context and
\* setExecuting(false).
TearRelease ==
    /\ pc = "release"
    /\ \/ /\ open' = [open EXCEPT ![target] = @ \ {"otel", "ctx"}]
          /\ UNCHANGED localErr
       \/ /\ "otel" \in open[target]
          /\ open' = [open EXCEPT ![target] = @ \ {"ctx"}]
          /\ localErr' = TRUE
    /\ executing' = [executing EXCEPT ![target] = FALSE]
    /\ pc' = "tornDown"
    /\ UNCHANGED <<tearFrame, remoteErr, up, workers, url, remote>>

\* localErr == nil && g.localResourcesClosed()
Clean == ~localErr /\ open[target] = {}

\* Callers drop a generation (setGeneration(nil)) only when it is clean.
Drop == gen' = IF Clean THEN 0 ELSE gen

-----------------------------------------------------------------------------
(* Start, startLocked, newGeneration, activate                             *)

CanBegin == app # "down" /\ pc = "idle"
CanBeginOp == CanBegin /\ reqSaving = "none"

startLocked(from) ==
    /\ prev' = from
    /\ updateState(St("running", "starting"), "started",
                   IF kind' = "restart" THEN "restartFailed" ELSE "restore")

Start ==
    /\ CanBeginOp /\ created < MaxGenerations
    /\ kind' = "start" /\ stopAck' = "no"
    /\ startLocked(mem)
    /\ UNCHANGED <<disk, reqSaving, ownVars, procVars, reason, target, want,
                   remoteErr, localErr, failed, genVars, remote>>

\* Mutant of Restore: memory keeps the state that could not be saved.
RestoreNothing ==
    /\ pc = "restore"
    /\ mem' = mem /\ pc' = "done"
    /\ UNCHANGED <<disk, reqSaving, ownVars, procVars, reason, target, localVars,
                   remoteErr, localErr, genVars, remote, stopAck>>

\* The first save of Start or Restart failed: restoreState(previousState).
Restore ==
    /\ pc = "restore"
    /\ mem' = prev /\ pc' = "done"
    /\ UNCHANGED <<disk, reqSaving, ownVars, procVars, reason, target, localVars,
                   remoteErr, localErr, genVars, remote, stopAck>>

\* The first save of Restart's startLocked failed.
RestartFailed ==
    /\ pc = "restartFailed"
    /\ fail("running")
    /\ UNCHANGED <<disk, reqSaving, ownVars, procVars, reason, target, kind, want,
                   prev, failed, remoteErr, localErr, genVars, remote, stopAck>>

\* startLocked after the first save: keep a generation that is executing,
\* tear down one that is not, or go on with none.
Started ==
    /\ pc = "started"
    /\ \/ /\ gen # 0 /\ executing[gen]
          /\ updateState([mem EXCEPT !.actual = "running"], "done", "done")
          /\ UNCHANGED <<reason, target, remoteErr, localErr>>
       \/ /\ gen # 0 /\ ~executing[gen]
          /\ BeginTeardown(gen, "start_cleanup")
          /\ UNCHANGED <<mem, saving, cont>>
       \/ /\ gen = 0 /\ pc' = "load"
          /\ UNCHANGED <<mem, saving, cont, reason, target, remoteErr, localErr>>
    /\ UNCHANGED <<disk, reqSaving, ownVars, procVars, kind, want, prev, failed,
                   genVars, remote, stopAck>>

\* loadConfig and ValidateForPlatform
LoadConfig ==
    /\ pc = "load"
    /\ \/ /\ configured /\ pc' = "create"
          /\ UNCHANGED <<mem, saving, cont>>
       \/ fail("running")
    /\ UNCHANGED <<disk, reqSaving, ownVars, procVars, reason, target, kind, want,
                   prev, failed, remoteErr, localErr, genVars, remote, stopAck>>

Telemetry == IF Observability THEN {"otel"} ELSE {}
APIPortFree == \A g \in Gens : "api" \notin open[g]

\* newGeneration: telemetry, then the API (which binds its listener), then the
\* edge.  A constructor that fails leaves the resources acquired before it to
\* a teardown of a generation that is never stored.
newGeneration ==
    /\ pc = "create"
    /\ created' = created + 1 /\ target' = created'
    /\ \/ /\ APIPortFree
          /\ open' = [open EXCEPT ![created'] = Telemetry \cup {"ctx", "api", "edge"}]
          /\ gen' = created' /\ installed' = installed \cup {created'}
          /\ pc' = "api"
          /\ UNCHANGED <<reason, remoteErr, localErr>>
       \/ /\ \E acquired \in {{"ctx"}, Telemetry \cup {"ctx"},
                              Telemetry \cup {"ctx", "api"}} :
                /\ "api" \in acquired => APIPortFree
                /\ open' = [open EXCEPT ![created'] = acquired]
          /\ BeginTeardown(created', "generation_create_failed")
          /\ UNCHANGED <<gen, installed>>
    /\ UNCHANGED <<stateVars, procVars, localVars, up, workers, registered,
                   executing, url, watchVars, remote, stopAck>>

NextStep == [api |-> "edge", edge |-> "capabilities", capabilities |-> "verify",
             verify |-> "register", register |-> "workers", workers |-> "resume",
             resume |-> "heartbeat", heartbeat |-> "loop", loop |-> "activated"]

\* Steps of activate that are followed by a fatalError check.
ChecksFatal == {"api", "edge", "verify", "register", "workers", "heartbeat", "loop"}
\* Mutant of NeedsContext: registration ignores a cancelled context.
NeedsNoContext == {}

\* registerWithRetry looks at the operation's context before every attempt.
NeedsContext == {"register"}

\* The component a step of activate starts.
Brings(step) ==
    IF step \in {"api", "edge"} THEN {step}
    ELSE IF step = "loop" THEN {"heartbeat"} ELSE {}

\* The effect of a step of activate on the generation and on Credimi.  A step
\* that fails may have had its effect, or part of it, before it failed: the
\* runner record may exist although a device was refused, a worker may run
\* although another one did not start, a request may be applied although its
\* answer is lost.
StepEffect(g, step, ok) ==
    LET Maybe(x, y) == IF ok THEN {y} ELSE {x, y}
        started == [up EXCEPT ![g] = @ \cup Brings(step)]
    IN
    /\ up' \in IF step = "edge" THEN Maybe(up, started)
              ELSE {IF ok THEN started ELSE up}
    /\ registered' \in IF step = "register"
                       THEN Maybe(registered, [registered EXCEPT ![g] = TRUE])
                       ELSE {registered}
    /\ open' = IF step = "workers" THEN [open EXCEPT ![g] = @ \cup {"workers"}] ELSE open
    /\ workers' \in IF step = "workers"
                    THEN Maybe(workers, [workers EXCEPT ![g] = "running"])
                    ELSE {workers}
    /\ remote' \in IF step = "resume" THEN Maybe(remote, "resumed") ELSE {remote}

activate(step) ==
    LET g == target IN
    /\ pc = step /\ step \in ActStep
    /\ \E ok \in BOOLEAN :
          /\ (ok /\ step \in NeedsContext) => app = "up"
          /\ ~ok => step # "loop"
          /\ StepEffect(g, step, ok)
          /\ LET fails == ~ok \/ (step \in ChecksFatal /\ fatal[g]) IN
             /\ pc' = IF fails THEN "rollback" ELSE NextStep[step]
             /\ fatal' = [fatal EXCEPT ![g] = @ /\ ~(ok /\ step \in ChecksFatal)]
             /\ executing' = [executing EXCEPT ![g] = ~fails /\ step = "loop"]
             /\ url' = [url EXCEPT ![g] = ~fails /\ step = "loop"]
    /\ UNCHANGED <<stateVars, ownVars, procVars, localVars, reason, target,
                   remoteErr, localErr, dead, monitor, stopAck>>

\* Start saves desired and actual running; Reconcile saves only the actual.
Activated ==
    /\ pc = "activated"
    /\ updateState(IF kind = "reconcile" THEN [mem EXCEPT !.actual = "running"]
                   ELSE St("running", "running"), "armMonitor", "rollback")
    /\ UNCHANGED <<disk, reqSaving, ownVars, procVars, reason, target, kind, want,
                   prev, failed, remoteErr, localErr, genVars, remote, stopAck>>

\* Mutant of monitorGeneration: a reconciled generation gets no monitor.
monitorOnlyStarted ==
    /\ pc = "armMonitor"
    /\ monitor' = IF kind = "reconcile" THEN monitor
                  ELSE [monitor EXCEPT ![target] = "watching"]
    /\ pc' = "done"
    /\ UNCHANGED <<stateVars, ownVars, procVars, localVars, reason, target,
                   remoteErr, localErr, open, up, workers, registered, executing,
                   url, dead, fatal, remote, stopAck>>

monitorGeneration ==
    /\ pc = "armMonitor"
    /\ monitor' = [monitor EXCEPT ![target] = "watching"]
    /\ pc' = "done"
    /\ UNCHANGED <<stateVars, ownVars, procVars, localVars, reason, target,
                   remoteErr, localErr, open, up, workers, registered, executing,
                   url, dead, fatal, remote, stopAck>>

rollback ==
    /\ pc = "rollback"
    /\ BeginTeardown(gen, "start_failed")
    /\ UNCHANGED <<stateVars, ownVars, procVars, localVars, genVars, remote, stopAck>>

-----------------------------------------------------------------------------
(* Stop, Restart, Reconcile, Close, handleGenerationFailure                *)

Stop ==
    /\ CanBeginOp
    /\ kind' = "stop"
    /\ updateState(St("stopped", "stopping"), "stopGen", "stopGen")
    /\ UNCHANGED <<disk, reqSaving, ownVars, procVars, reason, target, want, prev,
                   failed, remoteErr, localErr, genVars, remote, stopAck>>

StopGen ==
    /\ pc = "stopGen"
    /\ \/ /\ gen = 0
          /\ updateState([mem EXCEPT !.actual = "stopped"], "done", "done")
          /\ UNCHANGED <<reason, target, remoteErr, localErr>>
       \/ /\ gen # 0
          /\ BeginTeardown(gen, "runtime_stop")
          /\ UNCHANGED <<mem, saving, cont>>
    /\ UNCHANGED <<disk, reqSaving, ownVars, procVars, kind, want, prev, failed,
                   genVars, remote, stopAck>>

Restart ==
    /\ CanBeginOp /\ created < MaxGenerations
    /\ kind' = "restart" /\ stopAck' = "no" /\ prev' = mem
    /\ updateState(St("running", "stopping"), "restartGen", "restore")
    /\ UNCHANGED <<disk, reqSaving, ownVars, procVars, reason, target, want,
                   failed, remoteErr, localErr, genVars, remote>>

RestartGen ==
    /\ pc = "restartGen"
    /\ \/ /\ gen = 0
          /\ kind' = kind /\ startLocked(mem)
          /\ UNCHANGED <<reason, target, remoteErr, localErr>>
       \/ /\ gen # 0
          /\ BeginTeardown(gen, "runtime_restart")
          /\ UNCHANGED <<mem, saving, cont, prev, kind>>
    /\ UNCHANGED <<disk, reqSaving, ownVars, procVars, want, failed,
                   genVars, remote, stopAck>>
\* Reconcile and Close first copy the desired state, then look at the
\* generation; RequestStart may run in between.
Reconcile ==
    /\ CanBeginOp /\ configured /\ created < MaxGenerations
    /\ kind' = "reconcile" /\ want' = mem.desired /\ pc' = "reconcileGen"
    /\ stopAck' = IF want' = "running" THEN "no" ELSE stopAck
    /\ UNCHANGED <<stateVars, ownVars, procVars, reason, target, prev, saving,
                   cont, failed, remoteErr, localErr, genVars, remote>>

\* Without a generation, or once the previous one is gone.
ReconcileFresh ==
    updateState([mem EXCEPT !.actual = "stopped"],
                IF want = "running" THEN "create" ELSE "done",
                IF want = "running" THEN "reconcileFailed" ELSE "done")

ReconcileGen ==
    /\ pc = "reconcileGen"
    /\ \/ /\ gen = 0
          /\ ReconcileFresh
          /\ UNCHANGED <<reason, target, remoteErr, localErr>>
       \/ /\ gen # 0
          /\ BeginTeardown(gen, "config_reconcile")
          /\ UNCHANGED <<mem, saving, cont>>
    /\ UNCHANGED <<disk, reqSaving, ownVars, procVars, kind, want, prev, failed,
                   genVars, remote, stopAck>>

ReconcileFailed ==
    /\ pc = "reconcileFailed"
    /\ fail(want)
    /\ UNCHANGED <<disk, reqSaving, ownVars, procVars, reason, target, kind, want,
                   prev, failed, remoteErr, localErr, genVars, remote, stopAck>>

Close ==
    /\ CanBegin /\ app = "stopping"
    /\ kind' = "close" /\ want' = mem.desired /\ pc' = "closeGen"
    /\ UNCHANGED <<stateVars, ownVars, procVars, reason, target, prev, saving,
                   cont, failed, remoteErr, localErr, genVars, remote, stopAck>>

CloseGen ==
    /\ pc = "closeGen"
    /\ \/ /\ gen = 0
          /\ updateState(St(want, "stopped"), "done", "done")
          /\ UNCHANGED <<reason, target, remoteErr, localErr>>
       \/ /\ gen # 0
          /\ BeginTeardown(gen, "service_shutdown")
          /\ UNCHANGED <<mem, saving, cont>>
    /\ UNCHANGED <<disk, reqSaving, ownVars, procVars, kind, want, prev, failed,
                   genVars, remote, stopAck>>

\* Mutant of IsStale: every notification is acted upon.
NeverStale(g) == FALSE

\* handleGenerationFailure ignores a generation that was replaced or stopped.
IsStale(g) == gen # g \/ ~executing[g]

\* handleGenerationFailure: a notification about a generation that is no
\* longer current, or no longer executing, is dropped.
handleGenerationFailure(g) ==
    /\ CanBegin /\ monitor[g] = "notified"
    /\ monitor' = [monitor EXCEPT ![g] = "done"]
    /\ IF IsStale(g)
       THEN UNCHANGED <<kind, pc, target, reason, remoteErr, localErr>>
       ELSE kind' = "failure" /\ BeginTeardown(g, "component_failed")
    /\ UNCHANGED <<stateVars, ownVars, procVars, want, prev, saving, cont, failed,
                   open, up, workers, registered, executing, url, dead,
                   fatal, remote, stopAck>>

\* What each caller of teardownGeneration does with its result.
TornDown ==
    /\ pc = "tornDown"
    /\ \/ /\ reason = "start_cleanup" /\ Drop
          /\ IF Clean THEN pc' = "load" /\ UNCHANGED <<mem, saving, cont>>
                      ELSE fail("running")
          /\ UNCHANGED prev
       \/ /\ reason = "generation_create_failed"
          /\ fail(IF kind = "reconcile" THEN want ELSE "running")
          /\ UNCHANGED <<gen, prev>>
       \/ /\ reason \in {"start_failed", "component_failed"} /\ Drop
          /\ fail("running")
          /\ UNCHANGED prev
       \/ /\ reason = "runtime_stop" /\ Drop
          /\ updateState(IF Clean THEN St("stopped", "stopped")
                                  ELSE St("stopped", "failed"), "done", "done")
          /\ UNCHANGED prev
       \/ /\ reason = "runtime_restart" /\ Drop
          /\ IF Clean THEN kind' = kind /\ startLocked(mem)
                      ELSE fail("running") /\ UNCHANGED prev
       \/ /\ reason = "config_reconcile" /\ Drop
          /\ IF Clean /\ ~(want = "running" /\ remoteErr) THEN ReconcileFresh
                                                          ELSE fail(want)
          /\ UNCHANGED prev
       \/ /\ reason = "service_shutdown" /\ Drop
          /\ updateState(IF Clean THEN St(want, "stopped")
                                  ELSE St(want, "failed"), "done", "done")
          /\ UNCHANGED prev
    /\ failed' = (failed \/ (kind = "stop" /\ (remoteErr \/ ~Clean)))
    /\ remoteErr' = FALSE /\ localErr' = FALSE /\ reason' = "none"
    /\ target' = IF kind = "stop" THEN target ELSE 0
    /\ UNCHANGED <<disk, reqSaving, created, installed, procVars, kind, want,
                   genVars, remote, stopAck>>

-----------------------------------------------------------------------------
(* Components, their watchers and the monitor of a generation              *)

\* The execution API stops serving, or the tunnel process exits.  The watcher
\* of watchFailureSource forwards the failure to the fatal channel, unless the
\* generation's context has ended; the channel has a single slot, so a second
\* failure is dropped while the first is in it.
watchFailureSource(g) ==
    /\ ~dead[g] /\ up[g] \cap {"api", "edge"} # {}
    /\ dead' = [dead EXCEPT ![g] = TRUE]
    /\ fatal' = [fatal EXCEPT ![g] = "ctx" \in open[g]]
    /\ UNCHANGED <<stateVars, ownVars, procVars, holderVars, open, up, workers,
                   registered, executing, url, monitor, remote, stopAck>>

\* The monitor goroutine takes the failure and then waits for transitionMu.
MonitorNotified(g) ==
    /\ monitor[g] = "watching" /\ fatal[g]
    /\ fatal' = [fatal EXCEPT ![g] = FALSE]
    /\ monitor' = [monitor EXCEPT ![g] = "notified"]
    /\ UNCHANGED <<stateVars, ownVars, procVars, holderVars, open, up, workers,
                   registered, executing, url, dead, remote, stopAck>>

\* ... or sees its generation's context cancelled.
MonitorEnds(g) ==
    /\ monitor[g] = "watching" /\ "ctx" \notin open[g]
    /\ monitor' = [monitor EXCEPT ![g] = "done"]
    /\ UNCHANGED <<stateVars, ownVars, procVars, holderVars, open, up, workers,
                   registered, executing, url, dead, fatal, remote, stopAck>>

\* A request served by the execution API starts a worker in the store of its
\* generation (processStart); a request in flight does so until the API has
\* been shut down.
APIStartsWorker(g) ==
    /\ "api" \in up[g]
    /\ workers[g] # "running"
    /\ workers' = [workers EXCEPT ![g] = "running"]
    /\ UNCHANGED <<stateVars, ownVars, procVars, holderVars, open, up, registered,
                   executing, url, watchVars, remote, stopAck>>

\* Workers end by themselves (a Temporal error that is not retried).
WorkersEnd(g) ==
    /\ workers[g] # "none"
    /\ workers' = [workers EXCEPT ![g] = "none"]
    /\ UNCHANGED <<stateVars, ownVars, procVars, holderVars, open, up, registered,
                   executing, url, watchVars, remote, stopAck>>

-----------------------------------------------------------------------------
(* The process                                                             *)

Boot ==
    /\ app = "down" /\ boots < MaxBoots
    /\ app' = "up" /\ boots' = boots + 1
    /\ mem' = Load
    /\ UNCHANGED <<disk, configured, reqSaving, ownVars, holderVars, genVars,
                   remote, stopAck>>

\* Setup saves config.toml.
SaveConfig ==
    /\ app # "down" /\ OpFree /\ ~configured
    /\ configured' = TRUE
    /\ UNCHANGED <<app, boots, stateVars, ownVars, holderVars, genVars, remote,
                   stopAck>>

\* A signal cancels the application context, the parent of every operation.
CancelContext ==
    /\ app = "up" /\ app' = "stopping"
    /\ UNCHANGED <<boots, configured, stateVars, ownVars, holderVars, genVars,
                   remote, stopAck>>

\* The process exits after Close, or dies at any point: everything it owned
\* is gone, the file and the remote record stay.
ProcessEnds ==
    /\ app # "down"
    /\ app' = "down"
    /\ mem' = St("stopped", "stopped") /\ reqSaving' = "none"
    /\ gen' = 0 /\ created' = 0 /\ installed' = {}
    /\ IdleHolder /\ FreshGenerations
    /\ UNCHANGED <<boots, configured, disk, remote, stopAck>>

HolderStep ==
    \/ \E ok \in BOOLEAN : Save(ok)
    \/ Return
    \/ TearPause \/ TearStopWorkers \/ TearStopAPI \/ TearStopEdge
    \/ TearWaitWorkers \/ TearRelease \/ TornDown
    \/ Restore \/ RestartFailed \/ Started \/ LoadConfig \/ newGeneration
    \/ \E step \in ActStep : activate(step)
    \/ Activated \/ monitorGeneration \/ rollback
    \/ StopGen \/ RestartGen \/ ReconcileGen \/ ReconcileFailed \/ CloseGen

MonitorStep ==
    \E g \in Gens : MonitorNotified(g) \/ MonitorEnds(g)

Next ==
    \/ HolderStep
    \/ MonitorStep
    \/ Start \/ Stop \/ Restart \/ Reconcile \/ Close
    \/ \E g \in Gens : handleGenerationFailure(g)
    \/ RequestStart \/ \E ok \in BOOLEAN : RequestSave(ok)
    \/ \E g \in Gens : watchFailureSource(g) \/ APIStartsWorker(g) \/ WorkersEnd(g)
    \/ Boot \/ SaveConfig \/ CancelContext \/ ProcessEnds

Spec == Init /\ [][Next]_vars

\* Goroutines that can run do run; transitionMu is a Go mutex, whose
\* starvation mode hands it to a waiter that has waited for a millisecond.
Fairness ==
    /\ WF_vars(HolderStep) /\ WF_vars(MonitorStep)
    /\ \A g \in Gens : SF_vars(handleGenerationFailure(g))
    /\ SF_vars(Close)
    /\ WF_vars(\E ok \in BOOLEAN : RequestSave(ok))

FairSpec == Spec /\ Fairness

-----------------------------------------------------------------------------
(* Properties                                                              *)

\* The process, the state and who owns what.
ProcessOK ==
    /\ disk \in Desired \cup {"none"} /\ configured \in BOOLEAN
    /\ app \in {"down", "up", "stopping", "closed"} /\ boots \in 0 .. MaxBoots
    /\ mem \in State /\ gen \in 0 .. MaxGenerations
    /\ created \in 0 .. MaxGenerations /\ installed \subseteq Gens
    /\ reqSaving \in {"running", "none"}
    /\ remote \in {"paused", "resumed"} /\ stopAck \in {"no", "acked", "torn"}

\* The holder of transitionMu.
HolderOK ==
    /\ pc \in Pc /\ kind \in Kind /\ reason \in Reason
    /\ target \in 0 .. MaxGenerations /\ want \in Desired
    /\ prev \in State \cup {NoState} /\ saving \in Desired \cup {"none"}
    /\ cont \in Pc \X Pc
    /\ remoteErr \in BOOLEAN /\ localErr \in BOOLEAN /\ failed \in BOOLEAN

\* The generations.
GensOK ==
    /\ open \in [Gens -> SUBSET Resource] /\ up \in [Gens -> SUBSET Component]
    /\ workers \in [Gens -> {"none", "running", "cancelled"}]
    /\ registered \in [Gens -> BOOLEAN] /\ executing \in [Gens -> BOOLEAN]
    /\ url \in [Gens -> BOOLEAN]
    /\ dead \in [Gens -> BOOLEAN] /\ fatal \in [Gens -> BOOLEAN]
    /\ monitor \in [Gens -> {"off", "watching", "notified", "done"}]

\* The state of the Supervisor, of the holder of transitionMu and of every
\* generation is well typed.
TypeOK == ProcessOK /\ HolderOK /\ GensOK

\* A generation the supervisor has stored and then let go of owns nothing any
\* more: every resource closed, no component up, no worker left (also none
\* that a request started while the generation was being torn down), no
\* advertised URL, and it is not executing.  (setGeneration(nil) happens only
\* behind localResourcesClosed.)
DroppedOwnsNothing ==
    \A g \in installed \ {gen} :
        /\ open[g] = {} /\ up[g] = {} /\ workers[g] = "none"
        /\ ~executing[g] /\ ~url[g]

\* Whenever no transition is in progress, the reported actual state is never
\* a transient one, and it says "running" exactly when the current generation
\* is executing; then the runtime is also wanted, its API, edge and heartbeat
\* were started and are not stopped, it is registered, and its monitor is
\* armed, so a failure of a component cannot go unnoticed.
ActualIsTruthful ==
    pc = "idle" =>
        /\ mem.actual \notin {"starting", "stopping"}
        /\ mem.actual = "running" <=> (gen # 0 /\ executing[gen])
        /\ mem.actual = "running" =>
               /\ mem.desired = "running"
               /\ up[gen] = Component /\ registered[gen]
               /\ monitor[gen] \in {"watching", "notified"}

\* Once Stop has returned nil, the runtime stays wanted-stopped in memory and
\* on disk, whatever late failure notification, shutdown or crash follows,
\* until somebody asks for a start.
StopIsDurable ==
    stopAck # "no" =>
        /\ disk = "stopped"
        /\ app # "down" => mem.desired = "stopped"

\* Once Stop has returned nil after tearing down a registered generation,
\* Credimi has the runner paused.
StopPausesRemote == stopAck = "torn" => remote = "paused"

\* After Close has returned nothing executes any more, although operations
\* that were already submitted may still run until the process exits.
NothingExecutesAfterClose ==
    app = "closed" => \A g \in Gens : ~executing[g]

\* Every transition ends (no path of an operation leaves transitionMu held).
TransitionsEnd == (pc # "idle") ~> (pc = "idle")

\* A failure of the API or of the edge of an executing generation is acted
\* upon: the generation stops executing.
FailuresAreHandled ==
    \A g \in Gens : (executing[g] /\ dead[g]) ~> ~executing[g]

\* A cancelled application gets to Close, whatever operations are running.
ShutdownCompletes == (app = "stopping") ~> (app \in {"closed", "down"})

\* README: "Service restart preserves the runtime desired state": a shutdown
\* never turns a persisted desired state of running into stopped.
ShutdownPreservesDesired ==
    [][(kind = "close" /\ disk = "running") => disk' = "running"]_vars
===========================================================================
