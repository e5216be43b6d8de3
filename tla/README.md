# Credimi Runner in TLA+

A TLA+ development of the core of `credimi-runner`, the program that runs mobile
conformance pipelines on a user's machine for the Credimi service. The modules are
written from the Go source. TLC checks them on small instances, and TLAPS proves
the invariants that the runs check for every value of the constants. `PROJECT.json`
lists components, runs, mutants, findings, hazards and theorems, and maps each
definition to the source lines it stands for.

## 1. The system

`credimi-runner` is one Go binary that plays two roles.

* On the host, **commands** (`cmd/`) install, start, restart and upgrade a
  long-running **service**: a Docker Compose project on Linux, a LaunchAgent on
  macOS.
* In the service, the **application** (`internal/application`) takes the lease of
  the configuration directory, loads `config.toml`, and runs the **dashboard** and
  the **runtime supervisor** until it is signalled.

The supervisor owns at most one **runtime generation**: the execution API that
Credimi calls, the edge (a cloudflared tunnel, or a URL entered by hand), the
registration with Credimi, Temporal workers per namespace, and a heartbeat.

```
  credimi-runner (host) --lock/request/result files--> service
     |  servicecoordination, servicemanager              |
     +------------- docker compose / launchd ----------> application
                                                         |        \
                                        dashboard server          runtime supervisor
                                            |  Submit                  ^   |
                                            v                          |   v
                                  operation coordinator --calls--------+  generation:
                                                                        API, edge, workers,
                                                                        registration, heartbeat
```

### Inventory

| Component | State | Operations | Interacts with | Hard behaviour | What makes it correct |
|---|---|---|---|---|---|
| Runtime supervisor `internal/runtimesupervisor` | desired and actual state (memory and `runtime-state.json`), the current generation with its closed flags, workers, URL, monitor | Start, Stop, Restart, Reconcile, ApplyInventory, ApplyEndpoint, RequestStart, Close, failure handling | called by operations and by the application; owns API, edge, workers, heartbeat | `transitionMu` and `mu`; saving after unlocking; partial teardown and rollback; failures racing with stops; crashes | nothing leaks, reported state is true, Stop is durable, the remote runner is paused, every transition ends |
| Operation coordinator `internal/controller/operation.go` | active and last operation, `byID`, history | Submit, run, finish, Wait, Get | dashboard submits; actions call the supervisor | `finish` unlocks between closing `done` and recording | one operation at a time, final outcomes, exact and bounded registry |
| Worker processes `pkg/server`, `pkg/workermanager` | process store, `Running` and generation of each Process, its goroutine | Start, Stop, Wait, StopAll, WaitAll, StartExistingWorkers, worker loop | API requests, activation and teardown of a generation | look-up and add are not atomic; goroutines of an earlier start; retries for ever | one worker goroutine per Process, `Running` is true, a clean teardown leaves no worker |
| Service coordination `internal/servicecoordination`, `cmd/runner.go` | lock, presence, request and result files | StartPresence, heartbeat, cleanup, follow, apply a request | several host commands, dashboard | no locking but files; crashes; stale files; configuration changes meanwhile | one handler, every request answered once, a reported restart is real |
| Dashboard server `internal/dashboard` | configuration, pending difference, setup draft, startup state | save, apply, setup, provisioning, runtime actions | submits operations, writes restart requests | pending difference against running configuration | what is pending is exactly what is not applied |
| Execution API `http_api.go` | listener, server, `started`, `shutdownRequested`, failure channel | Start, serve, Shutdown | supervisor, Credimi | Shutdown overtakes serve, repeats after a timeout | a clean Shutdown leaves no listener and no request, an end nobody asked for is reported |
| Edge `internal/edge` | tunnel process, URL, failure channel of capacity one | Start, Stop, Close, consumeOutput, waitProcess | supervisor | the process ends while Start waits for its URL or Stop signals it | a living process is owned, whoever got a URL learns of its end |
| Registration `registration.go`, `credimi.go` | none here; runner and device records at Credimi | verify endpoint, register runner and devices, reconcile, retry | Credimi, supervisor | lost answers, partial success, another boot behind the same name | Credimi has verified endpoints and exactly the active configuration |
| Lifecycle client `pkg/server/lifecycle.go` | attempts of a request | resume, heartbeat, pause | Credimi | lost calls and answers | remote state follows local state |
| Application, lease `internal/application`, `internal/controller` | `controller.lock`, `controller.json`, context | acquire, publish, probe, close | commands, dashboard | a second instance, a killed one, a close racing a successor | the serving controller can be found |
| Service manager `internal/servicemanager` | compose file, container, image record, plists, autostart setting | Start, Stop, Restart, RestartWithConfig, Enable, Disable, Status, UpgradeImage | docker, launchctl, configuration | every step may fail or be the last; the configuration changes meanwhile | the service provides what the configuration asks for, settings and records are true |
| Configuration `internal/config`, `internal/dashboard/runtime` | `config.toml`, values | load, save by digest, validate, normalise, diff, plan | dashboard, supervisor | concurrent saves | no lost update; plan matches difference |
| Atomic file `internal/atomicfile` | a file and its temporary | write | all stores | crash between write, sync and rename | old or new content, never a mix |
| Lifecycle log `internal/lifecyclelog` | log and rotated logs | write, rotate, read | everybody | rotation | bounded, in order |
| Devices `internal/device` | gates, registry | acquire, release, status | pipelines | contention, cancellation | one pipeline per device |
| Maintenance `internal/maintenance`, `cmd/upgrade.go` | the executable | check, download, verify, replace, restart, wait | launchd, controller | damaged downloads, kills, the old process answers | the executable is whole, a reported upgrade serves |
| Hub and monitors `internal/dashboard/hub.go`, `system_monitor.go` | subscribers, retained events, samples | publish, subscribe | browser | slow subscribers | publishing never blocks |
| Request handlers `pkg/server` | installers, extracted apps, results and screenshots on disk | fetch an installer, store a result, store screenshots | Credimi, activities | files written in place, concurrent requests, lost answers | what is answered is complete, what is not stored is kept |
| Android tools `internal/androidtools` | SDK packages, AVDs, golden images, phones | activation gate, preparation, asset download | sdkmanager, adb, dashboard | in-place extraction, two writers, AVDs of another image | a gate that passes has what an emulator and the phones need |

Rendering, OpenAPI generation, declarations and subprocess wrappers keep no state
of their own. They are listed in `PROJECT.json` as not modelled.

## 2. Modules and their code

| Module | Models | Kind |
|---|---|---|
| `RuntimeSupervisor` | `supervisor.go`, `state_store.go`, `state.go`, and the application around it | specification |
| `RuntimeSupervisorProofs` | | proofs |
| `OperationSlot` | what `Coordinator` promises | abstract specification |
| `OperationCoordinator` | `internal/controller/operation.go` | specification, refines `OperationSlot` |
| `OperationCoordinatorProofs` | | proofs |
| `WorkerProcess` | `process.go`, `process_start.go`, `server.go`, `worker_manager.go` | specification |
| `WorkerProcessProofs` | | proofs |
| `ServiceCoordination` | `servicecoordination.go`, `cmd/runner.go`, the dashboard's restart requests | specification |
| `ServiceCoordinationProofs` | | proofs |
| `ConfigApply` | the dashboard's saves, pending difference and runtime actions (`internal/dashboard/server.go`), `DiffValuesForOS`, and what the supervisor does with a configuration | specification |
| `ConfigApplyProofs` | | proofs |
| `Cloudflared` | `internal/edge/cloudflared.go` | specification |
| `HTTPAPI` | `internal/runtimesupervisor/http_api.go` | specification |
| `Registration` | `registration.go`, `credimi.go`, `pkg/server/lifecycle.go`, `registerWithRetry`, `ApplyInventory`, `ApplyEndpoint` | specification |
| `GenerationParts` | `activate` and `teardownGeneration` over the three modules above | composition |
| `GenerationPartsProofs` | | proofs |
| `ServiceSpec` | `service_fingerprint.go`, `docker_compose.go`, `host_resolution.go` | operators |
| `DockerManager` | `docker.go`, and the image check of `maintenance/check.go` | specification, extends `ServiceSpec` |
| `LaunchAgent` | `launchd_darwin.go`, `settings.go` | specification |
| `ControllerLease` | `controller/instance.go`, `controller/identity` | specification |
| `HostUpgrade` | `cmd/upgrade.go`, `maintenance/upgrade.go` | composition of `LaunchAgent` and `ControllerLease` |
| `ServiceHost` | the choice of `factory_darwin.go` and `factory_other.go` | `DockerManager` or `HostUpgrade`, by platform |
| `ServiceHostProofs` | | proofs |
| `InstallerCache` | `fetch_installer_and_action.go` | specification |
| `ArtifactStore` | `store_pipeline_result.go`, `store_execution_screenshots.go` | specification |
| `EmulatorReady` | `internal/androidtools`, the dashboard's asset and device handlers | specification |
| `DeviceWork` | | the three modules above side by side |
| `DeviceWorkProofs` | | proofs |
| `MC...` | constants for TLC | |

**RuntimeSupervisor.** All entry points but `RequestStart` hold `transitionMu`, so
one program counter `pc` stands for the holder, and `pc = "idle"` means the mutex is
free. An operation is a chain of steps that follows the code. `updateState` changes
memory, and saving is a separate step (`Save`), because the code has released `mu`
by then. Activation has one step per component, each of which may fail. Teardown is
`TearPause`, `TearStopWorkers`, `TearStopAPI`, `TearStopEdge`, `TearWaitWorkers`,
`TearRelease`. Each step may fail and the next one runs regardless, as in
`teardownGeneration`. `RequestStart`, component failures, the monitor goroutine and
workers started by API requests interleave with all of these. `Boot`,
`CancelContext`, `Close` and `ProcessEnds` are the process around it. `ProcessEnds`
may happen at any time (a crash), after which only the state file is left.
`stopAck` is a history variable: the last `Stop` returned nil and nobody has asked
for a start since. Error texts and time stamps are left out.

**OperationCoordinator.** `Submit`, `update`, `finish`, `CloseDone` and `Record` are
the critical sections of the code. `finish` ends the operation under the lock,
closes `done`, and locks again to record it. Other operations fit in that window.
`cancelled` is the parent context. `kind` keeps what bounds an action: a `"runtime"`
operation calls one transition of the supervisor, a `"config"` operation may also wait
for Credimi without a timeout.

**WorkerProcess.** Threads are API requests and the activation (`"boot"`), each
with its own `pc`. Every start of a Process has a goroutine (`run[p][s]`) that goes
through the worker loop. `teardown` is the store's part of `teardownGeneration`:
`StopAll` (one Process at a time), `Shutdown`, `WaitAll`. Temporal is external: a
worker becomes ready, fails, or retries.

**ServiceCoordination.** Each file is a variable or two (who wrote it, whether it is
at most 15 seconds old). A command's `pc` walks through `acquireCoordinator`,
`runRoot`, `followAttachedService`, `applyServiceRestartRequest` and the cleanup. A
command may crash at every step and leaves its files. Configurations carry a
fingerprint. In the run the two configurations have different ones; the proofs
also cover configurations that share one, since not every change needs a restart. The
constant `Timely` states an assumption on the environment: a live command refreshes
its files every 5 seconds, and therefore before they are 15 seconds old. Each command
runs once, and a further one may have died before and left its lock or its presence
(`"gone"`). `seen` is the lock a command has found stale and `raced` is a history
variable: some command has removed another lock than the one it had found stale. The
code looks at the age of the lock in one step and removes the name in another, so that
this happens when two commands meet the lock of a dead one.

**ConfigApply.** Operations run one at a time (`OneAtATime`), so `op` and `step` are
the one in progress: a save is prepared without a lock, compared with the file,
written and applied. A configuration gives each kind of key one of two values, and
`Impact` says what a change of the kind calls for. Of the supervisor only the desired
state and two configurations remain: the one its generation was constructed with
(`built`) and the one it goes by (`active`), which `ApplyInventory` and
`ApplyEndpoint` change in place. What the container was created with, or on macOS the
settings the process was started with, is `topology`. `edited` (keys somebody else
changed in the file) and `bypassed` (a start or a setup came upon an executing
generation) are history variables. `Boot` replaces the process at any time.

**Cloudflared.** The variables are the fields of `Cloudflared` and, per process, of
`cloudflaredProcess`, with what its two goroutines do next. Each critical section of
`mu` is one step. `StartSelects` takes any ready case of the select. The operating
system may end a process at any time (`ProcessDies`).

**HTTPAPI.** `serve` is split where it reads `shutdownRequested`, closes `serveDone`
and reports. `http.Server` is external and modelled by what the code relies on:
Shutdown closes the tracked listener, makes a later Serve return, and waits for
requests until the context ends.

**Registration.** Every request is a step that Credimi may have applied although the
answer is an error (`Reply`). An error is transient or permanent, as
`transientRegistrationError` sorts them. `todo`, `ids` and `errs` are the locals of
`Register`. `answering` holds the ways by which a public URL can reach this process,
directly or through the tunnel. The composition defines it from the tunnel and the
API. `ApplyInventory` and `ApplyEndpoint` are given the whole configuration loaded from
`config.toml` (`SavedConfigs`), whose endpoint may be any. `carried` is a history
variable: the endpoints `ApplyInventory` took from the file without a verification.

**GenerationParts** walks through `activate` (API, edge, verification, registration,
resume, heartbeat) and `teardownGeneration` (pause, API, edge), and repeats a
teardown that had local errors. The workers, which `WorkerProcess` and
`RuntimeSupervisor` model, are left out here. The stage `"alone"` uses a tunnel in any
order, as its package allows. A generation starts it once.

**ServiceSpec** holds the pure functions: the network mode, the published ports,
capabilities, the projection a fingerprint hashes (the hash is taken as injective),
the service built from it and the compatibility test. The names a configuration
depends on resolve to local or remote when a service is rendered, and these answers go
with the service. The compatibility test knows no others.

**DockerManager.** One manager process at a time (`mgr`) walks through the steps of
its operation. `Fails` and `Crash` may end it at every one. `mgr.cfg` is the
configuration it read, which `config` may have left behind. Docker Compose is
external: `up` keeps a container that matches file and image and recreates it
otherwise. Every lookup of a name may answer differently. `torn` (an autostart change that was killed, or whose rollback failed) and
`container.upgraded` are history variables. A pull policy of `never`, and images
without digests, are left out.

**LaunchAgent, ControllerLease, HostUpgrade.** launchd loads, unloads and keeps the
agent alive. An agent that was bootstrapped stays loaded when the kickstart fails.
`CloseOrder` is the order in which `Lease.Close` removes the metadata and unlocks its
own descriptor. Every run of the application takes the lease, publishes and closes, or
is killed. The upgrade command does both the download and the restart in its own
process. A copy started from a shell competes for the lease.

**InstallerCache.** Content is absent, partial or whole. A writer that was alone
leaves the whole content, writers side by side may leave a part. `cut` (a download
stopped halfway) and `shared` (two requests wrote the same thing) are history
variables.

**ArtifactStore.** Files lie in directories (`Above`, `Dir`, `Root`). An upload may
be stored without a valid answer. Removal is by directory for results and by file for
screenshots, and any removal may fail.

**EmulatorReady.** The gate follows `ensureEmulatorReadyAt` and the physical-device
checks. The download handler runs beside it. `writing` is the archive each of them is
extracting. The order of the entries in an archive is not known, so that any part of
it may be there. avdmanager is external and may be killed while it writes an AVD.
`lost` are the phones that left since adb was first asked for one.

## 3. Runs

| Run | Specification and bounds | Shows |
|---|---|---|
| `supervisor` | `Spec`, 2 generations per process start, 2 starts | `TypeOK`, `DroppedOwnsNothing`, `ActualIsTruthful`, `StopIsDurable`, `StopPausesRemote`, `NothingExecutesAfterClose` |
| `supervisor_live` | `FairSpec`, 1 generation, 1 start | `TransitionsEnd`, `FailuresAreHandled`, `ShutdownCompletes` |
| `coordinator` | `FairSpec`, 4 operations, history of 2 | `RegistryExact`, `SlotImplemented`, `EveryOperationIsRecorded` |
| `workers` | `Spec`, 1 namespace, 2 requests and the activation, 2 Processes with 2 starts each, 2 teardowns | `OneRunPerProcess`, `RunningIsTruthful`, `CleanEndsStored` |
| `workers_live` | `FairSpec`, 1 start per Process | `CancelledEnds` |
| `coordination` | `FairSpec`, 2 commands and the files of a dead one, 2 configurations, 2 requests, `Timely` | `SingleHandler`, `AppliedIsTrue`, `AnsweredOnce`, `RequestAnswered` |
| `config_apply` | `Spec`, one key each of five kinds, 2 saves, 1 edit by others, both platforms | `PendingIsHonest`, `InPlaceIsSafe` |
| `generation_parts` | `Spec` (fair), 2 devices in 3 inventories (one empty), 2 endpoints, 1 in-place change, 2 attempts per request, 1 request, 2 tunnel processes, 3 exposure modes | `ReleasedIsFree`, `TunnelIsOwned`, `EndIsReported`, `PublishedIsActive`, `EndpointIsVerified`, `DevicesAreKept`, `DeadPartEndsGeneration` |
| `service_host` | `HostSpec`, both platforms, 9 configurations, any name resolution, 3 operations, 1 edit, 1 push, 3 runs of the application, 2 releases | `CompatibleIsSufficient`, `AutostartIsKept`, `CurrentIsCurrent`, `SnapshotIsApplied`, `ExecutableIsWhole`, `UpgradeIsServed`, `ServingIsFindable` |
| `device_work` | `Spec`, 2 fetches of 2 installers, 2 stores of 4 files in 2 runs, 4 device inventories | `ReturnedIsWhole`, `NothingIsLost`, `GateIsReady`, `UnusableWasCut` |
| `service_upgrade_autostart` | as `service_host` | violates `ReportedAutostartIsReal` |
| `emulator_gate` | as `device_work` | violates `GateMeansUsable` |

Why the bounds are enough to be interesting:

* Two generations let one be replaced (restart, reconcile) while the failure
  notification of the other is under way. Two process starts let a crash be
  followed by a start from the state file. Telemetry (`Observability`) only adds
  one more resource to a generation, and the runs leave it out. The proofs cover
  both settings.
* Four operations and a history of two let two operations be recorded out of order
  while another is pending and while pruning takes place.
* Two requests and the activation on one namespace are what it takes to make two
  Processes for it. Namespaces do not interact but through the store's map. Two
  starts per Process let an old goroutine meet its successor.
* A command that died before has left its files, two others meet them at the same
  time, and each of the two may crash and leave its own. Two requests let one
  supersede the other.
* Two saves let a change be saved on top of one that is still pending, or take it
  back. A third save without edits by others was also explored. The five kinds
  are the ones the code treats differently: a change for a new generation, for the
  inventory, for the endpoint, for the exposure mode and for the service.

* A device that is registered and one that is refused are what it takes for a
  partial registration. Leftover devices of an earlier generation need reconciling.
  Two tunnel processes let a new one start beside the remains of the old one. One
  in-place change publishes a file with another endpoint or other devices (with two of
  them the invariants and `DevicesAreKept` were checked separately). Two
  attempts per request are one that is lost and one that arrives (the code has three).
* The nine configurations change one thing each (devices with USB, with KVM, with
  known hosts, a dependency on a local name, another network and image, manual
  exposure, ADB keys), and one has ADB keys, a wifi device and an emulator. Three operations are a start, a change and a restart or
  upgrade, each of which may be cut short.
* Two requests for the same installer overlap at every step. Two screenshots in a
  directory below that of a video, and a second run, cover the relations between the
  removals of two stores.

Type invariants of `OperationCoordinator`, `WorkerProcess`, `ServiceCoordination` and
`ConfigApply` are stated in their modules, and so is the coordinator's `OneAtATime`.
They are proved (section 4). The runs spend their time on the properties above.

`CHECK_DEADLOCK FALSE` is set wherever a model may stop, since bounded counters make every model
stop, and the programs themselves may stop (a process exits, nobody submits).

### Fairness

* Supervisor: weak fairness of the holder and of the monitor (a goroutine that can
  run does run, and every blocking call in a transition has a timeout or fails),
  strong fairness for taking `transitionMu` in `handleGenerationFailure` and `Close`.
  A Go mutex enters starvation mode after a millisecond and hands itself to the
  waiter. There is no fairness on failures, on `ProcessEnds`, or on requests.
* Coordinator: weak fairness of every operation's goroutine but for the return of its
  action. A runtime action (start, stop, restart) returns because transitions end,
  which is `TransitionsEnd`. A configuration action may wait for Credimi: renaming or
  creating a device calls `PreviewDeviceID` with `http.DefaultClient`, which has no
  timeout, under the operation's context, which has no deadline (only the setup sets
  one, of 20 seconds). It is fair only once the application's context is cancelled,
  which ends its requests. `EveryOperationIsRecorded` promises no more than that.
* Workers: weak fairness of threads and of the worker goroutines. Nothing makes a
  worker become ready.
* Coordination: weak fairness of each command, of a heartbeat that is about to
  write, and of the ageing of a lock. Commands need not be interrupted or crash,
  and need not be started.
* Generation parts: weak fairness of the watchers, of the tunnel's goroutines and of
  `serve`, and of the teardown once a failure was received, which
  `FailuresAreHandled` of the supervisor justifies. Neither the tunnel nor the
  listener has to fail, and no request has to succeed.

### Findings

Two runs state a sentence of the repository that the code does not keep:

* `service_upgrade_autostart`: `UpgradeImage` recreates the container from a compose
  file that `Enable` and `Disable` never rewrite. The restart policy they set on the
  live container is lost, and `Status` goes on reporting the saved setting.
* `emulator_gate`: archives are extracted in place and only the existence of their
  directories is checked. After an extraction that was cut short the gate returns nil
  with a part of the assets. The shortest trace is the gate that prepares a candidate
  (on a host without `/dev/kvm`); the gate of an activation runs the same lines.

Five more are reproduced by configurations that are kept beside the runs
(`tlc -config <cfg> <module>` prints the counterexample):

* `MCRuntimeSupervisorShutdown.cfg`: `Close` saves the desired state it read before
  the teardown, and overwrites a `RequestStart` accepted in between. The README of
  the repository says a service restart preserves the desired state.
* `MCWorkerProcessOrphan.cfg`: two starts for one namespace make two Processes. The
  first one is in no store and survives a teardown without errors.
* `MCWorkerProcessLateStart.cfg`: a `Start` that learns late of its worker's failure
  stops a newer worker of the same Process.
* `MCServiceCoordinationReclaim.cfg`: two commands find the lock of a dead one stale.
  The first removes it and creates its own, the second removes that one, and both end
  up applying requests (`HandlerIsAlone`). The comment of `CoordinatorOwned`
  (`servicecoordination.go:184-186`) says it "prevents an old process from continuing to
  handle requests after a stale lease has been reclaimed"; it is read before a request
  is applied, and not again until the next one. `SingleHandler`, `AppliedIsTrue` and
  `AnsweredOnce` hold in every history without such a removal (`~raced`).
* `MCServiceHostMount.cfg`: removing the emulator from a configuration that has ADB keys
  is called compatible, as an emulator in excess. The keys are to be mounted on the
  Android directory then (`docker_compose.go:261-264`), and the running container has
  the emulator's directory there. `service_fingerprint.go:217-219` says "Extra USB, ADB,
  or KVM capability is a safe superset; all other service topology fields must remain
  equal". `CompatibleIsSufficient` states the exception, `CompatibleMountIsEqual` is the
  sentence without it.

Observations without a run of their own:

* `RequestStart` turns `failed` into `stopped` although a failed teardown may have
  kept its generation, so `Status` reports a stopped runtime that still owns
  resources. When `newGeneration` fails and its cleanup fails too, nothing retries
  closing what is left.
* `Start` of an executing generation does nothing, yet the dashboard forgets the
  pending difference after it, also when a repeated setup has just saved another
  configuration. A later change of a device is then applied in place, and makes the
  generation's configuration claim values that its components do not have.
  `PendingIsHonest` and `InPlaceIsSafe` exclude exactly this case (`bypassed`).
* A `config.toml` without devices (the dashboard saves none) is registered without
  reconciling, so Credimi keeps the devices of an earlier inventory, although the
  comment on `ReconcileMobileDevices` says absent records are removed.
  `PublishedIsActive` excludes the case.
* The service manager takes no lock. The models assume one invocation at a time, and
  the `--dashboard-listen` override writes back a configuration it read before.
* `ApplyInventory` registers the whole saved configuration and verifies nothing. A wrong
  manual URL that was saved and failed verification stays pending. A Start of the
  executing runtime clears the pending difference (`server.go:2093-2097`), and the next
  save of a device publishes that URL at Credimi. The same goes for the domain of a
  named tunnel. `EndpointIsVerified` excludes exactly these endpoints (`carried`).
* While Credimi does not answer the preview of a renamed or new device
  (`server.go:918`, `server.go:960`), the operation keeps the coordinator's slot, and
  every start, stop and save is refused as a conflict until the application ends. The
  setup guards itself against the same (`server.go:1612-1616`).
* A name that resolves differently since the service was rendered goes unnoticed:
  the compatibility test compares with the answers the service was applied with.
* The wait after `upgrade-binary` accepts any new controller, also a copy started
  from a shell. `UpgradeIsServed` speaks only of the agent's.
* A truncated installer is taken for a cached one, and a truncated iOS archive makes
  every later fetch fail. Overlapping extractions may leave a marker beside a part of
  the app. `ReturnedIsWhole` states these exceptions.
* Storing a result removes screenshots below its directories that were not uploaded,
  and a screenshot request repeated after a lost answer is refused because its files
  are gone. `NothingIsLost` states the first. Without a runtime configuration the
  paths of a request are not validated. That case is left out.
* An AVD without `config.ini`, or a partial sdkmanager, left by a cut extraction or by
  an avdmanager that was killed, makes every later gate fail until somebody removes it.

## 4. Proofs

Every invariant that a passing run checks, the action properties `AnsweredOnce` and
`DevicesAreKept`, and the refinement `SlotImplemented` are theorems: they hold for
every value of the constants that satisfies the assumptions named below. Each proof
module states an inductive invariant, shows that the initial states have it and that
every step keeps it (one step of the proof per action), and derives the theorems from
it. TLC checked each of these invariants on a small instance before it was proved.

| Module | Theorems | Assumptions |
|---|---|---|
| `RuntimeSupervisorProofs` | `TypeCorrect`, `NothingLeaks`, `Truthful`, `StopDurable`, `StopPauses`, `ClosedIsIdle` | `BoundsAssumption` |
| `OperationCoordinatorProofs` | `MutualExclusion`, `Refinement`, `Registry` | `HistoryAssumption` |
| `WorkerProcessProofs` | `OneRun`, `RunningTruthful`, `CleanTeardown` | `WorkerAssumption` |
| `ServiceCoordinationProofs` | `TypeCorrect`, `OneHandler`, `AppliedTrue`, `AnswersGoForward` | `CoordinationAssumption`; the last three `Timely` |
| `GenerationPartsProofs` | `TunnelOwned`, `EndReported`, `ReleasedFree`, `PublishedActive`, `Verified`, `DevicesKept` | `PartsAssumption` |
| `ConfigApplyProofs` | `TypeCorrect`, `Honest`, `InPlaceSafe` | `KeysAssumption` |
| `ServiceHostProofs` | `Compatible`, `AutostartKept`, `CurrentImage`, `SnapshotApplied`, `ExecutableWhole`, `UpgradeServed`, `ServingFindable` | `ManagerAssumption` |
| `DeviceWorkProofs` | `InstallerWhole`, `ArtifactsKept`, `GateReady`, `CutExplains` | `InstallersAssumption`, `TreeAssumption`, `AssetsAssumption` |

The assumptions say that bounds are natural numbers, that names are distinct and that
sets are not empty, with these exceptions. `TreeAssumption` says that directories form
a tree. `AssetsAssumption` says that an inventory names known AVDs and phones.
`ManagerAssumption` says that configurations are well formed and name known images.
`Timely` is an assumption on the environment (section 2), which the heartbeat's period
of 5 seconds against the limit of 15 makes plausible and nothing enforces.

**RuntimeSupervisorProofs.**

* `TypeOK` is not inductive: a rollback restores `previousState`, which is a state
  only if the operation has kept one, and constructing a generation stays within
  the bound only because operations check it when they begin. `TypeInv` adds these
  two facts and the list of continuations a save may have (`Continuation`,
  `WillCreate`).
* `DroppedOwnsNothing` needs to know what a generation owns while it is torn down.
  `OwnInv` says that a component that is up is backed by a resource that is still
  open and that generations not constructed own nothing. `PcInv` says what holds
  at each step: which generation the holder works on, and that after
  `TearRelease` either the workers are gone or something is still open, so
  that `setGeneration(nil)`, which the code guards by `localResourcesClosed`, never
  drops a generation with a worker. The last case is the one a reader would worry
  about: a request may start a worker between `StopAll` and the end of the API's
  `Shutdown`. There is one lemma per kind of teardown step (`ShrinkOwn`,
  `TearStopAPIOwn`, `TearStopEdgeOwn`, `TearReleaseOwn`).
* The other four need to know which operation is under way (`KindInv`: steps,
  reasons and desired states that go together) and how much of a generation is up
  outside its activation and teardown (`ExecInv`). `TruthInv` then says that memory
  is true whenever the holder may return, and that the state a failed start or
  restart goes back to is true as well. `StopInv` follows a `Stop` from its first
  assignment to the file and to Credimi. `CloseInv` says that no activation gets past
  its registration once the context is cancelled.

**OperationCoordinatorProofs.**

* `SlotInv` relates phases, goroutines and `active`. Its last conjunct, an
  unfinished operation is the active one, is what lets `Submit` see it, also when
  an earlier operation is recorded late (`ClearActive` clears only its own).
* `Refinement` maps `nextID` and the phases to the abstract slot. `SlotStep` shows
  that each step is a step of `OperationSlot` or a stutter.
* `RegistryInv` adds that everything in the history has been recorded.

**WorkerProcessProofs.** `RunInv` says that of all starts of a Process only the last
may be live, which `Process.Start` ensures by refusing to start while one is still
stopping, and that `Running` speaks of that last one, which the generation check of
the deferred function ensures. `CleanInv` says why `WaitAll` waits for enough: once
the API is drained nobody is left who could start a worker or replace an entry of the
store.

**ServiceCoordinationProofs.** `LockInv` says of every history in which no command has
removed another lock than the one it found stale: whoever holds the lock has a fresh
one, and whoever is about to remove a lock has seen that of a dead command. `Timely`
enters here: only the lock of a dead command gets stale. Once `raced` is set nothing is
promised, and nothing in the proof keeps it from being set. `ApplyInv` says that the
request being applied is later than the last result, and that an answer on its way
agrees with the service as it is.

**GenerationPartsProofs.** The tunnel (`TunnelInv`: who holds which process and what
its two goroutines still do), the API (`APIInv`: after a clean Shutdown nothing opens
again), the conversation with Credimi (`RemoteInv`: everything sent was verified
or taken from the file by `ApplyInventory`, and without errors each device is accepted or still to be sent) and the stage of the
transition (`StageInv`).

**ConfigApplyProofs.** `Shown` says that every key in which the executing generation
differs from a configuration is among given ones. `ApplyInv` says of which
configuration and of which keys it holds at each step of an operation: of the file
and the pending difference between operations, of the new configuration and the
merged difference while it is applied.

**ServiceHostProofs.** The platform never changes, so `HostInv` is a disjunction.

* On Linux `MgrInv` and `ApplyInv` carry what a manager process has read and written
  from one of its steps to the next, `PolicyInv` says that the container's restart
  policy is the setting, or between the save and Docker's update the setting before,
  and `VersionInv` orders versions: the registry, the local store, the container, and
  a record of the same tag. `CompatibleServes` is the lemma behind `Compatible`: for
  any two configurations, a service made for the one and compatible with the other by
  the test of `service_fingerprint.go` provides what the other one asks for, and has its
  Android mount unless it has the emulator or ADB in excess. `KnownLocality` is the
  point where this could fail: the service may know no answer for a name of the new
  configuration, unless the test refuses unknown names.
* On macOS `LeaseInv` says that whoever owns, serves or closes holds the lock,
  `AgentInv` that the plist follows the setting, and `UpgradeInv` that the download is
  verified when it is renamed, and that an agent living after the restart was started
  from the executable as it is now.

**DeviceWorkProofs.** `CacheInv` says that a file or an app nobody shares has one
writer at a time, and that the marker beside an app means that it is whole.
`StoreInv` says that a request removes only what Credimi has or what lies in a
directory of such a file. `AssetInv` says what the gate has seen to at each of its
steps, and that a part of an archive or of an AVD is being written or was cut short.

Only model-checked:

* all liveness properties (`TransitionsEnd`, `FailuresAreHandled`,
  `ShutdownCompletes`, `EveryOperationIsRecorded`, `CancelledEnds`,
  `RequestAnswered`, `DeadPartEndsGeneration`), since reasoning about fairness and
  `ENABLED` is out of the prover's reach;
* the two violations, and the configurations kept under Findings, which are
  counterexamples.

## 5. Not modelled, and the plan

Modelled are the supervisor with the parts of a generation, operations, workers,
restart coordination, how a saved configuration comes into effect, both service
managers with their upgrades and the controller's lease, and the device work that
keeps files. What is left, in the order in which it would add most:

1. Pure algorithms as operators against reference definitions: configuration
   difference and plan, inventory, normalisation, validation of devices. They work on
   strings, and TLC would enumerate mostly what the unit tests enumerate.
2. The lifecycle log's rotation and the hub's fan-out. Nothing depends on them.
3. The setup draft and the identity resolution of the dashboard: a form kept in
   memory and requests to Credimi that only fill it in.
4. `internal/device`: a token per device and a registry of values.
   `internal/lifecycle/service.go` is not used by the program.

What the proofs could still say: that the supervisor of `RuntimeSupervisor` and the
parts of `GenerationParts` agree on what a teardown leaves behind (a refinement of the
one by the other), and an abstract specification of the service's restart policy that
both platforms implement.

Out of scope: HTML rendering, OpenAPI and code generation, exporting telemetry, the
protocols of registries and releases, and the internals of Temporal, Docker, launchd,
sdkmanager, adb and cloudflared, which appear only through what the code does with
their answers.

## 6. Running it

```
tlc -workers 2 -config MCRuntimeSupervisor.cfg MCRuntimeSupervisor
tlapm RuntimeSupervisorProofs.tla
```

Every property of a passing run has a mutant: an operator next to the definition
it replaces (its comment starts with "Mutant of") with a bug that TLC must find.
