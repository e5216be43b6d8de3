----------------------------- MODULE ConfigApply -----------------------------
(***************************************************************************)
(* internal/dashboard: saving a configuration and bringing it into effect.   *)
(* The dashboard's Server keeps a snapshot of config.toml (s.cfg) and the    *)
(* difference that is saved and not yet applied (pendingDiff); it applies a  *)
(* saved difference by asking for a restart of the service, or through the   *)
(* supervisor: in place (ApplyInventory, ApplyEndpoint) or with a new        *)
(* generation (Reconcile).                                                  *)
(*                                                                          *)
(* Saves and runtime actions are operations of the controller, which runs    *)
(* one at a time (OperationCoordinator, OneAtATime): op and step describe    *)
(* the one in progress.  Of the supervisor only what is asked of it remains: *)
(* the desired state and the configuration of the executing generation.      *)
(***************************************************************************)
EXTENDS Naturals

CONSTANTS
    Keys,         \* kinds of configuration keys
    MaxSaves,     \* bound: configurations saved by the dashboard
    MaxEdits      \* bound: edits of config.toml by somebody else

\* What a change of a key calls for (FieldImpacts and the device keys).
Impact ==
    [runtime     |-> {"reconcile"},            \* e.g. TEMPORAL_ADDRESS
     device      |-> {"reconcile", "credimi"}, \* CREDIMI_DEVICE_*
     mode        |-> {"reconcile", "credimi"}, \* CREDIMI_SERVICE_MODE
     description |-> {"credimi"},              \* CREDIMI_RUNNER_DESCRIPTION
     url         |-> {"credimi"},              \* RUNNER_PUBLIC_URL, RUNNER_PUBLIC_PORT
     domain      |-> {"credimi"},              \* RUNNER_DOMAIN
     service     |-> {},                       \* what the service was created with
     token       |-> {}]                       \* DASHBOARD_TOKEN

ASSUME KeysAssumption ==
    /\ Keys \subseteq DOMAIN Impact /\ {"service", "mode"} \subseteq Keys
    /\ MaxSaves \in Nat /\ MaxEdits \in Nat

VARIABLES
    \* the platform: the service runs natively on macOS, or in a container
    darwin,
    \* config.toml, the dashboard's snapshot of it, the value of "service" that
    \* the service was created with, and who edited the file since
    file, cfg, topology, edited,
    \* the supervisor: desired state, the configuration of the executing
    \* generation (NoConfig: none executes), the one it was constructed with,
    \* and whether a start or a setup came upon it
    desired, active, built, bypassed,
    \* pendingDiff
    pending,
    \* the operation in progress: its kind, its next step, the configuration it
    \* started from, the one it saves or applies, and the difference to keep if
    \* applying fails
    op, step, base, new, kept,
    \* bounds
    saves, edits

fileVars == <<file, cfg, topology, edited>>
runtimeVars == <<desired, active, built, bypassed>>
opVars == <<op, step, base, new, kept>>
vars == <<darwin, fileVars, runtimeVars, pending, opVars, saves, edits>>

Config == [Keys -> {0, 1}]
NoConfig == [none |-> TRUE]
Class == {"reconcile", "credimi", "service", "saved_only"}
NoDiff == [keys |-> {}, classes |-> {}]
Diff == [keys : SUBSET Keys, classes : SUBSET Class]
Mode(c) == IF c["mode"] = 0 THEN "manual" ELSE "named_tunnel"

Idle == op' = "none" /\ step' = "none" /\ base' = NoConfig /\ new' = NoConfig
        /\ kept' = NoDiff

Init ==
    /\ file = [k \in Keys |-> 0] /\ cfg = file /\ topology = 0 /\ edited = {}
    /\ desired \in {"running", "stopped"}
    /\ active = NoConfig /\ built = NoConfig /\ bypassed = FALSE /\ pending = NoDiff
    /\ darwin \in BOOLEAN
    /\ op = "none" /\ step = "none" /\ base = NoConfig /\ new = NoConfig /\ kept = NoDiff
    /\ saves = 0 /\ edits = 0

-----------------------------------------------------------------------------
(* Differences                                                             *)

DiffValues(old, cur) ==
    LET keys == {k \in Keys : old[k] # cur[k]}
        classes == (UNION {Impact[k] : k \in keys})
                     \cup (IF "service" \in keys THEN {"service"} ELSE {})
    IN  [keys |-> keys, classes |-> IF classes = {} THEN {"saved_only"} ELSE classes]

withoutServiceClass(d) == [d EXCEPT !.classes = @ \ {"service"}]

pendingDiffForPlatform(d) == IF darwin THEN d ELSE withoutServiceClass(d)

\* Mutant of mergeConfigDiff: only the latest difference is remembered.
mergeLatest(left, right) == right

mergeConfigDiff(left, right) ==
    [keys |-> left.keys \cup right.keys, classes |-> left.classes \cup right.classes]

diffNeedsRuntimeApply(d) == d.classes \cap {"reconcile", "credimi"} # {}

inactiveExposureKey(k, mode) ==
    (k = "url" /\ mode # "manual") \/ (k = "domain" /\ mode # "named_tunnel")

\* Mutant of inventoryOnlyDiff: one device key is enough.
inventoryAnyDiff(d, c) == d.keys \cap {"device", "description"} # {}

inventoryOnlyDiff(d, c) ==
    /\ d.keys # {}
    /\ \A k \in d.keys : k \in {"device", "description"} \/ inactiveExposureKey(k, Mode(c))

activeManualEndpointDiff(d, c) == Mode(c) = "manual" /\ d.keys = {"url"}

inactiveExposureOnlyDiff(d, c) ==
    d.keys # {} /\ \A k \in d.keys : inactiveExposureKey(k, Mode(c))

\* The service was created for another configuration than s.cfg (on macOS: the
\* process was started with other server settings).
serviceRestartRequired == cfg["service"] # topology

-----------------------------------------------------------------------------
(* Saving                                                                  *)

\* queueConfigMutation: the operation loads a configuration, resolves and
\* validates the form and provisions what it needs, all without a lock.
Prepare(kind, from, changed) ==
    /\ op = "none" /\ saves < MaxSaves
    /\ op' = kind /\ step' = "compare" /\ saves' = saves + 1
    /\ base' = from
    /\ new' = [k \in Keys |-> IF k \in changed THEN 1 - from[k] ELSE from[k]]
    /\ UNCHANGED <<fileVars, runtimeVars, pending, kept, edits, darwin>>

saveConfigPageSync ==
    \E changed \in SUBSET (Keys \ {"device"}) : Prepare("page", file, changed)

\* What a change of the devices changes: also the service, if it needs other
\* capabilities.
DeviceChanges == {{"device"} \cap Keys, {"device", "service"} \cap Keys}

\* Saving a device as it is, or enabling an enabled one, changes nothing.
saveDevicesConfigSync ==
    \E changed \in DeviceChanges \cup {{}} : Prepare("devices", file, changed)

setDeviceEnabledSync ==
    \E changed \in DeviceChanges \cup {{}} : Prepare("devices", file, changed)

deviceRemoveSync == \E changed \in DeviceChanges : Prepare("devices", file, changed)

finishSetupSync == \E changed \in SUBSET Keys : Prepare("setup", cfg, changed)

\* saveRuntimeCandidate and the end of saveConfigPageSync compare the file with
\* what the operation started from.  Setup does not.
Compare ==
    /\ step = "compare"
    /\ \/ /\ op = "setup" \/ file = base
          /\ step' = "write" /\ UNCHANGED <<op, base, new, kept>>
       \/ Idle \* changed meanwhile, invalid, or not to be provisioned
    /\ UNCHANGED <<fileVars, runtimeVars, pending, saves, edits, darwin>>

\* mutationMu keeps other operations away, and nobody else.
Write ==
    /\ step = "write"
    /\ \/ /\ file' = new /\ cfg' = new /\ step' = "apply"
          /\ UNCHANGED <<topology, edited, op, base, new, kept>>
       \/ Idle /\ UNCHANGED fileVars
    /\ UNCHANGED <<runtimeVars, pending, saves, edits, darwin>>

\* config.toml is edited by somebody else.
Edit(k) ==
    /\ edits < MaxEdits /\ edits' = edits + 1
    /\ file' = [file EXCEPT ![k] = 1 - @] /\ edited' = edited \cup {k}
    /\ UNCHANGED <<cfg, topology, runtimeVars, pending, opVars, saves, darwin>>

-----------------------------------------------------------------------------
(* Applying a saved difference                                             *)

\* preserveRuntimeIntentForServiceRestart saves the desired state it read, and
\* requestServiceRestart writes the request: nothing here changes by either,
\* also when it fails.
applySavedConfig ==
    LET merged == mergeConfigDiff(pending, pendingDiffForPlatform(DiffValues(base, new)))
        left == IF darwin THEN withoutServiceClass(merged) ELSE merged
        call == CASE activeManualEndpointDiff(left, file) -> "endpoint"
                  [] ~activeManualEndpointDiff(left, file) /\ inventoryOnlyDiff(left, file)
                        -> "inventory"
                  [] OTHER -> "reconcile"
    IN  /\ step = "apply" /\ op \in {"page", "devices"}
        /\ \/ serviceRestartRequired /\ pending' = merged /\ Idle
           \/ /\ ~serviceRestartRequired
              /\ ~diffNeedsRuntimeApply(left)
              /\ pending' = NoDiff /\ Idle
           \/ /\ ~serviceRestartRequired
              /\ diffNeedsRuntimeApply(left)
              /\ \/ pending' = left /\ Idle \* not wanted running, or the file is unreadable
                 \/ /\ desired = "running"
                    /\ inactiveExposureOnlyDiff(left, file)
                    /\ pending' = NoDiff /\ Idle
                 \/ /\ desired = "running"
                    /\ ~inactiveExposureOnlyDiff(left, file)
                    /\ step' = call /\ new' = file /\ kept' = left
                    /\ UNCHANGED <<op, base, pending>>
        /\ UNCHANGED <<fileVars, runtimeVars, saves, edits, darwin>>

\* finishSetupSync after the save: the runner is wanted running; it is started,
\* now or by the service that replaces this one.
applySetup ==
    /\ step = "apply" /\ op = "setup"
    /\ \/ /\ serviceRestartRequired
          /\ desired' = "running"
          /\ pending' = pendingDiffForPlatform(DiffValues(base, new)) /\ Idle
       \/ /\ ~serviceRestartRequired
          /\ step' = "start" /\ UNCHANGED <<desired, pending, op, base, new, kept>>
       \/ /\ desired' \in {desired, "running"} \* unreadable, or a save fails
          /\ Idle /\ UNCHANGED pending
    /\ bypassed' = (active # NoConfig)
    /\ UNCHANGED <<fileVars, active, built, saves, edits, darwin>>

-----------------------------------------------------------------------------
(* What the supervisor does with a configuration                           *)

\* A new generation with configuration c, or none when it fails.
Replace(c) ==
    /\ bypassed' = FALSE
    /\ \/ active' = c /\ built' = c /\ edited' = {k \in edited : c[k] # file[k]}
       \/ active' = NoConfig /\ built' = NoConfig /\ UNCHANGED edited
Succeeded == active' # NoConfig

\* The end of applySavedConfig.
Applied(ok) == pending' = (IF ok THEN NoDiff ELSE kept) /\ Idle

\* The runtime is wanted running: applySavedConfig has checked it, and only an
\* operation changes it.
Reconcile ==
    /\ step = "reconcile" /\ desired = "running"
    /\ Replace(new) /\ Applied(Succeeded)
    /\ UNCHANGED <<file, cfg, topology, desired, saves, edits, darwin>>

\* The executing generation is verified and registered anew and goes on with
\* the new configuration; its components stay.
InPlace ==
    /\ \/ active # NoConfig /\ active' = new /\ Applied(TRUE)
       \/ UNCHANGED active /\ Applied(FALSE)
    /\ UNCHANGED <<fileVars, desired, built, bypassed, saves, edits, darwin>>

ApplyInventory == step = "inventory" /\ InPlace
ApplyEndpoint == step = "endpoint" /\ InPlace

-----------------------------------------------------------------------------
(* Runtime actions                                                         *)

\* submitRuntimeAction, and the start that the application submits at boot.
BeginAction(action) ==
    /\ op = "none"
    /\ op' = action /\ step' = action
    /\ UNCHANGED <<fileVars, runtimeVars, pending, base, new, kept, saves, edits, darwin>>

\* Supervisor.Start of an executing generation does nothing.
Start ==
    /\ step = "start"
    /\ \/ /\ active # NoConfig /\ ~(op = "start" /\ serviceRestartRequired)
          /\ desired' = "running" /\ bypassed' = TRUE
          /\ UNCHANGED <<active, built, edited>>
          /\ pending' = NoDiff
       \/ /\ active = NoConfig /\ ~(op = "start" /\ serviceRestartRequired)
          /\ desired' = "running" /\ Replace(file)
          /\ pending' = IF Succeeded THEN NoDiff ELSE pending
       \/ UNCHANGED <<runtimeVars, edited, pending>> \* refused, or not saved
    /\ Idle
    /\ UNCHANGED <<file, cfg, topology, saves, edits, darwin>>

Restart ==
    /\ step = "restart"
    /\ \/ /\ ~serviceRestartRequired
          /\ desired' = "running" /\ Replace(file)
          /\ pending' = IF Succeeded THEN NoDiff ELSE pending
       \/ UNCHANGED <<runtimeVars, edited, pending>>
    /\ Idle
    /\ UNCHANGED <<file, cfg, topology, saves, edits, darwin>>

Stop ==
    /\ step = "stop" /\ Idle
    /\ desired' = "stopped" /\ active' = NoConfig /\ built' = NoConfig
    /\ bypassed' = FALSE
    /\ UNCHANGED <<fileVars, pending, saves, edits, darwin>>

\* handleGenerationFailure
GenerationFails ==
    /\ active # NoConfig /\ desired' = "running"
    /\ active' = NoConfig /\ built' = NoConfig /\ bypassed' = FALSE
    /\ UNCHANGED <<fileVars, pending, opVars, saves, edits, darwin>>

\* The process is replaced, by a new service or by a restart of the old one;
\* the application submits a start if the runtime is wanted and the service
\* is the right one.
Boot ==
    /\ cfg' = file /\ topology' \in {file["service"]} \cup (IF darwin THEN {} ELSE {topology})
    /\ pending' = NoDiff /\ active' = NoConfig /\ built' = NoConfig /\ bypassed' = FALSE
    /\ IF desired = "running" /\ topology' = file["service"]
       THEN op' = "auto" /\ step' = "start"
       ELSE op' = "none" /\ step' = "none"
    /\ base' = NoConfig /\ new' = NoConfig /\ kept' = NoDiff
    /\ UNCHANGED <<file, edited, desired, saves, edits, darwin>>

Next ==
    \/ saveConfigPageSync \/ saveDevicesConfigSync \/ setDeviceEnabledSync
    \/ deviceRemoveSync \/ finishSetupSync
    \/ Compare \/ Write \/ applySavedConfig \/ applySetup
    \/ Reconcile \/ ApplyInventory \/ ApplyEndpoint
    \/ \E action \in {"start", "stop", "restart"} : BeginAction(action)
    \/ Start \/ Stop \/ Restart
    \/ GenerationFails \/ Boot \/ \E k \in Keys : Edit(k)

Spec == Init /\ [][Next]_vars

-----------------------------------------------------------------------------
(* Properties                                                              *)

\* Well typed; off macOS the pending difference never carries the service
\* class, which is derived from the configuration instead
\* (pendingDiffForPlatform).
TypeOK ==
    /\ darwin \in BOOLEAN /\ bypassed \in BOOLEAN
    /\ file \in Config /\ cfg \in Config /\ topology \in {0, 1} /\ edited \subseteq Keys
    /\ desired \in {"running", "stopped"}
    /\ active \in Config \cup {NoConfig} /\ built \in Config \cup {NoConfig}
    /\ pending \in Diff /\ (darwin \/ "service" \notin pending.classes)
    /\ op \in {"none", "page", "devices", "setup", "start", "stop", "restart", "auto"}
    /\ step \in {"none", "compare", "write", "apply", "reconcile", "inventory", "endpoint",
                 "start", "stop", "restart"}
    /\ base \in Config \cup {NoConfig} /\ new \in Config \cup {NoConfig} /\ kept \in Diff
    /\ saves \in 0 .. MaxSaves /\ edits \in 0 .. MaxEdits

\* A change of k means something to the executing generation.
Matters(k) == Impact[k] # {} /\ ~inactiveExposureKey(k, Mode(active))

\* Nothing saved is silently without effect: whenever no operation runs, a key
\* that the executing generation has another value for is shown as pending,
\* whatever failed, was reverted or was saved on top, and also while a restart
\* of the service is required.  What others edited is not the dashboard's
\* business.
\* The exception: a start or a setup that comes upon an executing generation
\* changes nothing there and clears what is pending all the same.
PendingIsHonest ==
    op = "none" /\ active # NoConfig /\ ~bypassed /\ "mode" \notin edited =>
        \A k \in Keys \ edited :
            Matters(k) /\ active[k] # file[k] =>
                k \in pending.keys /\ Impact[k] \cap pending.classes # {}

\* A change that is applied in place never claims a value that needs new
\* components: what the generation was constructed with and what it goes by
\* differ at most in inventory and endpoints (with the same exception).
InPlaceIsSafe ==
    active # NoConfig /\ ~bypassed =>
        \A k \in {"runtime", "mode"} \cap Keys : k \notin edited => built[k] = active[k]
=============================================================================
