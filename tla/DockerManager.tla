---------------------------- MODULE DockerManager ----------------------------
(***************************************************************************)
(* The Docker-backed service manager (internal/servicemanager/docker.go).  *)
(* Every operation is a command line process of its own: it reads the      *)
(* files of the configuration directory, rewrites service-compose.yaml,    *)
(* drives Docker, and records the image that was applied.  Each Docker     *)
(* call may fail and the process may be killed between two of them; the    *)
(* Dashboard inside the container edits config.toml meanwhile.             *)
(*                                                                         *)
(* Docker Compose is external: `up' pulls the image when the policy says   *)
(* so, keeps a container that still matches its file and its image, and    *)
(* recreates it otherwise, with the file's restart policy.                 *)
(***************************************************************************)
EXTENDS ServiceSpec, Naturals

CONSTANTS Configs,      \* configurations the Dashboard may write
          Images,       \* tags of the runner image, all of one repository
          BootImage,    \* the image used before setup
          AlwaysPull,   \* is android.pull_policy "always"
          MaxEdits,     \* bound on configuration edits
          MaxPushes,    \* bound on new versions in the registry
          MaxOps        \* bound on operations of the manager

ASSUME ManagerAssumption ==
    /\ Configs \subseteq Config /\ \A c \in Configs : c.image \in Images
    /\ BootImage \in Images
    /\ AlwaysPull \in BOOLEAN
    /\ {MaxEdits, MaxPushes, MaxOps} \subseteq Nat

VARIABLES config,     \* config.toml, or NoConfig before setup
          autostart,  \* service-settings.json
          compose,    \* service-compose.yaml, or NoFile
          container,  \* the runner container, or NoContainer
          record,     \* service-image-state.json, or NoRecord
          registry,   \* latest version of every tag in the registry
          local,      \* version of every tag in the local image store
          legacy,     \* a container of the old installer: "none", "ours", "foreign"
          mgr,        \* the manager process
          torn,       \* history: an autostart change was cut short
          bounds      \* operations, edits and pushes so far

vars == <<config, autostart, compose, container, record, registry, local, legacy,
          mgr, torn, bounds>>

files == <<config, autostart, compose, record>>
world == <<registry, local, legacy>>

NoConfig == [image |-> "none"]
NoFile == [image |-> "none"]
NoContainer == [spec |-> NoFile, up |-> FALSE]
NoRecord == [image |-> "none"]
Idle == [op |-> "idle", pc |-> "idle", cfg |-> NoConfig, arg |-> FALSE]

Init ==
    /\ config \in {NoConfig} \union Configs
    /\ autostart = FALSE
    /\ compose = NoFile
    /\ container = NoContainer
    /\ record = NoRecord
    /\ registry = [i \in Images |-> 1]
    /\ local = [i \in Images |-> 0]
    /\ legacy \in {"none", "ours", "foreign"}
    /\ mgr = Idle
    /\ torn = FALSE
    /\ bounds = [ops |-> 0, edits |-> 0, pushes |-> 0]

----------------------------------------------------------------------------
(* The process. *)

At(op, pc) == mgr.op \in op /\ mgr.pc = pc
Goto(pc) == mgr' = [mgr EXCEPT !.pc = pc]
Return(result) == mgr' = [Idle EXCEPT !.pc = result]
Resting == mgr.op = "idle"

Invoke(op, pc, cfg, arg) ==
    /\ Resting
    /\ bounds.ops < MaxOps
    /\ bounds' = [bounds EXCEPT !.ops = @ + 1]
    /\ mgr' = [op |-> op, pc |-> pc, cfg |-> cfg, arg |-> arg]
    /\ UNCHANGED <<files, world, container, torn>>

(* A failing step returns its error and undoes nothing. *)
Fails ==
    /\ mgr.pc \in {"load", "override", "write", "preflight", "stop", "up", "record",
                   "status", "pull", "recreate", "save"}
    /\ Return("failed")
    /\ UNCHANGED <<files, world, container, torn, bounds>>

(* The process is killed. *)
Crash ==
    /\ ~Resting
    /\ torn' = (torn \/ mgr.pc = "update")
    /\ Return("killed")
    /\ UNCHANGED <<files, world, container, bounds>>

----------------------------------------------------------------------------
(* Start: the configuration, or the bootstrap one before setup.  A listen  *)
(* address given on the command line is written back into a config.toml    *)
(* that exists.                                                            *)
Start(listen) == Invoke("start", "load", NoConfig, listen)

LoadConfig ==
    /\ At({"start", "restart"}, "load")
    /\ mgr' = [mgr EXCEPT !.cfg = IF config # NoConfig THEN config
                                  ELSE [Bootstrap(BootImage) EXCEPT
                                            !.listen = IF mgr.arg THEN "flag" ELSE @],
                          !.pc = IF mgr.arg /\ config # NoConfig THEN "override" ELSE "write"]
    /\ UNCHANGED <<files, world, container, torn, bounds>>

OverrideListen ==
    /\ At({"start"}, "override")
    /\ config' = [mgr.cfg EXCEPT !.listen = "flag"]
    /\ mgr' = [mgr EXCEPT !.cfg = config', !.pc = "write"]
    /\ UNCHANGED <<autostart, compose, record, world, container, torn, bounds>>

(* Mutant of WriteServiceCompose: it renders what config.toml says by now. *)
WriteRereads ==
    /\ At({"start", "restart", "apply"}, "write")
    /\ \E here \in SUBSET LocalNames :
          compose' = BuildServiceSpecWithAutostart(IF config = NoConfig THEN mgr.cfg ELSE config,
                         [beforeSetup |-> config = NoConfig,
                          locality |-> ResolveServiceHostContext(mgr.cfg, here)], autostart)
    /\ Goto("preflight")
    /\ UNCHANGED <<config, autostart, record, world, container, torn, bounds>>

(* startWithConfig up to the compose file.  Whether setup has run is asked *)
(* again here: the file may have appeared since the configuration was read.*)
(* Names resolve to what the resolver says at this moment (here: to an     *)
(* address of this host), which may be something else the next time.       *)
WriteServiceCompose ==
    /\ At({"start", "restart", "apply"}, "write")
    /\ \E here \in SUBSET LocalNames :
          compose' = BuildServiceSpecWithAutostart(mgr.cfg,
                         [beforeSetup |-> config = NoConfig,
                          locality |-> ResolveServiceHostContext(mgr.cfg, here)], autostart)
    /\ Goto("preflight")
    /\ UNCHANGED <<config, autostart, record, world, container, torn, bounds>>

(* A legacy container that would take the service's port is retired when   *)
(* it provably belongs to this installation, and stops Start otherwise.    *)
preflightLegacy ==
    /\ At({"start", "restart", "apply"}, "preflight")
    /\ IF legacy = "foreign" THEN Return("failed") ELSE Goto("up")
    /\ legacy' = IF legacy = "ours" THEN "none" ELSE legacy
    /\ UNCHANGED <<files, registry, local, container, torn, bounds>>

(* `docker compose up -d', and `up -d --force-recreate' of an upgrade. *)
ComposeUp(force, upgrade) ==
    LET image == compose.image
        version == IF AlwaysPull \/ local[image] = 0 THEN registry[image] ELSE local[image]
        keep == ~force /\ container.spec = compose /\ container.digest = <<image, version>>
    IN  /\ local' = [local EXCEPT ![image] = version]
        /\ container' = IF keep THEN [container EXCEPT !.up = TRUE]
                        ELSE [spec |-> compose, up |-> TRUE, digest |-> <<image, version>>,
                              restart |-> compose.restart, upgraded |-> upgrade]
        /\ torn' = IF keep THEN torn ELSE FALSE
        /\ UNCHANGED <<files, registry, legacy, bounds>>

Up ==
    /\ At({"start", "restart", "apply"}, "up")
    /\ Goto("record")
    /\ ComposeUp(FALSE, FALSE)

(* The digest recorded is the running container's; the name beside it is   *)
(* the configured one.                                                     *)
recordAppliedImageWithPolicy ==
    /\ mgr.pc = "record"
    /\ container.up
    /\ record' = [image |-> mgr.cfg.image, digest |-> container.digest]
    /\ Return("ok")
    /\ UNCHANGED <<config, autostart, compose, world, container, torn, bounds>>

(* Stop, and the first half of Restart and of RestartWithConfig, which     *)
(* applies the snapshot it was given.                                      *)
Stop == Invoke("stop", "stop", NoConfig, FALSE)
Restart == Invoke("restart", "stop", NoConfig, FALSE)
RestartWithConfig == config # NoConfig /\ Invoke("apply", "stop", config, FALSE)

ComposeStop ==
    /\ At({"stop", "restart", "apply"}, "stop")
    /\ container' = IF compose = NoFile THEN container ELSE [container EXCEPT !.up = FALSE]
    /\ CASE mgr.op = "stop" -> Return("ok")
         [] mgr.op = "restart" -> Goto("load")
         [] mgr.op = "apply" -> Goto("write")
    /\ UNCHANGED <<files, world, torn, bounds>>

----------------------------------------------------------------------------
(* Enable and Disable: the setting first, then the live container, and the *)
(* setting put back when Docker refuses.                                   *)
Enable == Invoke("autostart", "save", NoConfig, TRUE)
Disable == Invoke("autostart", "save", NoConfig, FALSE)

setAutostart ==
    /\ At({"autostart"}, "save")
    /\ autostart' = mgr.arg
    /\ IF compose = NoFile \/ container = NoContainer
       THEN Return("ok")
       ELSE mgr' = [mgr EXCEPT !.pc = "update", !.cfg = autostart]
    /\ UNCHANGED <<config, compose, record, world, container, torn, bounds>>

UpdateRestartPolicy ==
    /\ At({"autostart"}, "update")
    /\ container' = [container EXCEPT !.restart = autostart, !.upgraded = FALSE]
    /\ torn' = FALSE
    /\ Return("ok")
    /\ UNCHANGED <<files, world, bounds>>

(* Mutant of restorePrevious: a refused update leaves the new setting in place. *)
restoreNothing == autostart' = autostart /\ UNCHANGED torn

(* Docker refuses: mgr.cfg holds the previous setting. *)
restorePrevious == autostart' = mgr.cfg /\ UNCHANGED torn

UpdateRefused ==
    /\ At({"autostart"}, "update")
    /\ restorePrevious
    /\ Return("failed")
    /\ UNCHANGED <<config, compose, record, world, container, bounds>>

RestoreFails ==
    /\ At({"autostart"}, "update")
    /\ torn' = TRUE
    /\ Return("failed")
    /\ UNCHANGED <<files, world, container, bounds>>

----------------------------------------------------------------------------
(* UpgradeImage: pulls what the compose file names and recreates a running *)
(* container from that file as it is.                                      *)
UpgradeImage == Invoke("upgrade", "status", NoConfig, FALSE)

UpgradeStatus ==
    /\ At({"upgrade"}, "status")
    /\ IF compose = NoFile \/ config = NoConfig
       THEN Return("failed")
       ELSE mgr' = [mgr EXCEPT !.cfg = config, !.arg = container.up, !.pc = "pull"]
    /\ UNCHANGED <<files, world, container, torn, bounds>>

(* Mutant of Pull: the image is recorded before the container is replaced. *)
PullAndRecord ==
    /\ At({"upgrade"}, "pull")
    /\ local' = [local EXCEPT ![compose.image] = registry[compose.image]]
    /\ record' = [image |-> mgr.cfg.image, digest |-> <<compose.image, local'[compose.image]>>]
    /\ IF mgr.arg THEN Goto("recreate") ELSE Return("ok")
    /\ UNCHANGED <<config, autostart, compose, registry, legacy, container, torn, bounds>>

Pull ==
    /\ At({"upgrade"}, "pull")
    /\ local' = [local EXCEPT ![compose.image] = registry[compose.image]]
    /\ IF mgr.arg THEN Goto("recreate") ELSE Return("ok")
    /\ UNCHANGED <<files, registry, legacy, container, torn, bounds>>

Recreate ==
    /\ At({"upgrade"}, "recreate")
    /\ Goto("record")
    /\ ComposeUp(TRUE, TRUE)

----------------------------------------------------------------------------
(* Status: is a restart of the service required? *)
ServiceRestartRequired ==
    /\ container.up
    /\ config # NoConfig
    /\ ~ServiceConfigCompatibleWithFingerprint(config, container.spec)

(* The service's own label against a snapshot, after RestartWithConfig;    *)
(* locality is what the snapshot's names resolve to.                       *)
ServiceMatchesConfig(c, locality) ==
    /\ container.up
    /\ Fingerprint(container.spec) =
         Fingerprint(BuildServiceSpecWithAutostart(c,
             [beforeSetup |-> config = NoConfig, locality |-> locality], FALSE))

(* maintenance.Checker: no update, going by the record and the registry. *)
ImageIsCurrent ==
    /\ record # NoRecord
    /\ record.digest = <<record.image, registry[record.image]>>

----------------------------------------------------------------------------
(* The world around the manager. *)

EditConfig ==
    /\ bounds.edits < MaxEdits
    /\ bounds' = [bounds EXCEPT !.edits = @ + 1]
    /\ config' \in Configs
    /\ UNCHANGED <<autostart, compose, record, world, container, mgr, torn>>

Push ==
    /\ bounds.pushes < MaxPushes
    /\ bounds' = [bounds EXCEPT !.pushes = @ + 1]
    /\ \E i \in Images : registry' = [registry EXCEPT ![i] = @ + 1]
    /\ UNCHANGED <<files, local, legacy, container, mgr, torn>>

(* The host restarts: Docker starts again what its policy says. *)
Reboot ==
    /\ Resting
    /\ container.up
    /\ container' = [container EXCEPT !.up = container.restart]
    /\ UNCHANGED <<files, world, mgr, torn, bounds>>

Next ==
    \/ \E listen \in BOOLEAN : Start(listen)
    \/ Stop \/ Restart \/ RestartWithConfig \/ Enable \/ Disable \/ UpgradeImage
    \/ LoadConfig \/ OverrideListen \/ WriteServiceCompose \/ preflightLegacy \/ Up
    \/ recordAppliedImageWithPolicy \/ ComposeStop
    \/ setAutostart \/ UpdateRestartPolicy \/ UpdateRefused \/ RestoreFails
    \/ UpgradeStatus \/ Pull \/ Recreate
    \/ Fails \/ Crash
    \/ EditConfig \/ Push \/ Reboot

Spec == Init /\ [][Next]_vars

----------------------------------------------------------------------------
(* Properties. *)

(* The service the saved configuration asks for, by the answers for names  *)
(* that the running one was applied with; other names resolve as in here.  *)
Wanted(here) ==
    BuildServiceSpecWithAutostart(config,
        [beforeSetup |-> FALSE, locality |-> AnswersFor(config, container.spec, here)], autostart)

(* Compatible is sufficient: while Status asks for no restart, the running *)
(* container has everything the saved configuration asks of a service: the *)
(* same network, ports and image, no fewer devices, known-hosts mounts and *)
(* host names, however the configuration was edited since the service was  *)
(* applied, and the same Android mount, unless the emulator or the last    *)
(* ADB device was removed since (see CompatibleMountIsEqual).  A name that *)
(* resolves differently by now goes unnoticed: the test compares with the  *)
(* answers the service was applied with.                                   *)
CompatibleIsSufficient ==
    container.up /\ config # NoConfig /\ ~ServiceRestartRequired =>
        \A here \in SUBSET LocalNames :
            /\ Provides(container.spec, Wanted(here))
            /\ \/ MountsEqual(container.spec, Wanted(here))
               \/ AndroidInExcess(container.spec, Wanted(here))

(* The same of the mount without the exception: "Extra USB, ADB, or KVM    *)
(* capability is a safe superset; all other service topology fields must   *)
(* remain equal."  Removing the emulator from a configuration with ADB     *)
(* keys breaks it: the keys are to be mounted then, and are not.           *)
CompatibleMountIsEqual ==
    container.up /\ config # NoConfig /\ ~ServiceRestartRequired
        => \A here \in SUBSET LocalNames : MountsEqual(container.spec, Wanted(here))

(* The autostart setting is what Docker will do: at rest, after any mix of *)
(* starts, restarts, enables, disables, refused updates and kills, the     *)
(* container's restart policy is the saved setting, unless an autostart    *)
(* change was itself cut short, or an image upgrade recreated the          *)
(* container (see ReportedAutostartIsReal).                                *)
BootFollowsSetting ==
    Resting /\ ~torn /\ container # NoContainer /\ ~container.upgraded
        => container.restart = autostart

(* The same without the exception for upgrades: Status reports the setting *)
(* as the service's autostart.  UpgradeImage breaks it: it recreates the   *)
(* container from a compose file that Enable and Disable never rewrite.    *)
ReportedAutostartIsReal ==
    Resting /\ ~torn /\ container # NoContainer => container.restart = autostart

(* Current is current: when the update check finds no newer image for the  *)
(* tag the container was created from, the container runs the newest one,  *)
(* whatever was pushed, and wherever a start or an upgrade was killed      *)
(* between the recreation and its record.                                  *)
CurrentIsCurrent ==
    container.up /\ ImageIsCurrent /\ record.image = container.spec.image
        => container.digest = record.digest

(* A restart that was bound to a verified snapshot applies that snapshot:  *)
(* when it comes to record its image, the running service matches the      *)
(* snapshot and not what config.toml says by then, going by the names as   *)
(* they resolved when the service was rendered.                            *)
SnapshotIsApplied ==
    At({"apply"}, "record") => ServiceMatchesConfig(mgr.cfg, container.spec.locality)

=============================================================================
