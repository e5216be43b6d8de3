----------------------------- MODULE ServiceHost -----------------------------
(***************************************************************************)
(* The service manager on both platforms (factory_darwin.go and            *)
(* factory_other.go choose one at build time): the Docker manager on       *)
(* Linux, and the launchd manager with upgrade-binary on macOS.            *)
(***************************************************************************)
EXTENDS DockerManager

CONSTANTS MaxTokens, MaxReleases

VARIABLES platform, loaded, persistent, transient, ops,
          lock, meta, proc, tokens, binary, latest, up

Mac == INSTANCE HostUpgrade

macOnly == <<loaded, persistent, transient, ops, lock, meta, proc, tokens, binary, latest, up>>
linuxOnly == <<config, compose, container, record, registry, local, legacy, bounds>>
hostVars == <<platform, macOnly, vars>>

HostInit ==
    \/ /\ platform = "linux"
       /\ Init
       /\ loaded = FALSE /\ persistent = FALSE /\ transient = FALSE /\ ops = 0
       /\ Mac!Lease!Init
       /\ binary = 1 /\ latest = 1 /\ up = Mac!NoUpgrade
    \/ /\ platform = "darwin"
       /\ Mac!HostInit
       /\ config = NoConfig /\ compose = NoFile /\ container = NoContainer
       /\ record = NoRecord /\ legacy = "none"
       /\ registry = [i \in Images |-> 1] /\ local = [i \in Images |-> 0]
       /\ bounds = [ops |-> 0, edits |-> 0, pushes |-> 0]

HostNext ==
    /\ UNCHANGED platform
    /\ \/ platform = "linux" /\ UNCHANGED macOnly /\ Next
       \/ platform = "darwin" /\ UNCHANGED linuxOnly /\ Mac!HostNext

HostSpec == HostInit /\ [][HostNext]_hostVars

(* On either platform the autostart setting is what the next boot or login *)
(* does: docker.go keeps the container's restart policy in step with it,   *)
(* launchd_darwin.go the plist in LaunchAgents.                            *)
AutostartIsKept == IF platform = "linux" THEN BootFollowsSetting ELSE Mac!LoginFollowsSetting

(* upgrade-binary never leaves a broken executable (HostUpgrade). *)
ExecutableIsWhole == Mac!ExecutableIsWhole

(* An upgrade-binary that reports success is in service (HostUpgrade). *)
UpgradeIsServed == Mac!UpgradeIsServed

(* A serving controller can be found by its metadata (ControllerLease). *)
ServingIsFindable == Mac!ServingIsFindable

=============================================================================
