----------------------------- MODULE ServiceSpec -----------------------------
(***************************************************************************)
(* The pure part of internal/servicemanager: what service a configuration  *)
(* asks for, what is remembered of the service that was applied, and when  *)
(* an applied service is good enough for another configuration.            *)
(*                                                                         *)
(* A configuration is reduced to what selects the topology: the kinds of   *)
(* its enabled devices, the Docker network, the host names of its startup  *)
(* dependencies, the exposure, the listeners, the image and the ADB keys.  *)
(* A fingerprint is modelled by the projection it hashes.                  *)
(***************************************************************************)
EXTENDS FiniteSets

CONSTANTS Names,       \* host names a configuration may depend on
          LocalNames,  \* those that may resolve to an address of this host
          HasKVM       \* does the host have /dev/kvm

ASSUME NamesAssumption == LocalNames \subseteq Names /\ HasKVM \in BOOLEAN

Kinds == {"usb", "wifi", "emulator", "redroid"}

Config == [devices : SUBSET Kinds, network : {"bridge", "host", "custom"},
           names : SUBSET Names, manual : BOOLEAN, public : Names,
           listen : {"default", "flag"}, image : STRING, keys : BOOLEAN]

(* What Start assumes before setup wrote a configuration. *)
Bootstrap(image) ==
    [devices |-> {}, network |-> "bridge", names |-> {}, manual |-> FALSE,
     public |-> "localhost", listen |-> "default", image |-> image, keys |-> FALSE]

----------------------------------------------------------------------------
(* Host names.  "localhost" is always local and is never looked up; the    *)
(* answer for another name is known only to the process that resolved it,  *)
(* when the names in here had an address of this host.                     *)

serviceDependencyHostnames(c) ==
    c.names \union (IF c.manual THEN {c.public} ELSE {})

ResolveServiceHostContext(c, here) ==
    [n \in serviceDependencyHostnames(c) \ {"localhost"} |-> n \in here]

hostNameLocality(n, locality) ==
    CASE n = "localhost" -> "local"
      [] n \in DOMAIN locality -> IF locality[n] THEN "local" ELSE "remote"
      [] OTHER -> "unknown"

(* Mutant: a name that was never resolved is taken for a remote one. *)
LocalityUnknownIsRemote(c, locality) == FALSE

ServiceHostLocalityUnknown(c, locality) ==
    \E n \in serviceDependencyHostnames(c) : hostNameLocality(n, locality) = "unknown"

hostLocalDependencies(c, locality) ==
    \E n \in serviceDependencyHostnames(c) : hostNameLocality(n, locality) = "local"

----------------------------------------------------------------------------
(* Topology.  A host is what the decision reads of it: whether setup has   *)
(* run, and the localities that were resolved.                             *)

ServiceNetworkModeForConfig(c, host) ==
    IF \/ c.network = "host"
       \/ host.beforeSetup
       \/ "usb" \in c.devices
       \/ hostLocalDependencies(c, host.locality)
    THEN "host" ELSE "bridge"

serviceAPIPublishHost(c, host) ==
    IF ServiceNetworkModeForConfig(c, host) = "host" THEN "none"
    ELSE IF c.manual THEN "public" ELSE "loopback"

KnownHosts(c) == c.devices \intersect {"redroid"}

ServiceCapabilitiesForConfig(c) ==
    [adb |-> c.devices \intersect {"usb", "wifi"} # {}, usb |-> "usb" \in c.devices,
     emulator |-> "emulator" \in c.devices, knownHosts |-> KnownHosts(c)]

serviceConfigProjectionForHost(c, configured, host) ==
    LET mode == ServiceNetworkModeForConfig(c, host)
        caps == ServiceCapabilitiesForConfig(c)
    IN  [configured |-> configured, mode |-> mode,
         api |-> serviceAPIPublishHost(c, host), listen |-> c.listen,
         image |-> c.image, network |-> c.network, keys |-> c.keys,
         caps |-> [caps EXCEPT !.adb = @ \/ ~configured]]

(* The service itself, with what it exports of its own origin: the applied *)
(* fingerprint and the applied capabilities.                               *)
BuildServiceSpecWithAutostart(c, host, autostart) ==
    LET mode == ServiceNetworkModeForConfig(c, host)
        caps == ServiceCapabilitiesForConfig(c)
        adb  == caps.adb \/ host.beforeSetup
    IN  [image |-> c.image, restart |-> autostart, mode |-> mode,
         networks |-> IF c.network = "custom" THEN {"custom"} ELSE {},
         ports |-> IF mode = "host" THEN {}
                   ELSE {<<"dashboard", c.listen>>, <<"api", serviceAPIPublishHost(c, host)>>},
         devices |-> (IF caps.usb THEN {"usb"} ELSE {}) \union
                     (IF caps.emulator /\ HasKVM THEN {"kvm"} ELSE {}),
         knownHosts |-> KnownHosts(c),
         androidMount |-> IF c.keys /\ ~caps.emulator /\ caps.adb THEN "keys" ELSE "android",
         extraHosts |-> {n \in DOMAIN host.locality \cap serviceDependencyHostnames(c) : host.locality[n]},
         adbSocket |-> IF ~adb THEN "none" ELSE IF mode = "host" THEN "loopback" ELSE "gateway",
         applied |-> serviceConfigProjectionForHost(c, ~host.beforeSetup, host),
         caps |-> [caps EXCEPT !.adb = adb],
         locality |-> host.locality]

(* The restart policy and the record of the resolved names are not part of *)
(* the label by which two services are told apart.                         *)
Fingerprint(spec) == [spec EXCEPT !.restart = FALSE, !.locality = <<>>]

----------------------------------------------------------------------------
(* Can the service that exported spec serve the configuration c?  Extra    *)
(* USB, ADB, KVM and known-hosts capability is a safe superset.            *)
ServiceConfigCompatibleWithFingerprint(c, spec) ==
    LET host == [beforeSetup |-> FALSE, locality |-> spec.locality]
        want == serviceConfigProjectionForHost(c, TRUE, host)
    IN  /\ ~ServiceHostLocalityUnknown(c, spec.locality)
        /\ want.mode = spec.mode
        /\ want.caps.knownHosts \subseteq spec.caps.knownHosts
        /\ spec.applied =
             [want EXCEPT !.caps = [adb |-> @.adb \/ spec.caps.adb,
                                    usb |-> @.usb \/ spec.caps.usb,
                                    emulator |-> @.emulator \/ spec.caps.emulator,
                                    knownHosts |-> spec.caps.knownHosts]]

(* The answers by which a service is to be judged for c: those it was      *)
(* applied with, and today's for a name it was not applied with.           *)
AnswersFor(c, spec, here) ==
    LET today == ResolveServiceHostContext(c, here)
    IN  [n \in DOMAIN today |-> IF n \in DOMAIN spec.locality THEN spec.locality[n] ELSE today[n]]

(* What a service must have for the configuration it is asked to serve:    *)
(* the same network, published ports and image, and at least the devices,  *)
(* known-hosts mounts, host names and ADB socket;                          *)
Provides(spec, want) ==
    /\ <<spec.mode, spec.networks, spec.ports, spec.image>>
         = <<want.mode, want.networks, want.ports, want.image>>
    /\ want.devices \subseteq spec.devices
    /\ want.knownHosts \subseteq spec.knownHosts
    /\ want.extraHosts \subseteq spec.extraHosts
    /\ want.adbSocket \in {"none", spec.adbSocket}

(* and the same directory mounted for Android.                             *)
MountsEqual(spec, want) == spec.androidMount = want.androidMount

(* The emulator, or the last ADB device, was removed since: the service    *)
(* has the capability in excess, which the compatibility test waves        *)
(* through although it decides what is mounted on the Android directory.   *)
AndroidInExcess(spec, want) ==
    \/ spec.caps.emulator /\ ~want.caps.emulator
    \/ spec.caps.adb /\ ~want.caps.adb

=============================================================================
