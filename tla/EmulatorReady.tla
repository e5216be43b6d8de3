---------------------------- MODULE EmulatorReady ----------------------------
(***************************************************************************)
(* Provisioning Android (internal/androidtools) and the dashboard's        *)
(* download of emulator assets (internal/dashboard/server.go).             *)
(*                                                                         *)
(* One gate runs at a time, inside an operation of the coordinator: the    *)
(* activation of a generation, which must also reach the phones, or the    *)
(* save of a candidate configuration.  The dashboard's download handler    *)
(* runs beside it.  Archives are extracted in place, so a download that is *)
(* cancelled, times out or ends with the process leaves a part of them.    *)
(* sdkmanager, avdmanager and adb are external: sdkmanager installs each   *)
(* package atomically, and avdmanager may be killed while it writes an AVD. *)
(***************************************************************************)
CONSTANTS
    Names,          \* names of Android virtual devices
    Shipped,        \* the name in the base archive
    Leaves,         \* names of golden images
    ShippedLeaf,    \* the name in the golden archive
    ShippedImage,   \* the system image the AVD of the base archive declares
    Phones,
    Inventories,    \* the configurations a gate may be asked about
    None

VARIABLES
    tools,          \* the command-line tools: absent, partial or whole
    packages,       \* the installed SDK packages
    avd,            \* the directory, .ini and declared image of each AVD
    golden,         \* the content of each golden directory
    host,           \* what the host offers: kvm, licenses
    gate,           \* the gate
    download,       \* the download handler
    writing,        \* the archive the gate, and the handler, is extracting
    phone,          \* what adb says of each phone
    lost,           \* phones that went away since the gate began to ask for them
    cut             \* archives, and "avd", of which the writing stopped half-way

vars == <<tools, packages, avd, golden, host, gate, download, writing, phone, lost, cut>>
disk == <<tools, packages, avd, golden>>

NoAVD == [dir |-> "absent", ini |-> FALSE, image |-> None]
AVDOf(image) == [dir |-> "whole", ini |-> TRUE, image |-> image]
Idle == [at |-> "idle"]
PlatformTools == "platform-tools"
Emulator == "emulator"

Init ==
    /\ tools \in {"absent", "whole"}
    /\ packages = {}
    /\ avd \in {[n \in Names |-> NoAVD], [n \in Names |-> AVDOf(ShippedImage)]}
    /\ golden = [l \in Leaves |-> "absent"]
    /\ host \in [kvm : BOOLEAN, licenses : BOOLEAN]
    /\ gate = Idle
    /\ download = Idle
    /\ writing = [w \in {"gate", "handler"} |-> None]
    /\ phone = [p \in Phones |-> "offline"]
    /\ lost = {}
    /\ cut = {}

-----------------------------------------------------------------------------
(* Archives, extracted in place by the gate and by the download handler.   *)

\* What writes an AVD: the base archive, or avdmanager.
AVDWriter(n) == IF n = Shipped THEN "base" ELSE "avd"

AVDAssetsExist(n) == avd[n].dir # "absent" /\ avd[n].ini
GoldenAssetsExist(l) == golden[l] # "absent"

\* An archive is opened, and from then on files of it appear.
BeginExtract(w, a) == writing' = [writing EXCEPT ![w] = a]

\* An entry is created or truncated.  The order of the entries is not known.
Unpack(a) ==
    \/ /\ a = "tools"
       /\ tools' = "partial"
       /\ UNCHANGED <<avd, golden>>
    \/ /\ a = "base"
       /\ \E ini \in {TRUE, avd[Shipped].ini}, image \in {None, ShippedImage} :
             avd' = [avd EXCEPT ![Shipped] = [dir |-> "partial", ini |-> ini, image |-> image]]
       /\ UNCHANGED <<tools, golden>>
    \/ /\ a = "golden"
       /\ golden' = [golden EXCEPT ![ShippedLeaf] = "partial"]
       /\ UNCHANGED <<tools, avd>>

\* The last entry has been written; another writer may have truncated some.
Unpacked(w) ==
    LET a == writing[w]
        alone == \A v \in DOMAIN writing \ {w} : writing[v] # a
        content == IF alone THEN "whole" ELSE "partial"
    IN
    /\ writing' = [writing EXCEPT ![w] = None]
    /\ tools' = IF a = "tools" THEN content ELSE tools
    /\ avd' = IF a = "base"
              THEN [avd EXCEPT ![Shipped] = [AVDOf(ShippedImage) EXCEPT !.dir = content]] ELSE avd
    /\ golden' = IF a = "golden" THEN [golden EXCEPT ![ShippedLeaf] = content] ELSE golden

\* DownloadAndExtractTarball and downloadCommandLineTools, between the first
\* entry and the last.
Extract ==
    /\ \E w \in DOMAIN writing : writing[w] # None /\ Unpack(writing[w])
    /\ UNCHANGED <<packages, host, gate, download, writing, phone, lost, cut>>

\* The extractions of the writers W stop where they are.
Stopped(W) ==
    /\ cut' = cut \cup ({writing[w] : w \in W} \ {None})
    /\ writing' = [w \in DOMAIN writing |-> IF w \in W THEN None ELSE writing[w]]

-----------------------------------------------------------------------------
(* The gate: EnsureEmulatorReady for an activation, PrepareEmulatorReady    *)
(* for the save of a candidate.                                             *)

At(at) == gate.at = at /\ writing["gate"] = None
Goto(at) == gate' = [gate EXCEPT !.at = at]
Emu == gate.inventory.emulator
hasEnabledEmulator == Emu # None

Begin ==
    /\ gate.at = "idle"
    /\ \E inventory \in Inventories, active \in BOOLEAN :
          gate' = [at |-> "sdk", inventory |-> inventory, active |-> active, image |-> None]
    /\ UNCHANGED <<disk, host, download, writing, phone, lost, cut>>

\* An error of any step, a cancelled context or its timeout.
Fail ==
    /\ gate.at # "idle"
    /\ gate' = Idle
    /\ lost' = {}
    /\ Stopped({"gate"})
    /\ UNCHANGED <<disk, host, download, phone>>

\* ensureSDKManager: without an sdkmanager the command-line tools are
\* downloaded; any file of that name counts.
ensureSDKManager ==
    /\ At("sdk") \/ At("image")
    /\ tools = "absent"
    /\ BeginExtract("gate", "tools")
    /\ UNCHANGED <<disk, host, gate, download, phone, lost, cut>>

\* The packages an inventory needs: requiredCapabilities before the AVD is
\* known, and the image the AVD declares after that.
Required ==
    {PlatformTools} \cup
    IF hasEnabledEmulator THEN {Emulator, IF gate.at = "image" THEN gate.image ELSE Emu.image} ELSE {}

requiredCapabilities == hasEnabledEmulator \/ gate.inventory.phones # {}

AfterPackages ==
    IF gate.at = "image" THEN "golden"
    ELSE IF hasEnabledEmulator THEN "avd"
    ELSE "connect"

\* Nothing of Android is configured.
NothingRequired ==
    /\ At("sdk")
    /\ ~requiredCapabilities
    /\ Goto("connect")
    /\ UNCHANGED <<disk, host, download, writing, phone, lost, cut>>

\* EnsureCapabilitiesWithRunner installs what is missing.  A broken
\* sdkmanager, and one without accepted licenses, installs nothing.
EnsureCapabilitiesWithRunner ==
    /\ At("sdk") \/ At("image")
    /\ requiredCapabilities
    /\ tools # "absent"
    /\ \/ Required \subseteq packages
       \/ tools = "whole" /\ host.licenses
    /\ packages' = packages \cup Required
    /\ Goto(AfterPackages)
    /\ UNCHANGED <<tools, avd, golden, host, download, writing, phone, lost, cut>>

\* sdkmanager fails after it has installed some of them.
PackagesFail ==
    /\ At("sdk") \/ At("image")
    /\ requiredCapabilities
    /\ tools = "whole" /\ host.licenses
    /\ \E some \in SUBSET Required : packages' = packages \cup some
    /\ gate' = Idle
    /\ lost' = {}
    /\ UNCHANGED <<tools, avd, golden, host, download, writing, phone, cut>>

\* The base archive is downloaded when the AVD is not there.
PrepareAVD ==
    /\ At("avd")
    /\ ~AVDAssetsExist(Emu.name)
    /\ BeginExtract("gate", "base")
    /\ Goto("create")
    /\ UNCHANGED <<disk, host, download, phone, lost, cut>>

AVDPresent ==
    /\ At("avd") \/ At("create")
    /\ AVDAssetsExist(Emu.name)
    /\ Goto("read")
    /\ UNCHANGED <<disk, host, download, writing, phone, lost, cut>>

\* EnsureAVD: an AVD that was not in the archive is created for the
\* configured system image.
EnsureAVD ==
    /\ At("create")
    /\ ~AVDAssetsExist(Emu.name)
    /\ Emu.image # None
    /\ avd' = [avd EXCEPT ![Emu.name] = AVDOf(Emu.image)]
    /\ Goto("read")
    /\ UNCHANGED <<tools, packages, golden, host, download, writing, phone, lost, cut>>

\* Its context or the process ends while avdmanager writes the AVD.
EnsureAVDStops ==
    /\ At("create")
    /\ ~AVDAssetsExist(Emu.name)
    /\ Emu.image # None
    /\ \E ini \in {TRUE, avd[Emu.name].ini}, image \in {None, Emu.image} :
          avd' = [avd EXCEPT ![Emu.name] = [dir |-> "partial", ini |-> ini, image |-> image]]
    /\ gate' = Idle
    /\ lost' = {}
    /\ cut' = cut \cup {"avd"}
    /\ UNCHANGED <<tools, packages, golden, host, download, writing, phone>>

\* Mutant: the configured image is provisioned instead of the declared one.
configuredSystemImage ==
    /\ At("read")
    /\ AVDAssetsExist(Emu.name)
    /\ avd[Emu.name].image # None
    /\ gate' = [gate EXCEPT !.at = "image", !.image = Emu.image]
    /\ UNCHANGED <<disk, host, download, writing, phone, lost, cut>>

\* The AVD must declare an image; its declaration is authoritative.
avdSystemImage ==
    /\ At("read")
    /\ AVDAssetsExist(Emu.name)
    /\ avd[Emu.name].image # None
    /\ gate' = [gate EXCEPT !.at = "image", !.image = avd[Emu.name].image]
    /\ UNCHANGED <<disk, host, download, writing, phone, lost, cut>>

PrepareGolden ==
    /\ At("golden")
    /\ ~GoldenAssetsExist(Emu.leaf)
    /\ BeginExtract("gate", "golden")
    /\ Goto("goldenCheck")
    /\ UNCHANGED <<disk, host, download, phone, lost, cut>>

\* Mutant: the archive is trusted to contain the configured golden image.
GoldenTrusted ==
    /\ \/ At("golden") /\ GoldenAssetsExist(Emu.leaf)
       \/ At("goldenCheck")
    /\ Goto("verify")
    /\ UNCHANGED <<disk, host, download, writing, phone, lost, cut>>

GoldenPresent ==
    /\ At("golden") \/ At("goldenCheck")
    /\ GoldenAssetsExist(Emu.leaf)
    /\ Goto("verify")
    /\ UNCHANGED <<disk, host, download, writing, phone, lost, cut>>

verifyPreparedCapabilities ==
    /\ {Emulator, PlatformTools, gate.image} \subseteq packages
    /\ host.licenses

verifyRuntimeCapabilities ==
    /\ At("verify")
    /\ verifyPreparedCapabilities
    /\ gate.active => host.kvm
    /\ Goto("connect")
    /\ UNCHANGED <<disk, host, download, writing, phone, lost, cut>>

\* ConnectConfiguredWiFiDevices: adb connect may succeed without a device.
\* Only an activation goes on to the phones.
ConnectConfiguredWiFiDevices ==
    /\ At("connect")
    /\ gate.active
    /\ phone' \in {[p \in Phones |-> IF p \in reached THEN "device" ELSE phone[p]] :
                     reached \in SUBSET gate.inventory.phones}
    /\ Goto("state")
    /\ UNCHANGED <<disk, host, download, writing, lost, cut>>

\* ValidateConfiguredPhysicalDevices asks adb for the state of one phone after
\* the other; one that has left since may have answered before.
ValidateConfiguredPhysicalDevices ==
    /\ At("state")
    /\ \A p \in gate.inventory.phones : phone[p] = "device" \/ p \in lost
    /\ Goto("ready")
    /\ UNCHANGED <<disk, host, download, writing, phone, lost, cut>>

Prepared ==
    /\ At("connect")
    /\ ~gate.active
    /\ Goto("ready")
    /\ UNCHANGED <<disk, host, download, writing, phone, lost, cut>>

\* The gate returns nil.
Return ==
    /\ At("ready")
    /\ gate' = Idle
    /\ lost' = {}
    /\ UNCHANGED <<disk, host, download, writing, phone, cut>>

GateExtracted ==
    /\ writing["gate"] # None
    /\ Unpacked("gate")
    /\ UNCHANGED <<packages, host, gate, download, phone, lost, cut>>

-----------------------------------------------------------------------------
(* The dashboard's handlers.                                                *)

\* androidEmulatorAssetsDownload, for an AVD and a golden image.
androidEmulatorAssetsDownload ==
    /\ download.at = "idle"
    /\ \E n \in Names, l \in Leaves : download' = [at |-> "base", name |-> n, leaf |-> l]
    /\ UNCHANGED <<disk, host, gate, writing, phone, lost, cut>>

\* Each archive is extracted unless what is wanted of it is there already.
DownloadStep(a, present, next) ==
    /\ download.at = a
    /\ writing["handler"] = None
    /\ IF present THEN UNCHANGED writing ELSE BeginExtract("handler", a)
    /\ download' = [download EXCEPT !.at = next]
    /\ UNCHANGED <<disk, host, gate, phone, lost, cut>>

DownloadBase == DownloadStep("base", AVDAssetsExist(download.name), "golden")
DownloadGolden == DownloadStep("golden", GoldenAssetsExist(download.leaf), "complete")

DownloadComplete ==
    /\ download.at = "complete"
    /\ writing["handler"] = None
    /\ download' = Idle
    /\ UNCHANGED <<disk, host, gate, writing, phone, lost, cut>>

HandlerExtracted ==
    /\ writing["handler"] # None
    /\ Unpacked("handler")
    /\ UNCHANGED <<packages, host, gate, download, phone, lost, cut>>

DownloadFails ==
    /\ download.at # "idle"
    /\ download' = Idle
    /\ Stopped({"handler"})
    /\ UNCHANGED <<disk, host, gate, phone, lost>>

\* deviceConnect and deviceReconnect.
deviceConnect(p) ==
    /\ phone' = [phone EXCEPT ![p] = "device"]
    /\ UNCHANGED <<disk, host, gate, download, writing, lost, cut>>

\* deviceDisconnect, or the phone leaves.
deviceDisconnect(p) ==
    /\ phone[p] = "device"
    /\ phone' = [phone EXCEPT ![p] = "offline"]
    /\ lost' = IF gate.at \in {"state", "ready"} THEN lost \cup {p} ELSE lost
    /\ UNCHANGED <<disk, host, gate, download, writing, cut>>

\* The process ends; what has been extracted stays.
Crash ==
    /\ gate.at # "idle" \/ download.at # "idle"
    /\ gate' = Idle
    /\ download' = Idle
    /\ lost' = {}
    /\ Stopped({"gate", "handler"})
    /\ UNCHANGED <<disk, host, phone>>

Gate ==
    \/ Begin
    \/ Fail
    \/ ensureSDKManager
    \/ NothingRequired
    \/ EnsureCapabilitiesWithRunner
    \/ PackagesFail
    \/ PrepareAVD
    \/ AVDPresent
    \/ EnsureAVD
    \/ EnsureAVDStops
    \/ avdSystemImage
    \/ PrepareGolden
    \/ GoldenPresent
    \/ verifyRuntimeCapabilities
    \/ ConnectConfiguredWiFiDevices
    \/ ValidateConfiguredPhysicalDevices
    \/ Prepared
    \/ Return
    \/ GateExtracted

Handlers ==
    \/ androidEmulatorAssetsDownload
    \/ DownloadBase
    \/ DownloadGolden
    \/ DownloadComplete
    \/ HandlerExtracted
    \/ DownloadFails
    \/ \E p \in Phones : deviceConnect(p) \/ deviceDisconnect(p)

Next == Gate \/ Handlers \/ Extract \/ Crash

-----------------------------------------------------------------------------
(* When the gate returns nil, the emulator, the platform tools and the     *)
(* system image the AVD itself declares are installed, an activation has   *)
(* the host's /dev/kvm, and every phone answered adb when it was asked:    *)
(* also when the AVD came from an archive or an earlier configuration      *)
(* whose image is not the configured one.                                  *)
GateIsReady ==
    gate.at = "ready" =>
        /\ hasEnabledEmulator =>
              /\ {Emulator, PlatformTools} \subseteq packages
              /\ avd[Emu.name].image \in packages \cup {None}
              /\ gate.active => host.kvm
        /\ gate.active =>
              \A p \in gate.inventory.phones : phone[p] = "device" \/ p \in lost

(* When the gate returns nil, the AVD and the golden image are complete    *)
(* unless the extraction of their archive, or avdmanager for an AVD of the *)
(* operator's own, stopped half-way before, or the download handler is     *)
(* rewriting them.                                                         *)
UnusableWasCut ==
    gate.at = "ready" /\ hasEnabledEmulator =>
        /\ avd[Emu.name].dir = "whole" \/ AVDWriter(Emu.name) \in cut \cup {writing["handler"]}
        /\ golden[Emu.leaf] = "whole" \/ "golden" \in cut \cup {writing["handler"]}

(* What emulator_ready.go says of the gate: "returns only after the        *)
(* executable, SDK packages, AVD, golden assets, and active runtime        *)
(* capabilities are usable".                                               *)
GateMeansUsable ==
    gate.at = "ready" /\ hasEnabledEmulator /\ writing["handler"] = None =>
        avd[Emu.name].dir = "whole" /\ golden[Emu.leaf] = "whole"
=============================================================================
