---------------------------- MODULE DeviceWork -----------------------------
(***************************************************************************)
(* A device's work side by side: installers, artifacts and provisioning    *)
(* share no state, so a behaviour is about one of them, which focus names. *)
(***************************************************************************)
CONSTANTS
    Fetches, Installers, Zipped,
    Stores, Runs, Files, Images, Above, Dir, Root, maxMaestroScreenshots,
    Names, Shipped, Leaves, ShippedLeaf, ShippedImage, Phones, Inventories, None

ASSUME InstallersAssumption == Installers # {}

\* Directories form a tree: what lies in the directory of g lies in every
\* directory that g lies in.
ASSUME TreeAssumption ==
    \A f, g \in Files : Dir[g] \in Above[f] => Above[g] \subseteq Above[f]

\* None names no archive, and a configuration names known AVDs, golden images
\* and phones.
ASSUME AssetsAssumption ==
    /\ None \notin {"tools", "base", "golden", "avd"}
    /\ Shipped \in Names
    /\ ShippedLeaf \in Leaves
    /\ \A v \in Inventories :
          /\ v.phones \subseteq Phones
          /\ v.emulator # None => v.emulator.name \in Names /\ v.emulator.leaf \in Leaves

VARIABLES
    focus,
    cache, app, marker, fetch, installerCut, shared,
    written, disk, upstream, store,
    tools, packages, avd, golden, host, gate, download, writing, phone, lost, cut

Cache == INSTANCE InstallerCache WITH cut <- installerCut
Store == INSTANCE ArtifactStore
Assets == INSTANCE EmulatorReady

cacheVars == <<cache, app, marker, fetch, installerCut, shared>>
storeVars == <<written, disk, upstream, store>>
assetVars == <<tools, packages, avd, golden, host, gate, download, writing, phone, lost, cut>>

Init ==
    /\ focus \in {"installers", "artifacts", "provisioning"}
    /\ Cache!Init
    /\ Store!Init
    /\ Assets!Init
    /\ focus # "provisioning" => /\ tools = "whole"
                                 /\ avd = [n \in Names |-> Assets!NoAVD]
                                 /\ host = [kvm |-> TRUE, licenses |-> TRUE]

Next ==
    /\ UNCHANGED focus
    /\ \/ /\ focus = "installers"
          /\ UNCHANGED <<storeVars, assetVars>>
          /\ Cache!Next
       \/ /\ focus = "artifacts"
          /\ UNCHANGED <<cacheVars, assetVars>>
          /\ Store!Next
       \/ /\ focus = "provisioning"
          /\ UNCHANGED <<cacheVars, storeVars>>
          /\ Assets!Next

Spec == Init /\ [][Next]_<<focus, cacheVars, storeVars, assetVars>>

\* A fetch answers the path of a complete installer (InstallerCache).
ReturnedIsWhole == Cache!ReturnedIsWhole

\* A written file exists until it has been stored (ArtifactStore).
NothingIsLost == Store!NothingIsLost

\* What an emulator and the phones need is there when the gate returns nil
\* (EmulatorReady).
GateIsReady == Assets!GateIsReady

\* Incomplete assets behind a nil are the remains of an extraction, or of an
\* avdmanager, that was cut short (EmulatorReady).
UnusableWasCut == Assets!UnusableWasCut

\* The gate returns nil only when the assets are complete (EmulatorReady).
GateMeansUsable == Assets!GateMeansUsable
=============================================================================
