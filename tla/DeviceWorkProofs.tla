-------------------------- MODULE DeviceWorkProofs ---------------------------
(***************************************************************************)
(* Proofs about a device's work, for any numbers of requests, installers,  *)
(* runs, files, virtual devices and phones.  Each part has an inductive    *)
(* invariant of its own.                                                   *)
(***************************************************************************)
EXTENDS DeviceWork, TLAPS

-----------------------------------------------------------------------------
(* Installers                                                              *)

FetchStep == {"idle", "lookup", "request", "copy", "unzip", "clear", "extract", "mark", "return"}
FetchRecord == [at : FetchStep, alone : BOOLEAN, of : Installers]

CacheType ==
    /\ cache \in [Installers -> {"absent", "partial", "whole"}]
    /\ app \in [Installers -> {"absent", "partial", "whole"}]
    /\ fetch \in [Fetches -> FetchRecord]

\* Only one request writes the file of an installer that is not shared, and a
\* part of a file is being copied or is the rest of a copy that stopped.
FileOK ==
    /\ \A r \in Fetches : fetch[r].at = "copy" =>
          /\ cache[fetch[r].of] # "absent"
          /\ fetch[r].of \notin shared =>
                /\ fetch[r].alone
                /\ \A q \in Fetches : fetch[q].at = "copy" /\ fetch[q].of = fetch[r].of => q = r
    /\ \A i \in Installers : cache[i] = "partial" =>
          \/ i \in shared \cup installerCut
          \/ \E r \in Fetches : fetch[r].at = "copy" /\ fetch[r].of = i
    /\ \A r \in Fetches : fetch[r].at \in {"unzip", "clear", "extract", "mark", "return"} =>
          cache[fetch[r].of] # "absent"

\* Only one request extracts an app that is not shared; its marker is written
\* when it is whole, and then nobody is extracting.
AppOK ==
    /\ \A r \in Fetches : fetch[r].at \in {"extract", "mark"} /\ fetch[r].of \notin shared =>
          /\ fetch[r].of \notin marker
          /\ fetch[r].at = "extract" => fetch[r].alone
          /\ fetch[r].at = "mark" => app[fetch[r].of] = "whole"
          /\ \A q \in Fetches : fetch[q].at \in {"extract", "mark"} /\ fetch[q].of = fetch[r].of
                                    => q = r
    /\ \A i \in Installers : i \in marker => app[i] = "whole" \/ i \in shared
    /\ \A r \in Fetches : fetch[r].at = "return" /\ fetch[r].of \in Zipped =>
          fetch[r].of \in marker \cup shared

CacheInv == CacheType /\ FileOK /\ AppOK

-----------------------------------------------------------------------------
(* Artifacts                                                               *)

StoreRecord == [at : {"read", "post", "clean"}, kind : {Store!Results, Store!Screens},
                run : Runs, files : SUBSET Files]

\* A request removes only what lies below the root of its run and what Credimi
\* has stored.
StoreInv ==
    /\ store \in [Stores -> {Store!Idle} \cup StoreRecord]
    /\ written \subseteq Files
    /\ \A r \in Stores : store[r].at # "idle" =>
          \A f \in store[r].files : Store!isPathWithinRoot(f, store[r].run)
    /\ \A r \in Stores : store[r].at = "clean" =>
          \A f \in store[r].files : <<f, store[r].run, store[r].kind>> \in upstream
    /\ NothingIsLost

-----------------------------------------------------------------------------
(* Provisioning                                                            *)

SystemImages ==
    {None, ShippedImage} \cup {v.emulator.image : v \in {w \in Inventories : w.emulator # None}}
AVDRecord == [dir : {"absent", "partial", "whole"}, ini : BOOLEAN, image : SystemImages]
GateStep == {"sdk", "avd", "create", "read", "image", "golden", "goldenCheck", "verify",
             "connect", "state", "ready"}
GateRecord == [at : GateStep, inventory : Inventories, active : BOOLEAN, image : SystemImages]

AssetType ==
    /\ avd \in [Names -> AVDRecord]
    /\ golden \in [Leaves -> {"absent", "partial", "whole"}]
    /\ gate \in {Assets!Idle} \cup GateRecord
    /\ writing \in [{"gate", "handler"} -> {None, "tools", "base", "golden"}]
    /\ phone \in [Phones -> {"offline", "device"}]

\* A part of an archive, or of an AVD, is being extracted or is the rest of a
\* writer that stopped.
PartOK ==
    /\ \A n \in Names : avd[n].dir = "partial" =>
          Assets!AVDWriter(n) \in cut \cup {writing["gate"], writing["handler"]}
    /\ \A l \in Leaves : golden[l] = "partial" =>
          l = ShippedLeaf /\ "golden" \in cut \cup {writing["gate"], writing["handler"]}

Chosen == {"image", "golden", "goldenCheck", "verify", "connect", "state", "ready"}

\* What the gate has seen to when it is at a step.
GateOK ==
    /\ avd[Shipped].image \in {None, ShippedImage}
    /\ writing["gate"] # None => gate.at \in {"sdk", "create", "image", "goldenCheck"}
    /\ gate.at = "create" =>
          writing["gate"] = "base" \/ (writing["gate"] = None /\ Assets!AVDAssetsExist(Shipped))
    /\ gate.at \in {"avd", "create", "read", "image", "golden", "goldenCheck", "verify"} =>
          Assets!hasEnabledEmulator
    /\ gate.at \in {"read"} \cup Chosen /\ Assets!hasEnabledEmulator =>
          Assets!AVDAssetsExist(Assets!Emu.name)
    /\ gate.at \in Chosen /\ Assets!hasEnabledEmulator =>
          /\ avd[Assets!Emu.name].image \in {None, gate.image}
          /\ Assets!Emu.name = Shipped => gate.image = ShippedImage
    /\ gate.at \in {"verify", "connect", "state", "ready"} /\ Assets!hasEnabledEmulator =>
          Assets!GoldenAssetsExist(Assets!Emu.leaf)
    /\ gate.at \in {"connect", "state", "ready"} /\ Assets!hasEnabledEmulator =>
          /\ {Assets!Emulator, Assets!PlatformTools, gate.image} \subseteq packages
          /\ gate.active => host.kvm
    /\ gate.at = "ready" /\ gate.active =>
          \A p \in gate.inventory.phones : phone[p] = "device" \/ p \in lost

AssetInv == AssetType /\ PartOK /\ GateOK

-----------------------------------------------------------------------------
(* Artifacts: the steps                                                    *)

\* A request that is not idle is a full record, and moving it on changes its
\* step only.
LEMMA StoreRecords ==
  ASSUME StoreInv, NEW r \in Stores, store[r].at # "idle"
  PROVE  /\ store[r] \in StoreRecord
         /\ \A at \in {"post", "clean"} :
               /\ [store[r] EXCEPT !.at = at] \in StoreRecord
               /\ [store[r] EXCEPT !.at = at].at = at
               /\ [store[r] EXCEPT !.at = at].files = store[r].files
               /\ [store[r] EXCEPT !.at = at].run = store[r].run
               /\ [store[r] EXCEPT !.at = at].kind = store[r].kind
BY DEF StoreInv, StoreRecord, Store!Idle

\* What is stored stays stored, so that a step that removes nothing and adds no
\* file loses nothing.
LEMMA KeptStored ==
  ASSUME NothingIsLost, upstream \subseteq upstream', written' \ disk' \subseteq written \ disk
  PROVE  NothingIsLost'
BY Zenon DEF NothingIsLost, Store!NothingIsLost, Store!isPathWithinRoot

\* Every step keeps the invariant of the artifacts.
LEMMA StoreInvNext ==
  ASSUME StoreInv, [Store!Next]_storeVars
  PROVE  StoreInv'
<1> USE DEF StoreInv
<1>1. ASSUME NEW f \in Files, Store!Write(f) PROVE StoreInv'
  <2>1. NothingIsLost' BY <1>1, KeptStored DEF Store!Write
  <2>2. QED BY <1>1, <2>1 DEF Store!Write, Store!isPathWithinRoot
<1>2. ASSUME NEW r \in Stores, NEW u \in Runs, NEW F \in SUBSET Files,
             NEW k \in {Store!Results, Store!Screens}, Store!Accept(r, k, u, F),
             \A f \in F : Store!isPathWithinRoot(f, u),
             UNCHANGED <<written, disk, upstream>>
      PROVE  StoreInv'
  <2>1. NothingIsLost' BY <1>2, KeptStored
  <2>2. [at |-> "read", kind |-> k, run |-> u, files |-> F] \in StoreRecord
    BY DEF StoreRecord
  <2>3. QED BY <1>2, <2>1, <2>2 DEF Store!Accept, Store!isPathWithinRoot
<1>3. ASSUME NEW r \in Stores, Store!addFileToMultipart(r) PROVE StoreInv'
  <2>1. NothingIsLost' BY <1>3, KeptStored DEF Store!addFileToMultipart
  <2>2. store[r].at # "idle" BY <1>3 DEF Store!addFileToMultipart
  <2>3. QED BY <1>3, <2>1, <2>2, StoreRecords
        DEF Store!addFileToMultipart, Store!Goto, Store!isPathWithinRoot
<1>4. ASSUME NEW r \in Stores, Store!PostAnswered(r) PROVE StoreInv'
  <2>1. NothingIsLost' BY <1>4, KeptStored DEF Store!PostAnswered, Store!Stored
  <2>2. store[r].at # "idle" BY <1>4 DEF Store!PostAnswered
  <2>3. \A f \in store[r].files : <<f, store[r].run, store[r].kind>> \in upstream'
    BY <1>4 DEF Store!PostAnswered, Store!Stored
  <2>4. upstream \subseteq upstream' BY <1>4 DEF Store!PostAnswered, Store!Stored
  <2>5. QED BY <1>4, <2>1, <2>2, <2>3, <2>4, StoreRecords
        DEF Store!PostAnswered, Store!Goto, Store!isPathWithinRoot
<1>5. ASSUME NEW r \in Stores, Store!Answer(r), UNCHANGED written, upstream \subseteq upstream',
             NothingIsLost'
      PROVE  StoreInv'
  BY <1>5 DEF Store!Answer, Store!Idle, Store!isPathWithinRoot
<1>6. ASSUME NEW r \in Stores, Store!PostUnanswered(r) PROVE StoreInv'
  <2>1. NothingIsLost' BY <1>6, KeptStored DEF Store!PostUnanswered, Store!Stored
  <2>2. QED BY <1>5, <1>6, <2>1 DEF Store!PostUnanswered, Store!Stored
<1>7. ASSUME NEW r \in Stores, Store!RemoveDirectories(r) PROVE StoreInv'
  <2>1. PICK D \in SUBSET Store!managedArtifactDirectories(store[r].files) :
              disk' = {f \in disk : Above[f] \cap D = {}}
    BY <1>7 DEF Store!RemoveDirectories
  <2>2. store[r].at = "clean" /\ store[r].kind = Store!Results /\ store[r] \in StoreRecord
    BY <1>7, StoreRecords DEF Store!RemoveDirectories
  <2>3. ASSUME NEW f \in written', f \notin disk', f \in disk
        PROVE  \E u \in Runs :
                 /\ Store!isPathWithinRoot(f, u)
                 /\ \E g \in Files : <<g, u, Store!Results>> \in upstream' /\ Dir[g] \in Above[f]
    <3>1. PICK d \in D : d \in Above[f] BY <2>1, <2>3
    <3>2. PICK g \in store[r].files : d = Dir[g]
      BY <2>1, <3>1 DEF Store!managedArtifactDirectories
    <3>3. g \in Files /\ f \in Files BY <1>7, <2>2, <2>3, <3>2 DEF StoreRecord, Store!RemoveDirectories
    <3>4. Store!isPathWithinRoot(g, store[r].run) /\ <<g, store[r].run, Store!Results>> \in upstream
      BY <2>2, <3>2
    <3>5. Store!isPathWithinRoot(f, store[r].run)
      BY <3>1, <3>2, <3>3, <3>4, TreeAssumption DEF Store!isPathWithinRoot
    <3>6. store[r].run \in Runs BY <2>2 DEF StoreRecord
    <3>7. QED BY <1>7, <3>1, <3>2, <3>3, <3>4, <3>5, <3>6 DEF Store!RemoveDirectories
  <2>4. NothingIsLost'
    BY <1>7, <2>3, Zenon
    DEF Store!RemoveDirectories, NothingIsLost, Store!NothingIsLost, Store!isPathWithinRoot
  <2>5. QED BY <1>5, <1>7, <2>4 DEF Store!RemoveDirectories
<1>8. ASSUME NEW r \in Stores, Store!cleanupExecutionScreenshots(r) PROVE StoreInv'
  <2>1. PICK F \in SUBSET store[r].files : disk' = disk \ F
    BY <1>8 DEF Store!cleanupExecutionScreenshots
  <2>2. store[r].at = "clean" /\ store[r].kind = Store!Screens /\ store[r] \in StoreRecord
    BY <1>8, StoreRecords DEF Store!cleanupExecutionScreenshots
  <2>3. ASSUME NEW f \in written', f \notin disk', f \in disk
        PROVE  \E u \in Runs : /\ Store!isPathWithinRoot(f, u)
                               /\ <<f, u, Store!Screens>> \in upstream'
    <3>1. f \in store[r].files BY <2>1, <2>3
    <3>2. store[r].run \in Runs BY <2>2 DEF StoreRecord
    <3>3. QED BY <1>8, <2>2, <3>1, <3>2 DEF Store!cleanupExecutionScreenshots
  <2>4. NothingIsLost'
    BY <1>8, <2>3, Zenon
    DEF Store!cleanupExecutionScreenshots, NothingIsLost, Store!NothingIsLost,
        Store!isPathWithinRoot
  <2>5. QED BY <1>5, <1>8, <2>4 DEF Store!cleanupExecutionScreenshots
<1>9. ASSUME NEW r \in Stores, Store!Fail(r) PROVE StoreInv'
  <2>1. NothingIsLost' BY <1>9, KeptStored DEF Store!Fail
  <2>2. QED BY <1>5, <1>9, <2>1 DEF Store!Fail
<1>10. ASSUME Store!Crash PROVE StoreInv'
  <2>1. NothingIsLost' BY <1>10, KeptStored DEF Store!Crash
  <2>2. QED BY <1>10, <2>1 DEF Store!Crash, Store!Idle, Store!isPathWithinRoot
<1>11. ASSUME UNCHANGED storeVars PROVE StoreInv'
  <2>1. NothingIsLost' BY <1>11, KeptStored DEF storeVars
  <2>2. QED BY <1>11, <2>1 DEF storeVars, Store!isPathWithinRoot
<1>12. ASSUME NEW r \in Stores, NEW u \in Runs, NEW F \in SUBSET Files,
              Store!storePipelineResultLogic(r, u, F)
       PROVE  StoreInv'
  BY <1>2, <1>12 DEF Store!storePipelineResultLogic
<1>13. ASSUME NEW r \in Stores, NEW u \in Runs, NEW F \in SUBSET Files,
              Store!storeExecutionScreenshotsLogic(r, u, F)
       PROVE  StoreInv'
  BY <1>2, <1>13 DEF Store!storeExecutionScreenshotsLogic, Store!validateScreenshotPaths
<1>14. QED
  BY <1>1, <1>3, <1>4, <1>6, <1>7, <1>8, <1>9, <1>10, <1>11, <1>12, <1>13, Zenon DEF Store!Next

-----------------------------------------------------------------------------
(* Installers: the steps                                                   *)

\* A request that moves on keeps its installer and whether it writes alone, and
\* the others are left alone.
LEMMA GotoFacts ==
  ASSUME CacheType, NEW r \in Fetches, NEW at \in FetchStep, Cache!Goto(r, at)
  PROVE  /\ fetch' \in [Fetches -> FetchRecord]
         /\ fetch'[r].at = at /\ fetch'[r].of = fetch[r].of /\ fetch'[r].alone = fetch[r].alone
         /\ \A q \in Fetches \ {r} : fetch'[q] = fetch[q]
BY DEF CacheType, FetchRecord, Cache!Goto

\* A request that begins to write notes whether others write the same, and they
\* note it too.
LEMMA BeginFacts ==
  ASSUME CacheType, NEW r \in Fetches, NEW at \in FetchStep, Cache!BeginWrite(r, at)
  PROVE  /\ fetch' \in [Fetches -> FetchRecord]
         /\ fetch'[r].at = at
         /\ \A q \in Fetches : /\ fetch'[q].of = fetch[q].of
                               /\ q # r => fetch'[q].at = fetch[q].at
         /\ (\A q \in Cache!Peers(r) : fetch[q].at # at) =>
               /\ fetch'[r].alone
               /\ \A q \in Fetches \ {r} : fetch'[q] = fetch[q]
         /\ \A q \in Fetches \ {r} :
               fetch[q].at # at \/ fetch[q].of # fetch[r].of => fetch'[q] = fetch[q]
<1> DEFINE beside == {q \in Cache!Peers(r) : fetch[q].at = at}
<1>1. fetch' = [q \in Fetches |->
                  IF q = r THEN [fetch[r] EXCEPT !.at = at, !.alone = beside = {}]
                  ELSE IF q \in beside THEN [fetch[q] EXCEPT !.alone = FALSE]
                  ELSE fetch[q]]
  BY DEF Cache!BeginWrite
<1>2. \A q \in Fetches : fetch[q] \in FetchRecord BY DEF CacheType
<1>4. ASSUME NEW f \in FetchRecord, NEW b \in BOOLEAN
      PROVE  /\ [f EXCEPT !.at = at, !.alone = b] \in FetchRecord
             /\ [f EXCEPT !.at = at, !.alone = b].at = at
             /\ [f EXCEPT !.at = at, !.alone = b].of = f.of
             /\ [f EXCEPT !.at = at, !.alone = b].alone = b
             /\ [f EXCEPT !.alone = b] \in FetchRecord
             /\ [f EXCEPT !.alone = b].of = f.of
             /\ [f EXCEPT !.alone = b].at = f.at
  BY DEF FetchRecord
<1>5. beside \subseteq {q \in Fetches \ {r} : fetch[q].at = at /\ fetch[q].of = fetch[r].of}
  BY DEF Cache!Peers
<1> HIDE DEF beside
<1>6. fetch'[r] = [fetch[r] EXCEPT !.at = at, !.alone = beside = {}] BY <1>1
<1>7. \A q \in Fetches \ {r} :
         fetch'[q] = IF q \in beside THEN [fetch[q] EXCEPT !.alone = FALSE] ELSE fetch[q]
  BY <1>1
<1>8. /\ fetch'[r] \in FetchRecord /\ fetch'[r].at = at /\ fetch'[r].of = fetch[r].of
      /\ fetch'[r].alone = (beside = {})
  <2> DEFINE b == (beside = {})
  <2>1. b \in BOOLEAN /\ fetch[r] \in FetchRecord BY <1>2
  <2>2. fetch'[r] = [fetch[r] EXCEPT !.at = at, !.alone = b] BY <1>6
  <2> HIDE DEF b
  <2>3. /\ fetch'[r] \in FetchRecord /\ fetch'[r].at = at /\ fetch'[r].of = fetch[r].of
        /\ fetch'[r].alone = b
    <3> DEFINE new == [fetch[r] EXCEPT !.at = at, !.alone = b]
    <3>1. new \in FetchRecord /\ new.at = at /\ new.of = fetch[r].of /\ new.alone = b
      BY <1>4, <2>1, Zenon
    <3>2. fetch'[r] = new BY <2>2
    <3> HIDE DEF new
    <3>3. QED BY <3>1, <3>2
  <2>4. QED BY <2>3 DEF b
<1>9. ASSUME NEW q \in Fetches \ {r}
      PROVE  fetch'[q] \in FetchRecord /\ fetch'[q].at = fetch[q].at /\ fetch'[q].of = fetch[q].of
  <2>1. CASE q \in beside
    <3>1. fetch'[q] = [fetch[q] EXCEPT !.alone = FALSE] BY <1>7, <2>1
    <3>2. fetch[q] \in FetchRecord BY <1>2
    <3>3. QED BY <1>4, <3>1, <3>2
  <2>2. CASE q \notin beside BY <1>2, <1>7, <2>2
  <2>3. QED BY <2>1, <2>2
<1>10. fetch' \in [Fetches -> FetchRecord]
  <2>1. \A q \in Fetches : fetch'[q] \in FetchRecord BY <1>8, <1>9
  <2>2. fetch' = [q \in Fetches |-> fetch'[q]] BY <1>1
  <2>3. QED BY <2>1, <2>2
<1>11. ASSUME \A q \in Cache!Peers(r) : fetch[q].at # at
       PROVE  fetch'[r].alone /\ \A q \in Fetches \ {r} : fetch'[q] = fetch[q]
  <2>1. beside = {} BY <1>11 DEF beside
  <2>2. QED BY <1>7, <1>8, <2>1
<1>12. \A q \in Fetches \ {r} :
         fetch[q].at # at \/ fetch[q].of # fetch[r].of => fetch'[q] = fetch[q]
  BY <1>5, <1>7
<1>13. QED BY <1>8, <1>9, <1>10, <1>11, <1>12

\* The file of a request's installer and what it may be after the request has
\* written it: the whole, or a part of a shared one.
LEMMA WrittenFacts ==
  ASSUME CacheType, NEW r \in Fetches, NEW c \in Cache!Written(r)
  PROVE  c \in {"partial", "whole"} /\ (fetch[r].alone => c = "whole")
<1>1. CASE fetch[r].alone BY <1>1 DEF Cache!Written
<1>2. CASE ~fetch[r].alone BY <1>2 DEF Cache!Written
<1>3. QED BY <1>1, <1>2

\* A request that moves on without writing, and not to a step of writing or
\* answering, keeps the invariant.
LEMMA QuietStep ==
  ASSUME CacheInv, NEW r \in Fetches, NEW at \in {"idle", "lookup", "request", "clear"},
         fetch' \in [Fetches -> FetchRecord],
         fetch'[r].at = at, fetch[r].at # "copy" \/ fetch[r].of \in installerCut',
         at = "clear" => cache[fetch'[r].of] # "absent",
         \A q \in Fetches \ {r} : fetch'[q] = fetch[q],
         installerCut \subseteq installerCut', UNCHANGED <<cache, app, marker, shared>>
  PROVE  CacheInv'
<1>1. CacheType' BY DEF CacheInv, CacheType
<1>2. FileOK' BY DEF CacheInv, FileOK
<1>3. AppOK' BY DEF CacheInv, AppOK
<1>4. QED BY <1>1, <1>2, <1>3 DEF CacheInv

\* Every step keeps the invariant of the installers.
LEMMA CacheInvNext ==
  ASSUME CacheInv, [Cache!Next]_cacheVars
  PROVE  CacheInv'
<1>0. CacheType /\ FileOK /\ AppOK BY DEF CacheInv
<1>t. \A r \in Fetches : fetch[r] \in FetchRecord /\ fetch[r].of \in Installers
  BY <1>0 DEF CacheType, FetchRecord
<1>1. ASSUME NEW r \in Fetches, Cache!fetchInstallerAndActionLogic(r) PROVE CacheInv'
  <2>1. PICK i \in Installers : fetch' = [fetch EXCEPT ![r].at = "lookup", ![r].of = i]
    BY <1>1 DEF Cache!fetchInstallerAndActionLogic
  <2>2. /\ fetch' \in [Fetches -> FetchRecord] /\ fetch'[r].at = "lookup"
        /\ \A q \in Fetches \ {r} : fetch'[q] = fetch[q]
    BY <1>0, <2>1 DEF CacheType, FetchRecord, FetchStep
  <2>3. QED BY <1>1, <2>2, QuietStep DEF Cache!fetchInstallerAndActionLogic
<1>2. ASSUME NEW r \in Fetches, Cache!Download(r) PROVE CacheInv'
  BY <1>0, <1>2, GotoFacts, QuietStep DEF Cache!Download, FetchStep
<1>3. ASSUME NEW r \in Fetches, Cache!ReadArchive(r) PROVE CacheInv'
  BY <1>0, <1>3, GotoFacts, QuietStep DEF Cache!ReadArchive, FetchStep
<1>4. ASSUME NEW r \in Fetches, Cache!Return(r) PROVE CacheInv'
  BY <1>0, <1>4, GotoFacts, QuietStep DEF Cache!Return, FetchStep
<1>5. ASSUME NEW r \in Fetches, Cache!Fail(r) PROVE CacheInv'
  <2>1. fetch[r].at # "copy" \/ fetch[r].of \in installerCut'
    BY <1>5 DEF Cache!Fail, Cache!Stopped
  <2>2. QED BY <1>0, <1>5, <2>1, GotoFacts, QuietStep DEF Cache!Fail, FetchStep
<1>6. ASSUME Cache!Crash PROVE CacheInv'
  <2>1. /\ fetch' \in [Fetches -> FetchRecord]
        /\ \A r \in Fetches : fetch'[r].at = "idle"
    BY <1>0, <1>6 DEF Cache!Crash, CacheType, FetchRecord, FetchStep
  <2>2. /\ installerCut \subseteq installerCut' /\ UNCHANGED <<cache, app, marker, shared>>
        /\ \A r \in Fetches : fetch[r].at = "copy" => fetch[r].of \in installerCut'
    BY <1>6 DEF Cache!Crash, Cache!Stopped
  <2>3. CacheType' BY <1>0, <2>1, <2>2 DEF CacheType
  <2>4. FileOK' BY <1>0, <2>1, <2>2 DEF FileOK
  <2>5. AppOK' BY <1>0, <2>1, <2>2 DEF AppOK
  <2>6. QED BY <2>3, <2>4, <2>5 DEF CacheInv
<1>7. ASSUME NEW r \in Fetches, Cache!Cached(r) PROVE CacheInv'
  <2> DEFINE at == IF fetch[r].of \in Zipped THEN "unzip" ELSE "return"
  <2>1. at \in FetchStep /\ Cache!Goto(r, at) /\ fetch[r].at = "lookup"
    BY <1>7 DEF Cache!Cached, FetchStep
  <2>2. /\ fetch' \in [Fetches -> FetchRecord]
        /\ fetch'[r].at = at /\ fetch'[r].of = fetch[r].of /\ fetch'[r].alone = fetch[r].alone
        /\ \A q \in Fetches \ {r} : fetch'[q] = fetch[q]
    BY <1>0, <2>1, GotoFacts
  <2>3. UNCHANGED <<cache, app, marker, installerCut, shared>> /\ cache[fetch[r].of] # "absent"
    BY <1>7 DEF Cache!Cached
  <2>4. CacheType' BY <1>0, <2>2, <2>3 DEF CacheType
  <2>5. FileOK' BY <1>0, <2>1, <2>2, <2>3 DEF FileOK
  <2>6. AppOK' BY <1>0, <2>1, <2>2, <2>3 DEF AppOK
  <2>7. QED BY <2>4, <2>5, <2>6 DEF CacheInv
<1>8. ASSUME NEW r \in Fetches, Cache!CreateFile(r) PROVE CacheInv'
  <2> DEFINE i == fetch[r].of
  <2>1. /\ fetch[r].at = "request" /\ Cache!BeginWrite(r, "copy")
        /\ shared' = IF cache[i] = "absent" THEN shared ELSE shared \cup {i}
        /\ cache' = [cache EXCEPT ![i] = "partial"]
        /\ UNCHANGED <<app, marker, installerCut>>
    BY <1>8 DEF Cache!CreateFile
  <2>2. /\ fetch' \in [Fetches -> FetchRecord]
        /\ fetch'[r].at = "copy"
        /\ \A q \in Fetches : /\ fetch'[q].of = fetch[q].of
                              /\ q # r => fetch'[q].at = fetch[q].at
        /\ (\A q \in Cache!Peers(r) : fetch[q].at # "copy") =>
              /\ fetch'[r].alone
              /\ \A q \in Fetches \ {r} : fetch'[q] = fetch[q]
        /\ \A q \in Fetches \ {r} :
              fetch[q].at # "copy" \/ fetch[q].of # fetch[r].of => fetch'[q] = fetch[q]
    BY <1>0, <2>1, BeginFacts DEF FetchStep
  <2>3. i \in Installers BY <1>t
  <2>4. CacheType' BY <1>0, <2>1, <2>2, <2>3 DEF CacheType
  <2>5. i \notin shared' => \A q \in Fetches : fetch[q].at = "copy" => fetch[q].of # i
    BY <1>0, <2>1 DEF FileOK
  <2>6. i \notin shared' => fetch'[r].alone
    BY <2>2, <2>5 DEF Cache!Peers
  <2>7. cache'[i] = "partial" /\ \A j \in Installers \ {i} : cache'[j] = cache[j]
    BY <1>0, <2>1, <2>3 DEF CacheType
  <2>8. shared \subseteq shared' /\ shared' \subseteq shared \cup {i} BY <2>1
  <2> HIDE DEF i
  <2>9. FileOK'
    <3>1. ASSUME NEW q \in Fetches, fetch'[q].at = "copy"
          PROVE  /\ cache'[fetch'[q].of] # "absent"
                 /\ fetch'[q].of \notin shared' =>
                      /\ fetch'[q].alone
                      /\ \A p \in Fetches :
                            fetch'[p].at = "copy" /\ fetch'[p].of = fetch'[q].of => p = q
      <4>1. CASE q = r BY <1>t, <2>2, <2>5, <2>6, <2>7, <4>1 DEF i
      <4>2. CASE q # r /\ fetch[q].of = i
        BY <1>t, <2>2, <2>5, <2>7, <3>1, <4>2
      <4>3. CASE q # r /\ fetch[q].of # i
        BY <1>0, <1>t, <2>2, <2>7, <2>8, <3>1, <4>3 DEF FileOK, i
      <4>4. QED BY <4>1, <4>2, <4>3
    <3>2. ASSUME NEW j \in Installers, cache'[j] = "partial"
          PROVE  \/ j \in shared' \cup installerCut'
                 \/ \E q \in Fetches : fetch'[q].at = "copy" /\ fetch'[q].of = j
      BY <1>0, <2>1, <2>2, <2>7, <2>8, <3>2 DEF FileOK, i
    <3>3. ASSUME NEW q \in Fetches, fetch'[q].at \in {"unzip", "clear", "extract", "mark", "return"}
          PROVE  cache'[fetch'[q].of] # "absent"
      BY <1>0, <1>t, <2>2, <2>7, <3>3 DEF FileOK
    <3>4. QED BY <3>1, <3>2, <3>3, Zenon DEF FileOK
  <2>10. AppOK'
    <3>1. \A q \in Fetches : fetch'[q].at \in {"extract", "mark", "return"} =>
             q # r /\ fetch'[q] = fetch[q]
      BY <2>2
    <3>2. QED BY <1>0, <2>1, <2>8, <3>1 DEF AppOK
  <2>11. QED BY <2>4, <2>9, <2>10 DEF CacheInv
<1>9. ASSUME NEW r \in Fetches, Cache!Copied(r) PROVE CacheInv'
  <2> DEFINE i == fetch[r].of
  <2> DEFINE at == IF i \in Zipped THEN "unzip" ELSE "return"
  <2>1. PICK c \in Cache!Written(r) : cache' = [cache EXCEPT ![i] = c]
    BY <1>9 DEF Cache!Copied
  <2>2. /\ fetch[r].at = "copy" /\ at \in FetchStep /\ Cache!Goto(r, at)
        /\ UNCHANGED <<app, marker, installerCut, shared>>
    BY <1>9 DEF Cache!Copied, FetchStep
  <2>3. /\ fetch' \in [Fetches -> FetchRecord]
        /\ fetch'[r].at = at /\ fetch'[r].of = i /\ fetch'[r].alone = fetch[r].alone
        /\ \A q \in Fetches \ {r} : fetch'[q] = fetch[q]
    BY <1>0, <2>2, GotoFacts
  <2>4. c \in {"partial", "whole"} /\ (fetch[r].alone => c = "whole")
    BY <1>0, WrittenFacts
  <2>5. i \in Installers /\ cache'[i] = c /\ \A j \in Installers \ {i} : cache'[j] = cache[j]
    BY <1>0, <1>t, <2>1 DEF CacheType
  <2>6. i \notin shared => c = "whole" BY <1>0, <2>2, <2>4 DEF FileOK
  <2>7. CacheType' BY <1>0, <2>1, <2>2, <2>3, <2>4, <2>5 DEF CacheType
  <2>8. FileOK'
    BY <1>0, <1>t, <2>2, <2>3, <2>4, <2>5, <2>6 DEF FileOK
  <2>9. AppOK' BY <1>0, <2>2, <2>3 DEF AppOK
  <2>10. QED BY <2>7, <2>8, <2>9 DEF CacheInv
<1>10. ASSUME NEW r \in Fetches, Cache!Unzipped(r) PROVE CacheInv'
  <2>1. /\ fetch[r].at = "unzip" /\ fetch[r].of \in marker /\ Cache!Goto(r, "return")
        /\ UNCHANGED <<cache, app, marker, installerCut, shared>>
    BY <1>10 DEF Cache!Unzipped
  <2>2. /\ fetch' \in [Fetches -> FetchRecord]
        /\ fetch'[r].at = "return" /\ fetch'[r].of = fetch[r].of
        /\ \A q \in Fetches \ {r} : fetch'[q] = fetch[q]
    BY <1>0, <2>1, GotoFacts DEF FetchStep
  <2>3. CacheType' BY <1>0, <2>1, <2>2 DEF CacheType
  <2>4. FileOK' BY <1>0, <2>1, <2>2 DEF FileOK
  <2>5. AppOK' BY <1>0, <2>1, <2>2 DEF AppOK
  <2>6. QED BY <2>3, <2>4, <2>5 DEF CacheInv
<1>11. ASSUME NEW r \in Fetches, Cache!ClearApp(r) PROVE CacheInv'
  <2> DEFINE i == fetch[r].of
  <2>1. /\ fetch[r].at = "clear" /\ Cache!BeginWrite(r, "extract")
        /\ shared' = IF \/ i \in marker
                        \/ \E q \in Cache!Peers(r) : fetch[q].at \in {"extract", "mark"}
                     THEN shared \cup {i} ELSE shared
        /\ app' = [app EXCEPT ![i] = "absent"]
        /\ UNCHANGED <<cache, marker, installerCut>>
    BY <1>11 DEF Cache!ClearApp
  <2>2. /\ fetch' \in [Fetches -> FetchRecord]
        /\ fetch'[r].at = "extract"
        /\ \A q \in Fetches : /\ fetch'[q].of = fetch[q].of
                              /\ q # r => fetch'[q].at = fetch[q].at
        /\ (\A q \in Cache!Peers(r) : fetch[q].at # "extract") =>
              /\ fetch'[r].alone
              /\ \A q \in Fetches \ {r} : fetch'[q] = fetch[q]
        /\ \A q \in Fetches \ {r} :
              fetch[q].at # "extract" \/ fetch[q].of # fetch[r].of => fetch'[q] = fetch[q]
    BY <1>0, <2>1, BeginFacts DEF FetchStep
  <2>3. i \in Installers BY <1>t
  <2>4. CacheType' BY <1>0, <2>1, <2>2, <2>3 DEF CacheType
  <2>5. i \notin shared' =>
           /\ i \notin marker
           /\ \A q \in Fetches \ {r} : fetch[q].at \in {"extract", "mark"} => fetch[q].of # i
    BY <2>1 DEF Cache!Peers
  <2>6. i \notin shared' => fetch'[r].alone BY <2>2, <2>5 DEF Cache!Peers
  <2>7. \A j \in Installers \ {i} : app'[j] = app[j] BY <1>0, <2>1 DEF CacheType
  <2>8. shared \subseteq shared' /\ shared' \subseteq shared \cup {i} BY <2>1
  <2> HIDE DEF i
  <2>9. FileOK'
    <3>1. \A q \in Fetches : fetch'[q].at = "copy" => q # r /\ fetch'[q] = fetch[q] BY <2>2
    <3>2. \A q \in Fetches : fetch[q].at = "copy" => q # r /\ fetch'[q] = fetch[q] BY <2>1, <2>2
    <3>3. QED BY <1>0, <2>1, <2>2, <2>8, <3>1, <3>2 DEF FileOK
  <2>10. AppOK'
    <3>1. ASSUME NEW q \in Fetches, fetch'[q].at \in {"extract", "mark"}, fetch'[q].of \notin shared'
          PROVE  /\ fetch'[q].of \notin marker'
                 /\ fetch'[q].at = "extract" => fetch'[q].alone
                 /\ fetch'[q].at = "mark" => app'[fetch'[q].of] = "whole"
                 /\ \A p \in Fetches : fetch'[p].at \in {"extract", "mark"}
                                         /\ fetch'[p].of = fetch'[q].of => p = q
      <4>1. CASE q = r BY <2>1, <2>2, <2>5, <2>6, <3>1, <4>1 DEF i
      <4>2. CASE q # r /\ fetch[q].of = i BY <2>2, <2>5, <3>1, <4>2
      <4>3. CASE q # r /\ fetch[q].of # i
        BY <1>0, <1>t, <2>1, <2>2, <2>7, <2>8, <3>1, <4>3 DEF AppOK, i
      <4>4. QED BY <4>1, <4>2, <4>3
    <3>2. ASSUME NEW j \in Installers, j \in marker'
          PROVE  app'[j] = "whole" \/ j \in shared'
      BY <1>0, <2>1, <2>5, <2>7, <2>8, <3>2 DEF AppOK
    <3>3. ASSUME NEW q \in Fetches, fetch'[q].at = "return", fetch'[q].of \in Zipped
          PROVE  fetch'[q].of \in marker' \cup shared'
      BY <1>0, <2>1, <2>2, <2>8, <3>3 DEF AppOK
    <3>4. QED BY <3>1, <3>2, <3>3, Zenon DEF AppOK
  <2>11. QED BY <2>4, <2>9, <2>10 DEF CacheInv
<1>12. ASSUME NEW r \in Fetches, Cache!ExtractEntry(r) PROVE CacheInv'
  <2> DEFINE i == fetch[r].of
  <2>1. /\ fetch[r].at = "extract" /\ app' = [app EXCEPT ![i] = "partial"]
        /\ UNCHANGED <<cache, marker, fetch, installerCut, shared>>
    BY <1>12 DEF Cache!ExtractEntry
  <2>2. i \in Installers /\ \A j \in Installers \ {i} : app'[j] = app[j]
    BY <1>0, <1>t, <2>1 DEF CacheType
  <2>3. CacheType' BY <1>0, <2>1, <2>2 DEF CacheType
  <2>4. FileOK' BY <1>0, <2>1 DEF FileOK
  <2>5. AppOK' BY <1>0, <1>t, <2>1, <2>2 DEF AppOK
  <2>6. QED BY <2>3, <2>4, <2>5 DEF CacheInv
<1>13. ASSUME NEW r \in Fetches, Cache!extractIOSAppArchive(r) PROVE CacheInv'
  <2> DEFINE i == fetch[r].of
  <2>1. PICK c \in Cache!Written(r) : app' = [app EXCEPT ![i] = c]
    BY <1>13 DEF Cache!extractIOSAppArchive
  <2>2. /\ fetch[r].at = "extract" /\ Cache!Goto(r, "mark")
        /\ UNCHANGED <<cache, marker, installerCut, shared>>
    BY <1>13 DEF Cache!extractIOSAppArchive
  <2>3. /\ fetch' \in [Fetches -> FetchRecord]
        /\ fetch'[r].at = "mark" /\ fetch'[r].of = i
        /\ \A q \in Fetches \ {r} : fetch'[q] = fetch[q]
    BY <1>0, <2>2, GotoFacts DEF FetchStep
  <2>4. c \in {"partial", "whole"} /\ (fetch[r].alone => c = "whole") BY <1>0, WrittenFacts
  <2>5. i \in Installers /\ app'[i] = c /\ \A j \in Installers \ {i} : app'[j] = app[j]
    BY <1>0, <1>t, <2>1 DEF CacheType
  <2>6. i \notin shared => i \notin marker /\ c = "whole" BY <1>0, <2>2, <2>4 DEF AppOK
  <2>7. CacheType' BY <1>0, <2>1, <2>2, <2>3, <2>4, <2>5 DEF CacheType
  <2>8. FileOK' BY <1>0, <2>2, <2>3 DEF FileOK
  <2>9. AppOK' BY <1>0, <1>t, <2>2, <2>3, <2>5, <2>6 DEF AppOK
  <2>10. QED BY <2>7, <2>8, <2>9 DEF CacheInv
<1>14. ASSUME NEW r \in Fetches, Cache!writeStoredAppPath(r) PROVE CacheInv'
  <2> DEFINE i == fetch[r].of
  <2>1. /\ fetch[r].at = "mark" /\ Cache!Goto(r, "return") /\ marker' = marker \cup {i}
        /\ UNCHANGED <<cache, app, installerCut, shared>>
    BY <1>14 DEF Cache!writeStoredAppPath
  <2>2. /\ fetch' \in [Fetches -> FetchRecord]
        /\ fetch'[r].at = "return" /\ fetch'[r].of = i
        /\ \A q \in Fetches \ {r} : fetch'[q] = fetch[q]
    BY <1>0, <2>1, GotoFacts DEF FetchStep
  <2>3. CacheType' BY <1>0, <2>1, <2>2 DEF CacheType
  <2>4. FileOK' BY <1>0, <2>1, <2>2 DEF FileOK
  <2>5. AppOK' BY <1>0, <1>t, <2>1, <2>2 DEF AppOK
  <2>6. QED BY <2>3, <2>4, <2>5 DEF CacheInv
<1>15. ASSUME UNCHANGED cacheVars PROVE CacheInv'
  BY <1>0, <1>15 DEF cacheVars, CacheInv, CacheType, FileOK, AppOK
<1>16. QED
  BY <1>1, <1>2, <1>3, <1>4, <1>5, <1>6, <1>7, <1>8, <1>9, <1>10, <1>11, <1>12, <1>13, <1>14,
     <1>15, Zenon DEF Cache!Next

-----------------------------------------------------------------------------
(* Provisioning: the steps                                                 *)

\* A gate that moves on keeps its inventory, its purpose and its image.
LEMMA GateMoves ==
  ASSUME AssetType, gate.at # "idle", NEW at \in GateStep, Assets!Goto(at)
  PROVE  /\ gate' \in GateRecord /\ gate'.at = at /\ gate'.inventory = gate.inventory
         /\ gate'.active = gate.active /\ gate'.image = gate.image
BY DEF AssetType, GateRecord, Assets!Goto, Assets!Idle

\* The configuration a gate is asked about names known AVDs, golden images and
\* phones.
LEMMA GateFacts ==
  ASSUME AssetType, gate.at # "idle"
  PROVE  /\ gate \in GateRecord /\ gate.at \in GateStep /\ gate.inventory \in Inventories
         /\ gate.inventory.phones \subseteq Phones
         /\ Assets!hasEnabledEmulator =>
              /\ Assets!Emu.name \in Names /\ Assets!Emu.leaf \in Leaves
              /\ Assets!Emu.image \in SystemImages
BY AssetsAssumption
DEF AssetType, GateRecord, Assets!Idle, Assets!Emu, Assets!hasEnabledEmulator, SystemImages

\* Extractions that stop leave their archives in cut.
LEMMA StoppedFacts ==
  ASSUME AssetType, NEW W \in SUBSET {"gate", "handler"}, Assets!Stopped(W)
  PROVE  /\ writing' \in [{"gate", "handler"} -> {None, "tools", "base", "golden"}]
         /\ \A w \in {"gate", "handler"} : writing'[w] = IF w \in W THEN None ELSE writing[w]
         /\ cut \subseteq cut'
         /\ \A w \in W : writing[w] # None => writing[w] \in cut'
BY DEF AssetType, Assets!Stopped

\* What stops or begins to be extracted explains every part that is on disk.
LEMMA PartsExplained ==
  ASSUME PartOK, UNCHANGED <<avd, golden>>, cut \subseteq cut',
         \A w \in {"gate", "handler"} :
            writing[w] # None => writing[w] \in cut' \cup {writing'["gate"], writing'["handler"]}
  PROVE  PartOK'
BY AssetsAssumption DEF PartOK, Assets!AVDWriter

\* What an entry of an archive, or the end of it, does to the AVDs and the
\* golden images.
Rewritten(a, d) ==
    /\ \A n \in Names \ {Shipped} : avd'[n] = avd[n]
    /\ \A l \in Leaves \ {ShippedLeaf} : golden'[l] = golden[l]
    /\ a # "base" => avd'[Shipped] = avd[Shipped]
    /\ a = "base" => /\ avd'[Shipped].dir = d
                     /\ avd[Shipped].ini => avd'[Shipped].ini
                     /\ avd'[Shipped].image \in {None, ShippedImage}
    /\ a # "golden" => golden'[ShippedLeaf] = golden[ShippedLeaf]
    /\ a = "golden" => golden'[ShippedLeaf] = d

\* One entry leaves a part of the archive.
LEMMA UnpackFacts ==
  ASSUME AssetType, NEW a \in {"tools", "base", "golden"}, Assets!Unpack(a)
  PROVE  /\ avd' \in [Names -> AVDRecord]
         /\ golden' \in [Leaves -> {"absent", "partial", "whole"}]
         /\ Rewritten(a, "partial")
<1>1. CASE a = "tools" BY <1>1 DEF Assets!Unpack, AssetType, Rewritten
<1>2. CASE a = "base"
  <2>1. PICK ini \in {TRUE, avd[Shipped].ini}, image \in {None, ShippedImage} :
           avd' = [avd EXCEPT ![Shipped] = [dir |-> "partial", ini |-> ini, image |-> image]]
    BY <1>2 DEF Assets!Unpack
  <2>2. golden' = golden BY <1>2 DEF Assets!Unpack
  <2>3. avd[Shipped].ini \in BOOLEAN BY AssetsAssumption DEF AssetType, AVDRecord
  <2>4. ini \in BOOLEAN /\ (avd[Shipped].ini => ini) BY <2>3
  <2>5. [dir |-> "partial", ini |-> ini, image |-> image] \in AVDRecord
    BY <2>4 DEF AVDRecord, SystemImages
  <2>6. avd'[Shipped] = [dir |-> "partial", ini |-> ini, image |-> image]
    BY <2>1, AssetsAssumption DEF AssetType
  <2>7. QED BY <1>2, <2>1, <2>2, <2>4, <2>5, <2>6, AssetsAssumption DEF AssetType, Rewritten
<1>3. CASE a = "golden" BY <1>3, AssetsAssumption DEF Assets!Unpack, AssetType, Rewritten
<1>4. QED BY <1>1, <1>2, <1>3

\* The last entry leaves the whole archive, or a part while another writer is
\* at it.
LEMMA UnpackedFacts ==
  ASSUME AssetType, NEW w \in {"gate", "handler"}, writing[w] # None, Assets!Unpacked(w)
  PROVE  /\ avd' \in [Names -> AVDRecord]
         /\ golden' \in [Leaves -> {"absent", "partial", "whole"}]
         /\ writing' = [writing EXCEPT ![w] = None]
         /\ \E d \in {"partial", "whole"} :
               /\ Rewritten(writing[w], d)
               /\ d = "partial" => \E v \in {"gate", "handler"} \ {w} : writing[v] = writing[w]
         /\ writing[w] = "base" => avd'[Shipped].ini
<1> DEFINE a == writing[w]
           alone == \A v \in DOMAIN writing \ {w} : writing[v] # a
           content == IF alone THEN "whole" ELSE "partial"
           new == [Assets!AVDOf(ShippedImage) EXCEPT !.dir = content]
<1>1. /\ writing' = [writing EXCEPT ![w] = None]
      /\ avd' = IF a = "base" THEN [avd EXCEPT ![Shipped] = new] ELSE avd
      /\ golden' = IF a = "golden" THEN [golden EXCEPT ![ShippedLeaf] = content] ELSE golden
  BY DEF Assets!Unpacked
<1>2. a \in {"tools", "base", "golden"} BY DEF AssetType
<1>3. DOMAIN writing = {"gate", "handler"} BY DEF AssetType
<1>4. /\ content \in {"partial", "whole"}
      /\ content = "partial" => \E v \in {"gate", "handler"} \ {w} : writing[v] = a
  BY <1>3
<1> HIDE DEF alone, content
<1>5. /\ new \in AVDRecord /\ new.dir = content /\ new.ini /\ new.image = ShippedImage
  BY <1>4 DEF Assets!AVDOf, AVDRecord, SystemImages
<1> HIDE DEF new
<1>6. Rewritten(a, content)
  BY <1>1, <1>2, <1>5, AssetsAssumption DEF AssetType, Rewritten
<1>7. /\ avd' \in [Names -> AVDRecord] /\ golden' \in [Leaves -> {"absent", "partial", "whole"}]
  BY <1>1, <1>4, <1>5 DEF AssetType
<1>8. a = "base" => avd'[Shipped].ini BY <1>1, <1>5, AssetsAssumption DEF AssetType
<1>9. QED BY <1>1, <1>4, <1>6, <1>7, <1>8

\* A step that rewrites an archive takes away nothing the gate has seen to.
LEMMA RewriteKeeps ==
  ASSUME AssetInv, AssetType', NEW a \in {"tools", "base", "golden"}, NEW d \in {"partial", "whole"},
         Rewritten(a, d), UNCHANGED <<packages, host, gate, download, phone, lost, cut>>,
         \/ UNCHANGED writing
         \/ \E w \in {"gate", "handler"} : /\ writing[w] = a
                                           /\ writing' = [writing EXCEPT ![w] = None]
                                           /\ a = "base" => avd'[Shipped].ini
  PROVE  GateOK'
<1>0. AssetType /\ PartOK /\ GateOK BY DEF AssetInv
<1>1. \A n \in Names : Assets!AVDAssetsExist(n) => (Assets!AVDAssetsExist(n))'
  BY DEF Rewritten, Assets!AVDAssetsExist
<1>2. \A l \in Leaves : Assets!GoldenAssetsExist(l) => (Assets!GoldenAssetsExist(l))'
  BY DEF Rewritten, Assets!GoldenAssetsExist
<1>3. \A n \in Names \ {Shipped} : avd'[n].image = avd[n].image BY DEF Rewritten
<1>4. avd'[Shipped].image \in {None, ShippedImage} BY <1>0 DEF Rewritten, GateOK
<1>5. /\ writing'["gate"] # None => writing["gate"] # None
      /\ writing'["gate"] \in {None, writing["gate"]}
      /\ writing'["gate"] = None /\ writing["gate"] = "base" =>
            (Assets!AVDAssetsExist(Shipped))'
  BY <1>0, AssetsAssumption DEF AssetType, Rewritten, Assets!AVDAssetsExist
<1>6. QED
  BY <1>0, <1>1, <1>2, <1>3, <1>4, <1>5, GateFacts, AssetsAssumption
  DEF GateOK, Chosen, Assets!hasEnabledEmulator, Assets!Emu, Assets!Emulator, Assets!PlatformTools

\* A part of an archive is on disk only while the archive is explained.
LEMMA RewriteExplained ==
  ASSUME AssetInv, NEW a \in {"tools", "base", "golden"}, NEW d \in {"partial", "whole"},
         Rewritten(a, d), cut' = cut,
         \A b \in {"base", "golden"} :
            b # a /\ b \in {writing["gate"], writing["handler"]}
               => b \in {writing'["gate"], writing'["handler"]},
         d = "partial" => a \in {writing'["gate"], writing'["handler"]}
  PROVE  PartOK'
BY AssetsAssumption DEF AssetInv, AssetType, PartOK, Rewritten, Assets!AVDWriter

\* Every step keeps the invariant of the provisioning.
LEMMA AssetInvNext ==
  ASSUME AssetInv, [Assets!Next]_assetVars
  PROVE  AssetInv'
<1>0. AssetType /\ PartOK /\ GateOK BY DEF AssetInv
<1>n. None \notin {"tools", "base", "golden"} /\ Shipped \in Names /\ ShippedLeaf \in Leaves
  BY AssetsAssumption
<1>1. ASSUME NEW w \in {"gate", "handler"}, writing[w] # None, Assets!Unpacked(w),
             UNCHANGED <<packages, host, gate, download, phone, lost, cut>>
      PROVE  AssetInv'
  <2> DEFINE a == writing[w]
  <2>1. a \in {"tools", "base", "golden"} BY <1>0, <1>1 DEF AssetType
  <2>2. PICK d \in {"partial", "whole"} :
           /\ Rewritten(a, d)
           /\ d = "partial" => \E v \in {"gate", "handler"} \ {w} : writing[v] = a
    BY <1>0, <1>1, UnpackedFacts
  <2>3. /\ avd' \in [Names -> AVDRecord] /\ golden' \in [Leaves -> {"absent", "partial", "whole"}]
        /\ writing' = [writing EXCEPT ![w] = None] /\ (a = "base" => avd'[Shipped].ini)
    BY <1>0, <1>1, UnpackedFacts
  <2>4. AssetType' BY <1>0, <1>1, <2>3 DEF AssetType
  <2>5. GateOK' BY <1>0, <1>1, <2>1, <2>2, <2>3, <2>4, RewriteKeeps
  <2>6. \A v \in {"gate", "handler"} \ {w} : writing'[v] = writing[v]
    BY <1>0, <2>3 DEF AssetType
  <2>7. PartOK' BY <1>0, <1>1, <2>1, <2>2, <2>6, RewriteExplained
  <2>8. QED BY <2>4, <2>5, <2>7 DEF AssetInv
<1>2. ASSUME Assets!Extract PROVE AssetInv'
  <2>1. PICK w \in DOMAIN writing : writing[w] # None /\ Assets!Unpack(writing[w])
    BY <1>2 DEF Assets!Extract
  <2>2. UNCHANGED <<packages, host, gate, download, writing, phone, lost, cut>>
    BY <1>2 DEF Assets!Extract
  <2>3. w \in {"gate", "handler"} /\ writing[w] \in {"tools", "base", "golden"}
    BY <1>0, <2>1 DEF AssetType
  <2>4. /\ avd' \in [Names -> AVDRecord] /\ golden' \in [Leaves -> {"absent", "partial", "whole"}]
        /\ Rewritten(writing[w], "partial")
    BY <1>0, <2>1, <2>3, UnpackFacts
  <2>5. AssetType' BY <1>0, <2>2, <2>4 DEF AssetType
  <2>6. GateOK' BY <2>2, <2>3, <2>4, <2>5, RewriteKeeps
  <2>7. PartOK' BY <2>2, <2>3, <2>4, RewriteExplained
  <2>8. QED BY <2>5, <2>6, <2>7 DEF AssetInv
<1>3. ASSUME Assets!Begin PROVE AssetInv'
  <2>1. PICK inventory \in Inventories, active \in BOOLEAN :
           gate' = [at |-> "sdk", inventory |-> inventory, active |-> active, image |-> None]
    BY <1>3 DEF Assets!Begin
  <2>2. gate.at = "idle" /\ UNCHANGED <<avd, golden, packages, host, writing, phone, lost, cut>>
    BY <1>3 DEF Assets!Begin, Assets!disk
  <2>3. gate' \in GateRecord BY <2>1 DEF GateRecord, GateStep, SystemImages
  <2>4. gate'.at = "sdk" BY <2>1
  <2>5. AssetType' BY <1>0, <2>2, <2>3 DEF AssetType
  <2>6. PartOK' BY <1>0, <2>2 DEF PartOK
  <2>7. GateOK' BY <1>0, <2>2, <2>4 DEF GateOK, Chosen
  <2>8. QED BY <2>5, <2>6, <2>7 DEF AssetInv
<1>4. ASSUME gate' = Assets!Idle, writing'["gate"] = None, AssetType', PartOK',
             UNCHANGED <<avd, golden>>
      PROVE  AssetInv'
  <2>1. gate'.at = "idle" BY <1>4 DEF Assets!Idle
  <2>2. GateOK' BY <1>0, <1>4, <2>1 DEF GateOK, Chosen
  <2>3. QED BY <1>4, <2>2 DEF AssetInv
<1>5. ASSUME Assets!Fail PROVE AssetInv'
  <2>1. /\ gate' = Assets!Idle /\ UNCHANGED <<avd, golden, phone>> /\ Assets!Stopped({"gate"})
    BY <1>5 DEF Assets!Fail, Assets!disk
  <2>2. /\ writing' \in [{"gate", "handler"} -> {None, "tools", "base", "golden"}]
        /\ writing'["gate"] = None /\ writing'["handler"] = writing["handler"] /\ cut \subseteq cut'
        /\ writing["gate"] # None => writing["gate"] \in cut'
    BY <1>0, <2>1, StoppedFacts
  <2>3. AssetType' BY <1>0, <2>1, <2>2 DEF AssetType
  <2>4. PartOK' BY <1>0, <2>1, <2>2, PartsExplained
  <2>5. QED BY <1>4, <2>1, <2>2, <2>3, <2>4
<1>6. ASSUME Assets!Crash PROVE AssetInv'
  <2>1. /\ gate' = Assets!Idle /\ UNCHANGED <<avd, golden, phone>>
        /\ Assets!Stopped({"gate", "handler"})
    BY <1>6 DEF Assets!Crash, Assets!disk
  <2>2. /\ writing' \in [{"gate", "handler"} -> {None, "tools", "base", "golden"}]
        /\ writing'["gate"] = None /\ cut \subseteq cut'
        /\ \A w \in {"gate", "handler"} : writing[w] # None => writing[w] \in cut'
    BY <1>0, <2>1, StoppedFacts
  <2>3. AssetType' BY <1>0, <2>1, <2>2 DEF AssetType
  <2>4. PartOK' BY <1>0, <2>1, <2>2, PartsExplained
  <2>5. QED BY <1>4, <2>1, <2>2, <2>3, <2>4
<1>7. ASSUME Assets!DownloadFails PROVE AssetInv'
  <2>1. /\ UNCHANGED <<gate, avd, golden, packages, host, phone, lost>>
        /\ Assets!Stopped({"handler"})
    BY <1>7 DEF Assets!DownloadFails, Assets!disk
  <2>2. /\ writing' \in [{"gate", "handler"} -> {None, "tools", "base", "golden"}]
        /\ writing'["gate"] = writing["gate"] /\ cut \subseteq cut'
        /\ writing["handler"] # None => writing["handler"] \in cut'
    BY <1>0, <2>1, StoppedFacts
  <2>3. AssetType' BY <1>0, <2>1, <2>2 DEF AssetType
  <2>4. PartOK' BY <1>0, <2>1, <2>2, PartsExplained
  <2>5. GateOK' BY <1>0, <2>1, <2>2 DEF GateOK, Chosen, Assets!hasEnabledEmulator, Assets!Emu, Assets!AVDAssetsExist,
          Assets!GoldenAssetsExist, Assets!Emulator, Assets!PlatformTools
  <2>6. QED BY <2>3, <2>4, <2>5 DEF AssetInv
<1>8. ASSUME UNCHANGED <<avd, golden, packages, host, gate, phone, lost, cut>>,
             writing' = [writing EXCEPT !["handler"] = writing'["handler"]],
             writing["handler"] # None => writing'["handler"] = writing["handler"],
             writing'["handler"] \in {None, "tools", "base", "golden"}
      PROVE  AssetInv'
  <2>1. writing'["gate"] = writing["gate"] BY <1>0, <1>8 DEF AssetType
  <2>2. AssetType' BY <1>0, <1>8 DEF AssetType
  <2>3. PartOK' BY <1>0, <1>8, <2>1, PartsExplained
  <2>4. GateOK' BY <1>0, <1>8, <2>1 DEF GateOK, Chosen, Assets!hasEnabledEmulator, Assets!Emu, Assets!AVDAssetsExist,
          Assets!GoldenAssetsExist, Assets!Emulator, Assets!PlatformTools
  <2>5. QED BY <2>2, <2>3, <2>4 DEF AssetInv
<1>9. ASSUME NEW a \in {"base", "golden"}, NEW present \in BOOLEAN, NEW next,
             Assets!DownloadStep(a, present, next)
      PROVE  AssetInv'
  <2>1. /\ UNCHANGED <<avd, golden, packages, host, gate, phone, lost, cut>>
        /\ writing["handler"] = None
        /\ writing' = writing \/ writing' = [writing EXCEPT !["handler"] = a]
    BY <1>9 DEF Assets!DownloadStep, Assets!disk, Assets!BeginExtract
  <2>2. QED BY <1>0, <1>8, <2>1 DEF AssetType
<1>10. ASSUME Assets!androidEmulatorAssetsDownload \/ Assets!DownloadComplete PROVE AssetInv'
  <2>1. UNCHANGED <<avd, golden, packages, host, gate, writing, phone, lost, cut>>
    BY <1>10 DEF Assets!androidEmulatorAssetsDownload, Assets!DownloadComplete, Assets!disk
  <2>2. QED BY <1>0, <1>8, <2>1 DEF AssetType
<1>11. ASSUME UNCHANGED assetVars PROVE AssetInv'
  BY <1>0, <1>8, <1>11 DEF AssetType, assetVars
<1>12. ASSUME NEW p \in Phones, Assets!deviceConnect(p) PROVE AssetInv'
  <2>1. /\ phone' = [phone EXCEPT ![p] = "device"]
        /\ UNCHANGED <<avd, golden, packages, host, gate, writing, lost, cut>>
    BY <1>12 DEF Assets!deviceConnect, Assets!disk
  <2>2. AssetType' BY <1>0, <2>1 DEF AssetType
  <2>3. PartOK' BY <1>0, <2>1 DEF PartOK
  <2>4. \A q \in Phones : phone[q] = "device" => phone'[q] = "device"
    BY <1>0, <2>1 DEF AssetType
  <2>5. GateOK' BY <1>0, <2>1, <2>4, GateFacts DEF GateOK, Chosen, Assets!hasEnabledEmulator, Assets!Emu, Assets!AVDAssetsExist,
          Assets!GoldenAssetsExist, Assets!Emulator, Assets!PlatformTools
  <2>6. QED BY <2>2, <2>3, <2>5 DEF AssetInv
<1>13. ASSUME NEW p \in Phones, Assets!deviceDisconnect(p) PROVE AssetInv'
  <2>1. /\ phone' = [phone EXCEPT ![p] = "offline"]
        /\ gate.at = "ready" => lost' = lost \cup {p}
        /\ UNCHANGED <<avd, golden, packages, host, gate, writing, cut>>
    BY <1>13 DEF Assets!deviceDisconnect, Assets!disk
  <2>2. AssetType' BY <1>0, <2>1 DEF AssetType
  <2>3. PartOK' BY <1>0, <2>1 DEF PartOK
  <2>4. gate.at = "ready" =>
           \A q \in Phones : phone[q] = "device" \/ q \in lost => phone'[q] = "device" \/ q \in lost'
    BY <1>0, <2>1 DEF AssetType
  <2>5. GateOK' BY <1>0, <2>1, <2>4, GateFacts DEF GateOK, Chosen, Assets!hasEnabledEmulator, Assets!Emu, Assets!AVDAssetsExist,
          Assets!GoldenAssetsExist, Assets!Emulator, Assets!PlatformTools
  <2>6. QED BY <2>2, <2>3, <2>5 DEF AssetInv
<1>14. ASSUME NEW at \in GateStep, Assets!Goto(at), gate.at # "idle",
              UNCHANGED <<avd, golden, packages, host, phone, lost, cut, writing>>,
              gate' \in GateRecord /\ gate'.at = at /\ gate'.inventory = gate.inventory
                 /\ gate'.active = gate.active /\ gate'.image = gate.image => GateOK'
       PROVE  AssetInv'
  <2>1. /\ gate' \in GateRecord /\ gate'.at = at /\ gate'.inventory = gate.inventory
        /\ gate'.active = gate.active /\ gate'.image = gate.image
    BY <1>0, <1>14, GateMoves
  <2>2. AssetType' BY <1>0, <1>14, <2>1 DEF AssetType
  <2>3. PartOK' BY <1>0, <1>14 DEF PartOK
  <2>4. QED BY <1>14, <2>1, <2>2, <2>3 DEF AssetInv
<1>15. ASSUME Assets!NothingRequired PROVE AssetInv'
  <2>1. /\ gate.at = "sdk" /\ writing["gate"] = None /\ Assets!Goto("connect")
        /\ ~Assets!hasEnabledEmulator
        /\ UNCHANGED <<avd, golden, packages, host, writing, phone, lost, cut>>
    BY <1>15 DEF Assets!NothingRequired, Assets!At, Assets!disk, Assets!requiredCapabilities
  <2>2. QED BY <1>14, <2>1, GateFacts, <1>0
        DEF GateStep, GateOK, Chosen, Assets!hasEnabledEmulator, Assets!Emu, Assets!AVDAssetsExist,
          Assets!GoldenAssetsExist, Assets!Emulator, Assets!PlatformTools
<1>16. ASSUME Assets!AVDPresent PROVE AssetInv'
  <2>1. /\ gate.at \in {"avd", "create"} /\ writing["gate"] = None /\ Assets!Goto("read")
        /\ Assets!AVDAssetsExist(Assets!Emu.name)
        /\ UNCHANGED <<avd, golden, packages, host, writing, phone, lost, cut>>
    BY <1>16 DEF Assets!AVDPresent, Assets!At, Assets!disk
  <2>2. QED BY <1>14, <2>1, GateFacts, <1>0
        DEF GateStep, GateOK, Chosen, Assets!hasEnabledEmulator, Assets!Emu, Assets!AVDAssetsExist,
          Assets!GoldenAssetsExist, Assets!Emulator, Assets!PlatformTools
<1>17. ASSUME Assets!GoldenPresent PROVE AssetInv'
  <2>1. /\ gate.at \in {"golden", "goldenCheck"} /\ writing["gate"] = None /\ Assets!Goto("verify")
        /\ Assets!GoldenAssetsExist(Assets!Emu.leaf)
        /\ UNCHANGED <<avd, golden, packages, host, writing, phone, lost, cut>>
    BY <1>17 DEF Assets!GoldenPresent, Assets!At, Assets!disk
  <2>2. QED BY <1>14, <2>1, GateFacts, <1>0
        DEF GateStep, GateOK, Chosen, Assets!hasEnabledEmulator, Assets!Emu, Assets!AVDAssetsExist,
          Assets!GoldenAssetsExist, Assets!Emulator, Assets!PlatformTools
<1>18. ASSUME Assets!verifyRuntimeCapabilities PROVE AssetInv'
  <2>1. /\ gate.at = "verify" /\ writing["gate"] = None /\ Assets!Goto("connect")
        /\ {Assets!Emulator, Assets!PlatformTools, gate.image} \subseteq packages
        /\ gate.active => host.kvm
        /\ UNCHANGED <<avd, golden, packages, host, writing, phone, lost, cut>>
    BY <1>18 DEF Assets!verifyRuntimeCapabilities, Assets!At, Assets!disk, Assets!verifyPreparedCapabilities
  <2>2. QED BY <1>14, <2>1, GateFacts, <1>0
        DEF GateStep, GateOK, Chosen, Assets!hasEnabledEmulator, Assets!Emu, Assets!AVDAssetsExist,
          Assets!GoldenAssetsExist, Assets!Emulator, Assets!PlatformTools
<1>19. ASSUME Assets!ValidateConfiguredPhysicalDevices PROVE AssetInv'
  <2>1. /\ gate.at = "state" /\ writing["gate"] = None /\ Assets!Goto("ready")
        /\ \A p \in gate.inventory.phones : phone[p] = "device" \/ p \in lost
        /\ UNCHANGED <<avd, golden, packages, host, writing, phone, lost, cut>>
    BY <1>19 DEF Assets!ValidateConfiguredPhysicalDevices, Assets!At, Assets!disk
  <2>2. QED BY <1>14, <2>1, GateFacts, <1>0
        DEF GateStep, GateOK, Chosen, Assets!hasEnabledEmulator, Assets!Emu, Assets!AVDAssetsExist,
          Assets!GoldenAssetsExist, Assets!Emulator, Assets!PlatformTools
<1>20. ASSUME Assets!Prepared PROVE AssetInv'
  <2>1. /\ gate.at = "connect" /\ writing["gate"] = None /\ Assets!Goto("ready")
        /\ ~gate.active
        /\ UNCHANGED <<avd, golden, packages, host, writing, phone, lost, cut>>
    BY <1>20 DEF Assets!Prepared, Assets!At, Assets!disk
  <2>2. QED BY <1>14, <2>1, GateFacts, <1>0
        DEF GateStep, GateOK, Chosen, Assets!hasEnabledEmulator, Assets!Emu, Assets!AVDAssetsExist,
          Assets!GoldenAssetsExist, Assets!Emulator, Assets!PlatformTools
<1>21. ASSUME Assets!Return PROVE AssetInv'
  <2>1. /\ gate' = Assets!Idle /\ writing["gate"] = None
        /\ UNCHANGED <<avd, golden, writing, phone, cut>>
    BY <1>21 DEF Assets!Return, Assets!At, Assets!disk
  <2>2. AssetType' BY <1>0, <2>1 DEF AssetType
  <2>3. PartOK' BY <1>0, <2>1 DEF PartOK
  <2>4. QED BY <1>4, <2>1, <2>2, <2>3
<1>22. ASSUME Assets!PackagesFail PROVE AssetInv'
  <2>1. /\ gate' = Assets!Idle /\ writing["gate"] = None
        /\ UNCHANGED <<avd, golden, writing, phone, cut>>
    BY <1>22 DEF Assets!PackagesFail, Assets!At
  <2>2. AssetType' BY <1>0, <2>1 DEF AssetType
  <2>3. PartOK' BY <1>0, <2>1 DEF PartOK
  <2>4. QED BY <1>4, <2>1, <2>2, <2>3
<1>23. ASSUME Assets!avdSystemImage PROVE AssetInv'
  <2>1. /\ gate.at = "read" /\ writing["gate"] = None
        /\ Assets!AVDAssetsExist(Assets!Emu.name) /\ avd[Assets!Emu.name].image # None
        /\ gate' = [gate EXCEPT !.at = "image", !.image = avd[Assets!Emu.name].image]
        /\ UNCHANGED <<avd, golden, packages, host, writing, phone, lost, cut>>
    BY <1>23 DEF Assets!avdSystemImage, Assets!At, Assets!disk
  <2>2. Assets!hasEnabledEmulator /\ Assets!Emu.name \in Names
    BY <1>0, <2>1, GateFacts DEF GateOK
  <2>3. avd[Assets!Emu.name].image \in SystemImages BY <1>0, <2>2 DEF AssetType, AVDRecord
  <2>4. /\ gate' \in GateRecord /\ gate'.at = "image" /\ gate'.inventory = gate.inventory
        /\ gate'.active = gate.active /\ gate'.image = avd[Assets!Emu.name].image
    BY <1>0, <2>1, <2>3, GateFacts DEF GateRecord, GateStep
  <2>5. AssetType' BY <1>0, <2>1, <2>4 DEF AssetType
  <2>6. PartOK' BY <1>0, <2>1 DEF PartOK
  <2>7. GateOK'
    BY <1>0, <2>1, <2>2, <2>4 DEF GateOK, Chosen, Assets!hasEnabledEmulator, Assets!Emu, Assets!AVDAssetsExist,
          Assets!GoldenAssetsExist, Assets!Emulator, Assets!PlatformTools
  <2>8. QED BY <2>5, <2>6, <2>7 DEF AssetInv
<1>24. ASSUME NEW a \in {"tools", "base", "golden"}, writing["gate"] = None,
              Assets!BeginExtract("gate", a), UNCHANGED <<avd, golden, packages, host, phone, lost, cut>>,
              gate' \in {gate} \cup GateRecord,
              writing'["gate"] = a /\ writing'["handler"] = writing["handler"] => GateOK'
       PROVE  AssetInv'
  <2>1. /\ writing' \in [{"gate", "handler"} -> {None, "tools", "base", "golden"}]
        /\ writing'["gate"] = a /\ writing'["handler"] = writing["handler"]
    BY <1>0, <1>24 DEF AssetType, Assets!BeginExtract
  <2>2. AssetType' BY <1>0, <1>24, <2>1 DEF AssetType
  <2>3. PartOK' BY <1>0, <1>24, <2>1, PartsExplained
  <2>4. QED BY <1>24, <2>1, <2>2, <2>3 DEF AssetInv
<1>25. ASSUME Assets!ensureSDKManager PROVE AssetInv'
  <2>1. /\ gate.at \in {"sdk", "image"} /\ writing["gate"] = None
        /\ Assets!BeginExtract("gate", "tools")
        /\ UNCHANGED <<avd, golden, packages, host, gate, phone, lost, cut>>
    BY <1>25 DEF Assets!ensureSDKManager, Assets!At, Assets!disk
  <2>2. QED BY <1>0, <1>24, <2>1 DEF GateOK, Chosen, Assets!hasEnabledEmulator, Assets!Emu, Assets!AVDAssetsExist,
          Assets!GoldenAssetsExist, Assets!Emulator, Assets!PlatformTools
<1>26. ASSUME Assets!PrepareAVD PROVE AssetInv'
  <2>1. /\ gate.at = "avd" /\ writing["gate"] = None /\ Assets!Goto("create")
        /\ Assets!BeginExtract("gate", "base")
        /\ UNCHANGED <<avd, golden, packages, host, phone, lost, cut>>
    BY <1>26 DEF Assets!PrepareAVD, Assets!At, Assets!disk
  <2>2. /\ gate' \in GateRecord /\ gate'.at = "create" /\ gate'.inventory = gate.inventory
    BY <1>0, <2>1, GateMoves DEF GateStep
  <2>3. QED BY <1>0, <1>24, <2>1, <2>2 DEF GateOK, Chosen, Assets!hasEnabledEmulator, Assets!Emu, Assets!AVDAssetsExist,
          Assets!GoldenAssetsExist, Assets!Emulator, Assets!PlatformTools
<1>27. ASSUME Assets!PrepareGolden PROVE AssetInv'
  <2>1. /\ gate.at = "golden" /\ writing["gate"] = None /\ Assets!Goto("goldenCheck")
        /\ Assets!BeginExtract("gate", "golden")
        /\ UNCHANGED <<avd, golden, packages, host, phone, lost, cut>>
    BY <1>27 DEF Assets!PrepareGolden, Assets!At, Assets!disk
  <2>2. /\ gate' \in GateRecord /\ gate'.at = "goldenCheck" /\ gate'.inventory = gate.inventory
        /\ gate'.image = gate.image
    BY <1>0, <2>1, GateMoves DEF GateStep
  <2>3. QED BY <1>0, <1>24, <2>1, <2>2 DEF GateOK, Chosen, Assets!hasEnabledEmulator, Assets!Emu, Assets!AVDAssetsExist,
          Assets!GoldenAssetsExist, Assets!Emulator, Assets!PlatformTools
<1>28. ASSUME Assets!EnsureAVD PROVE AssetInv'
  <2>1. /\ gate.at = "create" /\ writing["gate"] = None /\ Assets!Goto("read")
        /\ ~Assets!AVDAssetsExist(Assets!Emu.name)
        /\ avd' = [avd EXCEPT ![Assets!Emu.name] = Assets!AVDOf(Assets!Emu.image)]
        /\ UNCHANGED <<golden, packages, host, writing, phone, lost, cut>>
    BY <1>28 DEF Assets!EnsureAVD, Assets!At
  <2>2. /\ gate' \in GateRecord /\ gate'.at = "read" /\ gate'.inventory = gate.inventory
        /\ gate'.image = gate.image
    BY <1>0, <2>1, GateMoves DEF GateStep
  <2>3. /\ Assets!hasEnabledEmulator /\ Assets!Emu.name \in Names
        /\ Assets!Emu.image \in SystemImages
    BY <1>0, <2>1, GateFacts DEF GateOK
  <2>4. Assets!Emu.name # Shipped BY <1>0, <1>n, <2>1 DEF GateOK
  <2> DEFINE new == Assets!AVDOf(Assets!Emu.image)
  <2>5. new \in AVDRecord /\ new.dir = "whole" /\ new.ini BY <2>3 DEF AVDRecord, Assets!AVDOf
  <2> HIDE DEF new
  <2>6. /\ avd' \in [Names -> AVDRecord] /\ avd'[Assets!Emu.name] = new
        /\ \A n \in Names \ {Assets!Emu.name} : avd'[n] = avd[n]
    BY <1>0, <2>1, <2>3, <2>5 DEF AssetType, new
  <2>7. AssetType' BY <1>0, <2>1, <2>2, <2>6 DEF AssetType
  <2>8. PartOK' BY <1>0, <2>1, <2>5, <2>6 DEF PartOK
  <2>9. GateOK'
    BY <1>0, <1>n, <2>1, <2>2, <2>4, <2>5, <2>6 DEF GateOK, Chosen, Assets!hasEnabledEmulator, Assets!Emu, Assets!AVDAssetsExist,
          Assets!GoldenAssetsExist, Assets!Emulator, Assets!PlatformTools
  <2>10. QED BY <2>7, <2>8, <2>9 DEF AssetInv
<1>28a. ASSUME Assets!EnsureAVDStops PROVE AssetInv'
  <2>1. /\ gate.at = "create" /\ writing["gate"] = None /\ gate' = Assets!Idle
        /\ ~Assets!AVDAssetsExist(Assets!Emu.name)
        /\ cut' = cut \cup {"avd"}
        /\ UNCHANGED <<golden, packages, host, writing, phone>>
    BY <1>28a DEF Assets!EnsureAVDStops, Assets!At
  <2>2. PICK ini \in {TRUE, avd[Assets!Emu.name].ini}, image \in {None, Assets!Emu.image} :
           avd' = [avd EXCEPT ![Assets!Emu.name] = [dir |-> "partial", ini |-> ini, image |-> image]]
    BY <1>28a DEF Assets!EnsureAVDStops
  <2>3. /\ Assets!Emu.name \in Names /\ Assets!Emu.image \in SystemImages
    BY <1>0, <2>1, GateFacts DEF GateOK
  <2>4. Assets!Emu.name # Shipped BY <1>0, <1>n, <2>1 DEF GateOK
  <2> DEFINE new == [dir |-> "partial", ini |-> ini, image |-> image]
  <2>5. ini \in BOOLEAN BY <1>0, <2>3 DEF AssetType, AVDRecord
  <2>6. new \in AVDRecord /\ new.dir = "partial" BY <2>3, <2>5 DEF AVDRecord, SystemImages
  <2> HIDE DEF new
  <2>7. /\ avd' \in [Names -> AVDRecord] /\ avd'[Assets!Emu.name] = new
        /\ \A n \in Names \ {Assets!Emu.name} : avd'[n] = avd[n]
    BY <1>0, <2>2, <2>3, <2>6 DEF AssetType, new
  <2>8. AssetType' BY <1>0, <2>1, <2>7 DEF AssetType
  <2>9. PartOK' BY <1>0, <2>1, <2>4, <2>7 DEF PartOK, Assets!AVDWriter
  <2>10. GateOK'
    BY <1>0, <1>n, <2>1, <2>4, <2>7 DEF GateOK, Chosen, Assets!Idle
  <2>11. QED BY <2>8, <2>9, <2>10 DEF AssetInv
<1>29. ASSUME Assets!EnsureCapabilitiesWithRunner PROVE AssetInv'
  <2>1. /\ gate.at \in {"sdk", "image"} /\ writing["gate"] = None
        /\ Assets!Goto(Assets!AfterPackages) /\ packages \subseteq packages'
        /\ UNCHANGED <<avd, golden, host, writing, phone, lost, cut>>
    BY <1>29 DEF Assets!EnsureCapabilitiesWithRunner, Assets!At
  <2>2. /\ Assets!AfterPackages \in GateStep
        /\ gate.at = "image" => Assets!AfterPackages = "golden"
        /\ gate.at = "sdk" => Assets!AfterPackages = IF Assets!hasEnabledEmulator THEN "avd" ELSE "connect"
    BY <2>1 DEF Assets!AfterPackages, GateStep
  <2>3. /\ gate' \in GateRecord /\ gate'.at = Assets!AfterPackages
        /\ gate'.inventory = gate.inventory
        /\ gate'.active = gate.active /\ gate'.image = gate.image
    BY <1>0, <2>1, <2>2, GateMoves
  <2>4. AssetType' BY <1>0, <2>1, <2>3 DEF AssetType
  <2>5. PartOK' BY <1>0, <2>1 DEF PartOK
  <2>6. GateOK' BY <1>0, <2>1, <2>2, <2>3 DEF GateOK, Chosen, Assets!hasEnabledEmulator, Assets!Emu, Assets!AVDAssetsExist,
          Assets!GoldenAssetsExist, Assets!Emulator, Assets!PlatformTools
  <2>7. QED BY <2>4, <2>5, <2>6 DEF AssetInv
<1>30. ASSUME Assets!ConnectConfiguredWiFiDevices PROVE AssetInv'
  <2>1. PICK reached \in SUBSET gate.inventory.phones :
           phone' = [p \in Phones |-> IF p \in reached THEN "device" ELSE phone[p]]
    BY <1>30 DEF Assets!ConnectConfiguredWiFiDevices
  <2>2. /\ gate.at = "connect" /\ writing["gate"] = None /\ Assets!Goto("state")
        /\ UNCHANGED <<avd, golden, packages, host, writing, lost, cut>>
    BY <1>30 DEF Assets!ConnectConfiguredWiFiDevices, Assets!At, Assets!disk
  <2>3. /\ gate' \in GateRecord /\ gate'.at = "state" /\ gate'.inventory = gate.inventory
        /\ gate'.active = gate.active /\ gate'.image = gate.image
    BY <1>0, <2>2, GateMoves DEF GateStep
  <2>4. phone' \in [Phones -> {"offline", "device"}] BY <1>0, <2>1 DEF AssetType
  <2>5. AssetType' BY <1>0, <2>2, <2>3, <2>4 DEF AssetType
  <2>6. PartOK' BY <1>0, <2>2 DEF PartOK
  <2>7. GateOK' BY <1>0, <2>2, <2>3 DEF GateOK, Chosen, Assets!hasEnabledEmulator, Assets!Emu, Assets!AVDAssetsExist,
          Assets!GoldenAssetsExist, Assets!Emulator, Assets!PlatformTools
  <2>8. QED BY <2>5, <2>6, <2>7 DEF AssetInv
<1>31. ASSUME Assets!GateExtracted \/ Assets!HandlerExtracted PROVE AssetInv'
  BY <1>1, <1>31 DEF Assets!GateExtracted, Assets!HandlerExtracted
<1>32. ASSUME Assets!DownloadBase \/ Assets!DownloadGolden PROVE AssetInv'
  <2>1. CASE Assets!DownloadBase
    BY <1>9, <2>1, Zenon DEF Assets!DownloadBase, Assets!AVDAssetsExist
  <2>2. CASE Assets!DownloadGolden
    BY <1>9, <2>2, Zenon DEF Assets!DownloadGolden, Assets!GoldenAssetsExist
  <2>3. QED BY <1>32, <2>1, <2>2
<1>33. ASSUME Assets!Gate PROVE AssetInv'
  BY <1>3, <1>5, <1>15, <1>16, <1>17, <1>18, <1>19, <1>20, <1>21, <1>22, <1>23, <1>25, <1>26,
     <1>27, <1>28, <1>28a, <1>29, <1>30, <1>31, <1>33, Zenon DEF Assets!Gate
<1>34. ASSUME Assets!Handlers PROVE AssetInv'
  BY <1>7, <1>10, <1>12, <1>13, <1>31, <1>32, <1>34, Zenon DEF Assets!Handlers
<1>35. QED BY <1>2, <1>6, <1>11, <1>33, <1>34, Zenon DEF Assets!Next

-----------------------------------------------------------------------------
(* The three parts                                                         *)

DeviceInv == CacheInv /\ StoreInv /\ AssetInv

\* Each part begins in its invariant.
LEMMA DeviceInvInit == Init => DeviceInv
<1>1. Cache!Init => CacheInv
  BY InstallersAssumption
  DEF Cache!Init, CacheInv, CacheType, FetchRecord, FetchStep, FileOK, AppOK
<1>2. Store!Init => StoreInv
  BY DEF Store!Init, StoreInv, Store!Idle, NothingIsLost, Store!NothingIsLost
<1>3. ASSUME Assets!Init PROVE AssetInv
  <2>1. Assets!NoAVD \in AVDRecord /\ Assets!NoAVD.dir = "absent" /\ Assets!NoAVD.image = None
    BY DEF Assets!NoAVD, AVDRecord, SystemImages
  <2>2. /\ Assets!AVDOf(ShippedImage) \in AVDRecord /\ Assets!AVDOf(ShippedImage).dir = "whole"
        /\ Assets!AVDOf(ShippedImage).image = ShippedImage
    BY DEF Assets!AVDOf, AVDRecord, SystemImages
  <2>3. /\ avd \in [Names -> AVDRecord] /\ avd[Shipped].image \in {None, ShippedImage}
        /\ \A n \in Names : avd[n].dir # "partial"
    BY <1>3, <2>1, <2>2, AssetsAssumption DEF Assets!Init
  <2>4. /\ golden \in [Leaves -> {"absent", "partial", "whole"}]
        /\ \A l \in Leaves : golden[l] # "partial"
        /\ gate = Assets!Idle /\ gate.at = "idle"
        /\ writing \in [{"gate", "handler"} -> {None, "tools", "base", "golden"}]
        /\ writing["gate"] = None
        /\ phone \in [Phones -> {"offline", "device"}]
    BY <1>3 DEF Assets!Init, Assets!Idle
  <2>5. AssetType BY <2>3, <2>4 DEF AssetType
  <2>6. PartOK BY <2>3, <2>4 DEF PartOK
  <2>7. GateOK BY <2>3, <2>4 DEF GateOK, Chosen
  <2>8. QED BY <2>5, <2>6, <2>7 DEF AssetInv
<1>4. QED BY <1>1, <1>2, <1>3 DEF Init, DeviceInv

\* In every behaviour each part keeps its invariant.
LEMMA DeviceInvHolds == Spec => []DeviceInv
<1>1. ASSUME DeviceInv, [Next]_<<focus, cacheVars, storeVars, assetVars>> PROVE DeviceInv'
  <2>1. /\ [Cache!Next]_cacheVars
        /\ [Store!Next]_storeVars
        /\ [Assets!Next]_assetVars
    BY <1>1, Zenon DEF Next
  <2>2. QED BY <1>1, <2>1, CacheInvNext, StoreInvNext, AssetInvNext DEF DeviceInv
<1>2. QED BY <1>1, DeviceInvInit, PTL DEF Spec

-----------------------------------------------------------------------------
(* The theorems                                                            *)

\* The path a fetch answers names a complete installer or app, whatever failed
\* before it, unless requests for it overlapped or, for one that is not an
\* archive, a download of it was cut short (fetch_installer_and_action.go).
THEOREM InstallerWhole == Spec => []ReturnedIsWhole
<1>1. ASSUME CacheInv PROVE ReturnedIsWhole
  <2>1. SUFFICES ASSUME NEW r \in Fetches, fetch[r].at = "return", fetch[r].of \notin shared,
                        \A q \in Cache!Peers(r) : fetch[q].at \notin {"copy", "extract"}
                 PROVE  IF fetch[r].of \in Zipped THEN app[fetch[r].of] = "whole"
                        ELSE cache[fetch[r].of] = "whole" \/ fetch[r].of \in installerCut
    BY DEF ReturnedIsWhole, Cache!ReturnedIsWhole
  <2>2. fetch[r].of \in Installers BY <1>1 DEF CacheInv, CacheType, FetchRecord
  <2>3. cache[fetch[r].of] \in {"partial", "whole"}
    BY <1>1, <2>1, <2>2 DEF CacheInv, CacheType, FileOK
  <2>4. \A q \in Fetches : fetch[q].at = "copy" => fetch[q].of # fetch[r].of
    BY <2>1 DEF Cache!Peers
  <2>5. QED BY <1>1, <2>1, <2>2, <2>3, <2>4 DEF CacheInv, FileOK, AppOK
<1>2. QED BY <1>1, DeviceInvHolds, PTL DEF DeviceInv

\* A file an activity wrote exists until Credimi has it, or has a file of the
\* same result whose directory it lies in: neither lost answers and failed
\* uploads nor requests side by side nor a crash between the upload and the
\* removal lose it (store_pipeline_result.go, store_execution_screenshots.go).
THEOREM ArtifactsKept == Spec => []NothingIsLost
<1>1. DeviceInv => NothingIsLost BY DEF DeviceInv, StoreInv
<1>2. QED BY <1>1, DeviceInvHolds, PTL

\* When the gate returns nil, the tools and the image the AVD itself declares
\* are installed, an activation has /dev/kvm, and every phone
\* answered adb when it was asked (emulator_ready.go).
THEOREM GateReady == Spec => []GateIsReady
<1>1. ASSUME AssetInv PROVE GateIsReady
  BY <1>1
  DEF AssetInv, GateOK, Chosen, GateIsReady, Assets!GateIsReady
<1>2. QED BY <1>1, DeviceInvHolds, PTL DEF DeviceInv

\* Incomplete assets behind a nil are the rest of an extraction, or of an
\* avdmanager, that stopped half-way, or are being rewritten by the download
\* handler (emulator_ready.go, assets.go, provision.go).
THEOREM CutExplains == Spec => []UnusableWasCut
<1>1. ASSUME AssetInv PROVE UnusableWasCut
  <2>1. SUFFICES ASSUME gate.at = "ready", Assets!hasEnabledEmulator
                 PROVE  /\ avd[Assets!Emu.name].dir = "whole"
                           \/ Assets!AVDWriter(Assets!Emu.name) \in cut \cup {writing["handler"]}
                        /\ golden[Assets!Emu.leaf] = "whole"
                           \/ "golden" \in cut \cup {writing["handler"]}
    BY DEF UnusableWasCut, Assets!UnusableWasCut
  <2>2. Assets!Emu.name \in Names /\ Assets!Emu.leaf \in Leaves /\ writing["gate"] = None
    BY <1>1, <2>1, GateFacts DEF AssetInv, GateOK
  <2>3. /\ avd[Assets!Emu.name].dir \in {"partial", "whole"}
        /\ golden[Assets!Emu.leaf] \in {"partial", "whole"}
    BY <1>1, <2>1, <2>2
    DEF AssetInv, AssetType, AVDRecord, GateOK, Chosen, Assets!AVDAssetsExist,
        Assets!GoldenAssetsExist
  <2>4. QED BY <1>1, <2>2, <2>3, AssetsAssumption DEF AssetInv, PartOK, Assets!AVDWriter
<1>2. QED BY <1>1, DeviceInvHolds, PTL DEF DeviceInv
=============================================================================
