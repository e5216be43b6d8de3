------------------------- MODULE ConfigApplyProofs ---------------------------
(***************************************************************************)
(* Proofs about saving and applying a configuration, for any kinds of keys  *)
(* of Impact that include the mode and the service, and any numbers of       *)
(* saves and of edits by others.                                            *)
(***************************************************************************)
EXTENDS ConfigApply, TLAPS

-----------------------------------------------------------------------------
(* Differences                                                             *)

\* What a change of a key calls for, as the proofs need it.
LEMMA ImpactFacts ==
  ASSUME NEW k \in Keys
  PROVE  /\ Impact[k] \subseteq {"reconcile", "credimi"}
         /\ k = "runtime" \/ k = "mode" => Impact[k] # {}
  BY KeysAssumption DEF Impact

\* A difference has the keys that differ and the classes they call for.
Classified(d) == \A k \in d.keys : Impact[k] \subseteq d.classes

\* DiffValues finds the keys that differ and all that they call for.
LEMMA DiffFacts ==
  ASSUME NEW b, NEW c
  PROVE  LET d == DiffValues(b, c) IN
         /\ d \in Diff /\ Classified(d)
         /\ \A k \in Keys : k \in d.keys <=> b[k] # c[k]
<1> DEFINE keys == {k \in Keys : b[k] # c[k]}
           impacts == UNION {Impact[k] : k \in keys}
           classes == impacts \cup (IF "service" \in keys THEN {"service"} ELSE {})
           all == IF classes = {} THEN {"saved_only"} ELSE classes
<1>1. DiffValues(b, c) = [keys |-> keys, classes |-> all]
  BY Zenon DEF DiffValues
<1>2. keys \subseteq Keys /\ \A k \in Keys : k \in keys <=> b[k] # c[k]
  OBVIOUS
<1>3. impacts \subseteq {"reconcile", "credimi"} /\ \A k \in keys : Impact[k] \subseteq impacts
  <2>1. \A k \in keys : Impact[k] \subseteq {"reconcile", "credimi"}
    BY <1>2, ImpactFacts
  <2> QED
    BY <2>1
<1>4. all \subseteq Class /\ impacts \subseteq all
  BY <1>3 DEF Class
<1> HIDE DEF keys, all, impacts
<1> DEFINE d == DiffValues(b, c)
<1>5. d.keys = keys /\ d.classes = all /\ d \in [keys : SUBSET Keys, classes : SUBSET Class]
  BY <1>1, <1>2, <1>4
<1> HIDE DEF d
<1> QED
  BY <1>2, <1>3, <1>4, <1>5 DEF Classified, Diff, d

\* withoutServiceClass and pendingDiffForPlatform keep the keys.
LEMMA PlatformFacts ==
  ASSUME NEW d \in Diff, Classified(d), darwin \in BOOLEAN
  PROVE  /\ withoutServiceClass(d) \in Diff /\ withoutServiceClass(d).keys = d.keys
         /\ Classified(withoutServiceClass(d)) /\ "service" \notin withoutServiceClass(d).classes
         /\ pendingDiffForPlatform(d) \in Diff /\ pendingDiffForPlatform(d).keys = d.keys
         /\ Classified(pendingDiffForPlatform(d))
         /\ darwin \/ "service" \notin pendingDiffForPlatform(d).classes
<1> DEFINE w == withoutServiceClass(d)
<1>1. /\ w \in Diff /\ w.keys = d.keys /\ w.classes = d.classes \ {"service"}
      /\ d.keys \subseteq Keys
  BY DEF Diff, withoutServiceClass
<1> HIDE DEF w
<1>2. Classified(w) /\ "service" \notin w.classes
  BY <1>1, ImpactFacts DEF Classified
<1> QED
  BY <1>1, <1>2 DEF pendingDiffForPlatform, w

\* A merge has the keys and the classes of both.
LEMMA MergeFacts ==
  ASSUME NEW l \in Diff, NEW r \in Diff, Classified(l), Classified(r)
  PROVE  LET m == mergeConfigDiff(l, r) IN
         /\ m \in Diff /\ Classified(m) /\ m.keys = l.keys \cup r.keys
         /\ m.classes = l.classes \cup r.classes
  BY DEF Diff, mergeConfigDiff, Classified

\* The difference of nothing.
LEMMA NoDiffFacts == /\ NoDiff \in Diff /\ NoDiff.keys = {}
                     /\ Classified(NoDiff) /\ "service" \notin NoDiff.classes
  BY DEF NoDiff, Diff, Classified
-----------------------------------------------------------------------------
(* Types                                                                   *)

\* TypeOK with what it needs to be inductive: an operation that saves has a
\* configuration to start from and one to save, and a difference, the one to
\* keep included, has the classes its keys call for.
TypeInv ==
    /\ TypeOK
    /\ op = "none" => step = "none"
    /\ step \in {"compare", "write", "apply"} => /\ new \in Config /\ base \in Config
                                                 /\ op \in {"page", "devices", "setup"}
    /\ step \in {"inventory", "endpoint", "reconcile"} =>
        new \in Config /\ (darwin \/ "service" \notin kept.classes)
    /\ Classified(pending) /\ Classified(kept)

\* What applySavedConfig merges, and what of it the supervisor is to apply.
merged == mergeConfigDiff(pending, pendingDiffForPlatform(DiffValues(base, new)))
left == IF darwin THEN withoutServiceClass(merged) ELSE merged

\* The merge loses nothing: it has what was pending and what is saved now, and
\* off macOS it has no service class.
LEMMA MergedFacts ==
  ASSUME pending \in Diff, Classified(pending), darwin \in BOOLEAN,
         darwin \/ "service" \notin pending.classes
  PROVE  /\ merged \in Diff /\ left \in Diff /\ Classified(merged) /\ Classified(left)
         /\ left.keys = merged.keys
         /\ \A k \in Keys : k \in pending.keys \/ base[k] # new[k] => k \in merged.keys
         /\ darwin \/ "service" \notin merged.classes
         /\ "service" \notin left.classes
<1> DEFINE d == DiffValues(base, new)
           q == pendingDiffForPlatform(d)
<1>1. /\ d \in Diff /\ Classified(d) /\ \A k \in Keys : k \in d.keys <=> base[k] # new[k]
  BY DiffFacts
<1> HIDE DEF d
<1>2. q \in Diff /\ q.keys = d.keys /\ Classified(q) /\ (darwin \/ "service" \notin q.classes)
  BY <1>1, PlatformFacts
<1> HIDE DEF q
<1>3. merged = mergeConfigDiff(pending, q)
  BY DEF merged, q, d
<1>4. /\ merged \in Diff /\ Classified(merged) /\ merged.keys = pending.keys \cup q.keys
      /\ merged.classes = pending.classes \cup q.classes
  BY <1>2, <1>3, MergeFacts
<1>5. /\ withoutServiceClass(merged) \in Diff /\ withoutServiceClass(merged).keys = merged.keys
      /\ Classified(withoutServiceClass(merged))
      /\ "service" \notin withoutServiceClass(merged).classes
  BY <1>4, PlatformFacts
<1> QED
  BY <1>1, <1>2, <1>4, <1>5 DEF left
\* The steps in which the supervisor has the configuration.
ApplySteps == {"inventory", "endpoint", "reconcile"}

\* The outcomes of applySavedConfig.
LEMMA SavedCases ==
  ASSUME applySavedConfig
  PROVE  /\ step = "apply" /\ op \in {"page", "devices"}
         /\ UNCHANGED <<fileVars, runtimeVars, saves, edits, darwin>>
         /\ \/ pending' = merged /\ Idle
            \/ pending' = left /\ Idle
            \/ /\ pending' = NoDiff /\ Idle
               /\ ~diffNeedsRuntimeApply(left) \/ inactiveExposureOnlyDiff(left, file)
            \/ /\ step' \in ApplySteps /\ new' = file /\ kept' = left
               /\ UNCHANGED <<op, base, pending>>
               /\ step' = "endpoint" => activeManualEndpointDiff(left, file)
               /\ step' = "inventory" => inventoryOnlyDiff(left, file)
<1>1. /\ step = "apply" /\ op \in {"page", "devices"}
      /\ UNCHANGED <<fileVars, runtimeVars, saves, edits, darwin>>
  BY DEF applySavedConfig
<1>2. CASE pending' = merged /\ Idle
  BY <1>1, <1>2
<1> DEFINE c == CASE activeManualEndpointDiff(left, file) -> "endpoint"
                  [] ~activeManualEndpointDiff(left, file) /\ inventoryOnlyDiff(left, file)
                        -> "inventory"
                  [] OTHER -> "reconcile"
<1>3. \/ pending' = merged /\ Idle
      \/ pending' = left /\ Idle
      \/ /\ pending' = NoDiff /\ Idle
         /\ ~diffNeedsRuntimeApply(left) \/ inactiveExposureOnlyDiff(left, file)
      \/ step' = c /\ new' = file /\ kept' = left /\ UNCHANGED <<op, base, pending>>
  BY Zenon DEF applySavedConfig, merged, left
<1>4. /\ c \in ApplySteps
      /\ c = "endpoint" => activeManualEndpointDiff(left, file)
      /\ c = "inventory" => inventoryOnlyDiff(left, file)
  BY DEF ApplySteps
<1> HIDE DEF c
<1> QED
  BY <1>1, <1>3, <1>4

\* The types are kept by every step.
LEMMA TypeInvNext == TypeInv /\ [Next]_vars => TypeInv'
<1> SUFFICES ASSUME TypeInv, [Next]_vars PROVE TypeInv'
  OBVIOUS
<1> USE KeysAssumption, NoDiffFacts DEF ApplySteps
<1>0. /\ file \in Config /\ cfg \in Config /\ pending \in Diff /\ kept \in Diff
      /\ darwin \in BOOLEAN
      /\ Classified(pending) /\ Classified(kept) /\ (darwin \/ "service" \notin pending.classes)
  BY DEF TypeInv, TypeOK
<1>1. ASSUME NEW kind \in {"page", "devices", "setup"}, NEW from \in Config, NEW changed,
             Prepare(kind, from, changed)
      PROVE  TypeInv'
  <2>1. new' \in Config
    BY <1>1 DEF Prepare, Config
  <2> QED
    BY <1>1, <2>1 DEF Prepare, TypeInv, TypeOK, fileVars, runtimeVars, Classified
<1>2. CASE \/ saveConfigPageSync \/ saveDevicesConfigSync \/ setDeviceEnabledSync
           \/ deviceRemoveSync \/ finishSetupSync
  BY <1>0, <1>1, <1>2
   DEF saveConfigPageSync, saveDevicesConfigSync, setDeviceEnabledSync,
       deviceRemoveSync, finishSetupSync
<1>3. CASE Compare
  BY <1>3 DEF Compare, Idle, TypeInv, TypeOK, fileVars, runtimeVars, Classified
<1>4. CASE Write
  BY <1>4 DEF Write, Idle, TypeInv, TypeOK, fileVars, runtimeVars, Classified
<1>5. CASE applySavedConfig
  <2>1. /\ merged \in Diff /\ left \in Diff /\ Classified(merged) /\ Classified(left)
        /\ darwin \/ "service" \notin merged.classes
        /\ "service" \notin left.classes
    BY <1>0, MergedFacts
  <2>2. /\ pending' \in {merged, left, NoDiff} /\ Idle
        /\ UNCHANGED <<fileVars, runtimeVars, saves, edits, darwin>>
        => TypeInv'
    BY <2>1 DEF Idle, TypeInv, TypeOK, fileVars, runtimeVars, Classified
  <2>3. /\ step' \in ApplySteps /\ new' = file /\ kept' = left
        /\ UNCHANGED <<op, base, pending>>  /\ UNCHANGED <<fileVars, runtimeVars, saves, edits, darwin>>
        /\ op \in {"page", "devices"}
        => TypeInv'
    BY <2>1 DEF TypeInv, TypeOK, fileVars, runtimeVars, Classified
  <2> QED
    BY <1>5, <2>2, <2>3, SavedCases
<1>6. CASE applySetup
  <2>1. pending' = pending \/ pending' = pendingDiffForPlatform(DiffValues(base, new))
    BY <1>6 DEF applySetup
  <2>2. pending' \in Diff /\ Classified(pending') /\ (darwin \/ "service" \notin pending'.classes)
    BY <1>0, <2>1, DiffFacts, PlatformFacts
  <2> QED
    BY <1>6, <2>2
     DEF applySetup, Idle, TypeInv, TypeOK, fileVars, runtimeVars, Classified
<1>7. CASE Reconcile
  BY <1>7
   DEF Reconcile, Replace, Applied, Idle, Succeeded, TypeInv, TypeOK, fileVars,
       runtimeVars, Classified
<1>8. CASE ApplyInventory \/ ApplyEndpoint
  BY <1>8
   DEF ApplyInventory, ApplyEndpoint, InPlace, Applied, Idle, TypeInv, TypeOK,
       fileVars, runtimeVars, Classified
<1>9. ASSUME NEW action \in {"start", "stop", "restart"}, BeginAction(action)
      PROVE  TypeInv'
  BY <1>9 DEF BeginAction, TypeInv, TypeOK, fileVars, runtimeVars, Classified
<1>10. CASE Start
  BY <1>10
   DEF Start, Replace, Succeeded, Idle, TypeInv, TypeOK, fileVars, runtimeVars,
       Classified
<1>11. CASE Restart
  BY <1>11
   DEF Restart, Replace, Succeeded, Idle, TypeInv, TypeOK, fileVars, runtimeVars,
       Classified
<1>12. CASE Stop
  BY <1>12 DEF Stop, Idle, TypeInv, TypeOK, fileVars, runtimeVars, Classified
<1>13. CASE GenerationFails
  BY <1>13
   DEF GenerationFails, TypeInv, TypeOK, fileVars, runtimeVars, opVars, Classified
<1>14. CASE Boot
  <2>1. file["service"] \in {0, 1} /\ topology' \in {0, 1}
    BY <1>14, <1>0 DEF Boot, Config, TypeInv, TypeOK
  <2> QED
    BY <1>14, <2>1 DEF Boot, TypeInv, TypeOK, fileVars, runtimeVars, Classified
<1>15. ASSUME NEW k \in Keys, Edit(k) PROVE TypeInv'
  <2>1. file' \in Config
    BY <1>15, <1>0 DEF Edit, Config
  <2> QED
    BY <1>15, <2>1 DEF Edit, TypeInv, TypeOK, runtimeVars, opVars, Classified
<1>16. CASE UNCHANGED vars
  BY <1>16 DEF vars, TypeInv, TypeOK, fileVars, runtimeVars, opVars, Classified
<1> QED
  BY <1>2, <1>3, <1>4, <1>5, <1>6, <1>7, <1>8, <1>9, <1>10, <1>11, <1>12, <1>13, <1>14, <1>15, <1>16, Zenon
   DEF Next
-----------------------------------------------------------------------------
(* What is pending, and what is applied in place                           *)

\* A key whose change must not get lost: it matters to the executing
\* generation, for a URL or a domain as far as the dashboard knows the mode.
Tracked(k) == Matters(k) /\ (k \in {"url", "domain"} => "mode" \notin edited)

\* keys has what the executing generation has another value for than c.
Shown(c, keys) ==
    active # NoConfig /\ ~bypassed =>
        \A k \in Keys \ edited : Tracked(k) /\ active[k] # c[k] => k \in keys

\* c is the file, but for what others edited.
Agrees(c) == \A k \in Keys \ edited : c[k] = file[k]

\* The keys whose values are built into the components of a generation.
Fixed == {"runtime", "mode"} \cap Keys

\* What is pending covers the difference between the executing generation and
\* the file at every step: before the save, between the save and applying it
\* (then with the difference that is being saved), and while it is applied
\* (then by kept).  An operation knows the file, but for what others edit
\* under its hands.
ApplyInv ==
    /\ step \in {"compare", "write"} /\ op # "setup" => Agrees(base)
    /\ step = "apply" => Agrees(new)
    /\ step \in ApplySteps => Agrees(new) /\ Shown(new, kept.keys)
    /\ step \in {"inventory", "endpoint"} => kept.keys \cap Fixed = {}
    /\ step = "apply" /\ op # "setup" => Shown(base, pending.keys)
    /\ step \notin ApplySteps \cup {"apply"} => Shown(file, pending.keys)
    /\ InPlaceIsSafe

\* Runtime and mode always matter to a generation.
LEMMA FixedMatter == ASSUME NEW k \in Fixed PROVE Tracked(k)
  BY ImpactFacts DEF Fixed, Tracked, Matters, inactiveExposureKey

\* No generation, or one that a start or a setup came upon.
LEMMA NothingTracked ==
  active = NoConfig \/ bypassed => InPlaceIsSafe /\ \A c, keys : Shown(c, keys)
  BY DEF InPlaceIsSafe, Shown

\* Every step keeps the invariant.
LEMMA ApplyInvNext == TypeInv /\ ApplyInv /\ [Next]_vars => ApplyInv'
<1> SUFFICES ASSUME TypeInv, ApplyInv, [Next]_vars PROVE ApplyInv'
  OBVIOUS
<1> USE KeysAssumption, NoDiffFacts DEF ApplySteps
<1>1. ASSUME NEW kind \in {"page", "devices"}, NEW changed, Prepare(kind, file, changed)
      PROVE  ApplyInv'
  BY <1>1
   DEF Prepare, fileVars, runtimeVars, ApplyInv, Shown, Agrees, Tracked, Matters,
       InPlaceIsSafe, Fixed, TypeInv
<1>2. ASSUME NEW changed, Prepare("setup", cfg, changed)
      PROVE  ApplyInv'
  BY <1>2
   DEF Prepare, fileVars, runtimeVars, ApplyInv, Shown, Agrees, Tracked, Matters,
       InPlaceIsSafe, Fixed, TypeInv
<1>3. CASE \/ saveConfigPageSync \/ saveDevicesConfigSync
           \/ setDeviceEnabledSync \/ deviceRemoveSync
  BY <1>1, <1>3
   DEF saveConfigPageSync, saveDevicesConfigSync, setDeviceEnabledSync, deviceRemoveSync
<1>4. CASE finishSetupSync
  BY <1>2, <1>4 DEF finishSetupSync
<1>5. CASE Compare
  BY <1>5
   DEF Compare, Idle, fileVars, runtimeVars, ApplyInv, Shown, Agrees, Tracked, Matters,
       InPlaceIsSafe, Fixed
<1>6. CASE Write
  BY <1>6
   DEF Write, Idle, fileVars, runtimeVars, ApplyInv, Shown, Agrees, Tracked, Matters,
       InPlaceIsSafe, Fixed
<1>7. CASE applySavedConfig
  <2> USE DEF fileVars, runtimeVars
  <2>1. /\ left.keys = merged.keys
        /\ \A k \in Keys : k \in pending.keys \/ base[k] # new[k] => k \in merged.keys
        /\ Classified(left) /\ left.keys \subseteq Keys
    BY MergedFacts DEF TypeInv, TypeOK, Diff
  <2>2. /\ step = "apply" /\ op # "setup" /\ Agrees(new) /\ Shown(base, pending.keys) /\ InPlaceIsSafe
        /\ UNCHANGED <<file, edited, active, built, bypassed>>
    BY <1>7, SavedCases DEF ApplyInv
  <2>3. Shown(file, merged.keys)
    BY <2>1, <2>2 DEF Shown, Agrees
  <2>4. CASE pending' \in {merged, left} /\ Idle
    BY <2>1, <2>2, <2>3, <2>4
     DEF Idle, ApplyInv, Shown, Agrees, Tracked, Matters, InPlaceIsSafe, Fixed
  <2>5. CASE /\ pending' = NoDiff /\ Idle
             /\ ~diffNeedsRuntimeApply(left) \/ inactiveExposureOnlyDiff(left, file)
    <3>1. ASSUME active # NoConfig, ~bypassed, NEW k \in Keys \ edited, Tracked(k), k \in merged.keys
          PROVE  FALSE
      <4>1. CASE ~diffNeedsRuntimeApply(left)
        BY <2>1, <3>1, <4>1, ImpactFacts
         DEF diffNeedsRuntimeApply, Classified, Tracked, Matters
      <4>2. CASE inactiveExposureOnlyDiff(left, file)
        <5>1. k \in {"url", "domain"} /\ "mode" \notin left.keys /\ inactiveExposureKey(k, Mode(file))
          BY <2>1, <3>1, <4>2 DEF inactiveExposureOnlyDiff, inactiveExposureKey
        <5>2. "mode" \in Keys \ edited /\ Tracked("mode")
          BY <3>1, <5>1, FixedMatter DEF Tracked, Fixed
        <5>3. Mode(active) = Mode(file)
          BY <2>1, <2>3, <3>1, <5>1, <5>2 DEF Shown, Mode
        <5> QED
          BY <3>1, <5>1, <5>3 DEF Tracked, Matters
      <4> QED
        BY <2>5, <4>1, <4>2
    <3>2. Shown(file, {})
      BY <2>3, <3>1 DEF Shown
    <3> QED
      BY <2>2, <2>5, <3>2
       DEF Idle, ApplyInv, Shown, Agrees, Tracked, Matters, InPlaceIsSafe, Fixed
  <2>6. CASE /\ step' \in ApplySteps /\ new' = file /\ kept' = left
             /\ UNCHANGED <<op, base, pending>>
             /\ step' = "endpoint" => activeManualEndpointDiff(left, file)
             /\ step' = "inventory" => inventoryOnlyDiff(left, file)
    <3>1. step' \in {"inventory", "endpoint"} => left.keys \cap Fixed = {}
      BY <2>6
       DEF activeManualEndpointDiff, inventoryOnlyDiff, inactiveExposureKey, Fixed
    <3> QED
      BY <2>1, <2>2, <2>3, <2>6, <3>1
       DEF ApplyInv, Shown, Agrees, Tracked, Matters, InPlaceIsSafe, Fixed
  <2> QED
    BY <1>7, <2>4, <2>5, <2>6, SavedCases
<1>8. CASE applySetup
  BY <1>8
   DEF applySetup, Idle, fileVars, ApplyInv, Shown, Agrees, Tracked, Matters,
       InPlaceIsSafe, Fixed
<1>9. CASE Reconcile
  BY <1>9
   DEF Reconcile, Replace, Applied, Succeeded, Idle, ApplyInv, Shown, Agrees, Tracked,
       Matters, InPlaceIsSafe, Fixed
<1>10. CASE ApplyInventory \/ ApplyEndpoint
  <2>1. /\ step \in {"inventory", "endpoint"} /\ kept.keys \cap Fixed = {}
        /\ Agrees(new) /\ Shown(new, kept.keys) /\ InPlaceIsSafe
        /\ UNCHANGED <<file, edited, built, bypassed>> /\ step' = "none"
    BY <1>10
     DEF ApplyInventory, ApplyEndpoint, InPlace, Applied, Idle, fileVars, ApplyInv
  <2>2. CASE active # NoConfig /\ active' = new /\ pending' = NoDiff
    <3>1. Shown(file, pending.keys)'
      BY <2>1, <2>2 DEF Shown, Agrees
    <3>2. ASSUME active # NoConfig, ~bypassed, NEW k \in Fixed, k \notin edited
          PROVE  built[k] = active'[k]
      <4>1. k \in Keys /\ Tracked(k) /\ k \notin kept.keys
        BY <2>1, <3>2, FixedMatter DEF Fixed
      <4>2. active[k] = new[k]
        BY <2>1, <3>2, <4>1 DEF Shown
      <4> QED
        BY <2>1, <2>2, <3>2, <4>2 DEF InPlaceIsSafe, Fixed
    <3>3. InPlaceIsSafe'
      BY <2>1, <2>2, <3>2 DEF InPlaceIsSafe, Fixed
    <3> QED
      BY <2>1, <3>1, <3>3 DEF ApplyInv
  <2>3. CASE UNCHANGED active /\ pending' = kept
    <3>1. Shown(file, pending.keys)'
      BY <2>1, <2>3 DEF Shown, Agrees, Tracked, Matters
    <3>2. InPlaceIsSafe'
      BY <2>1, <2>3 DEF InPlaceIsSafe
    <3> QED
      BY <2>1, <3>1, <3>2 DEF ApplyInv
  <2> QED
    BY <1>10, <2>2, <2>3 DEF ApplyInventory, ApplyEndpoint, InPlace, Applied
<1>11. ASSUME NEW action \in {"start", "stop", "restart"}, BeginAction(action)
      PROVE  ApplyInv'
  BY <1>11
   DEF BeginAction, fileVars, runtimeVars, TypeInv, ApplyInv, Shown, Agrees, Tracked,
       Matters, InPlaceIsSafe, Fixed
<1>12. CASE Start
  BY <1>12
   DEF Start, Replace, Succeeded, Idle, runtimeVars, ApplyInv, Shown, Agrees, Tracked,
       Matters, InPlaceIsSafe, Fixed
<1>13. CASE Restart
  BY <1>13
   DEF Restart, Replace, Succeeded, Idle, runtimeVars, ApplyInv, Shown, Agrees,
       Tracked, Matters, InPlaceIsSafe, Fixed
<1>14. CASE Stop
  BY <1>14
   DEF Stop, Idle, fileVars, ApplyInv, Shown, Agrees, Tracked, Matters, InPlaceIsSafe,
       Fixed
<1>15. CASE GenerationFails
  BY <1>15
   DEF GenerationFails, fileVars, opVars, ApplyInv, Shown, Agrees, Tracked, Matters,
       InPlaceIsSafe, Fixed
<1>16. CASE Boot
  BY <1>16 DEF Boot, ApplyInv, Shown, Agrees, Tracked, Matters, InPlaceIsSafe, Fixed
<1>17. ASSUME NEW k \in Keys, Edit(k) PROVE ApplyInv'
  BY <1>17
   DEF Edit, runtimeVars, opVars, TypeInv, TypeOK, Config, ApplyInv, Shown, Agrees,
       Tracked, Matters, InPlaceIsSafe, Fixed
<1>18. CASE UNCHANGED vars
  BY <1>18
   DEF vars, fileVars, runtimeVars, opVars, ApplyInv, Shown, Agrees, Tracked, Matters,
       InPlaceIsSafe, Fixed
<1> QED
  BY <1>3, <1>4, <1>5, <1>6, <1>7, <1>8, <1>9, <1>10, <1>11, <1>12, <1>13, <1>14, <1>15, <1>16,
     <1>17, <1>18, Zenon DEF Next

\* Both invariants hold in every state.
LEMMA ConfigInvHolds == Spec => [](TypeInv /\ ApplyInv)
<1>1. Init => TypeInv /\ ApplyInv
  <2> SUFFICES ASSUME Init PROVE TypeInv /\ ApplyInv
    OBVIOUS
  <2>1. file \in Config /\ cfg \in Config
    BY DEF Init, Config
  <2>2. TypeInv
    <3>1. /\ pending = NoDiff /\ kept = NoDiff /\ active = NoConfig /\ built = NoConfig
          /\ base = NoConfig /\ new = NoConfig
      BY DEF Init
    <3>2. darwin \in BOOLEAN /\ bypassed \in BOOLEAN /\ desired \in {"running", "stopped"}
      BY DEF Init
    <3>3. topology = 0 /\ edited = {} /\ op = "none" /\ step = "none" /\ saves = 0 /\ edits = 0
      BY DEF Init
    <3> QED
      BY <2>1, <3>1, <3>2, <3>3, KeysAssumption, NoDiffFacts DEF TypeInv, TypeOK
  <2>3. ApplyInv
    BY NothingTracked DEF Init, ApplyInv, ApplySteps
  <2> QED
    BY <2>2, <2>3
<1> QED
  BY <1>1, TypeInvNext, ApplyInvNext, PTL DEF Spec

-----------------------------------------------------------------------------
(* The theorems                                                            *)

\* The state is well typed; off macOS no pending difference carries the service
\* class (pendingDiffForPlatform).
THEOREM TypeCorrect == Spec => []TypeOK
  BY ConfigInvHolds, PTL DEF TypeInv

\* No saved key that matters to the executing generation is silently without
\* effect, for any kinds of keys and any numbers of saves and of edits by
\* others, however saves, failed applies and reverts follow each other.
THEOREM Honest == Spec => []PendingIsHonest
<1>1. TypeInv /\ ApplyInv => PendingIsHonest
  BY ImpactFacts
   DEF TypeInv, ApplyInv, ApplySteps, Shown, Tracked, Matters, Classified,
       PendingIsHonest
<1> QED
  BY <1>1, ConfigInvHolds, PTL

\* ApplyInventory and ApplyEndpoint never make a generation go by a value that
\* its components were not constructed with.
THEOREM InPlaceSafe == Spec => []InPlaceIsSafe
  BY ConfigInvHolds, PTL DEF ApplyInv
=============================================================================
