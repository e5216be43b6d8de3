-------------------------- MODULE ServiceHostProofs --------------------------
(***************************************************************************)
(* Proofs about the service manager on both platforms, for any             *)
(* configurations, images and numbers of operations, edits, pushes, runs   *)
(* of the application and releases.                                        *)
(***************************************************************************)
EXTENDS ServiceHost, TLAPS

-----------------------------------------------------------------------------
(* macOS: invariants                                                       *)

ProcRecord == [at : {"off", "boot", "owner", "serving", "closing"}, token : Nat, code : Nat]

\* Whoever owns, serves or closes holds the lock, so that nobody else publishes
\* or removes the metadata.
LeaseInv ==
    /\ lock \in {"free"} \cup Mac!Procs
    /\ meta \in Nat /\ tokens \in Nat
    /\ proc \in [Mac!Procs -> ProcRecord]
    /\ \A p \in Mac!Procs : proc[p].at \in {"owner", "serving", "closing"} <=> lock = p
    /\ \A p \in Mac!Procs : proc[p].at = "serving" => meta = proc[p].token

MacRest == {"ok", "failed", "killed"}
MacBusy == {"plists", "bootstrap", "kickstart", "bootout", "clean", "save", "plist", "transient"}
MacMgr == [op : {"idle", "start", "stop", "restart", "enable", "disable"},
           pc : MacRest \cup MacBusy, prev : BOOLEAN]

\* The plist follows the setting, except between the save of the setting and
\* the change of the plist, when it follows the setting before.
AgentInv ==
    /\ autostart \in BOOLEAN /\ loaded \in BOOLEAN /\ persistent \in BOOLEAN /\ torn \in BOOLEAN
    /\ mgr \in MacMgr
    /\ mgr.op = "idle" <=> mgr.pc \in MacRest
    /\ mgr.pc = "save" => mgr.prev = autostart
    /\ ~torn => persistent = IF mgr.pc = "plist" THEN mgr.prev ELSE autostart

UpRecord == [pc : {"none", "download", "checksum", "rename", "restart", "restarting", "await",
                   "done", "failed"},
             wasRunning : BOOLEAN, prev : Nat, tmp : Nat, sum : Nat, installed : Nat,
             answer : SUBSET Mac!Procs]

AgentAlive == proc["agent"].at # "off"
Fresh == AgentAlive => proc["agent"].code = binary

\* An agent that lives is loaded.  Once a restart has unloaded it, a living
\* agent was started from the executable as it is now.
UpgradeInv ==
    /\ binary \in Nat \ {0} /\ latest \in Nat \ {0}
    /\ up \in UpRecord
    /\ up.pc \in {"checksum", "rename"} => up.sum # 0
    /\ up.pc = "rename" => up.tmp = up.sum
    /\ up.pc # "done" => up.answer = {}
    /\ up.pc \in {"restart", "restarting", "await", "done"} => up.installed = binary
    /\ AgentAlive => loaded
    /\ up.pc = "restarting" => mgr.op \in {"idle", "restart"}
    /\ up.pc = "restarting" /\ mgr.pc \notin {"bootout", "failed", "killed"} => Fresh
    /\ up.pc = "await" => Fresh
    /\ up.pc = "done" /\ up.answer # {} => Fresh

MacInv == LeaseInv /\ AgentInv /\ UpgradeInv

-----------------------------------------------------------------------------
(* macOS: the steps                                                        *)

\* The processes keep the lease's invariant, whichever of them moves.
LEMMA LeaseSteps ==
  ASSUME LeaseInv, NEW p \in Mac!Procs, NEW c \in Nat,
         Mac!Lease!Steps(p) \/ Mac!Lease!Boot(p, c)
  PROVE  LeaseInv'
<1>0. "free" \notin Mac!Procs BY DEF Mac!Procs
<1>1. CASE Mac!Lease!Boot(p, c)
  BY <1>0, <1>1 DEF LeaseInv, ProcRecord, Mac!Lease!Boot, Mac!Lease!Alive, Mac!Lease!NotFound
<1>2. CASE Mac!Lease!Acquire(p)
  <2>1. CASE lock = "free"
    <3>1. /\ lock' = p /\ tokens' = tokens + 1 /\ meta' = meta
          /\ proc' = [proc EXCEPT ![p].at = "owner", ![p].token = tokens']
      BY <1>2, <2>1 DEF Mac!Lease!Acquire
    <3>2. tokens' \in Nat BY <3>1 DEF LeaseInv
    <3>3. /\ proc' \in [Mac!Procs -> ProcRecord] /\ proc'[p].at = "owner"
          /\ \A q \in Mac!Procs \ {p} : proc'[q] = proc[q]
      BY <3>1, <3>2 DEF LeaseInv, ProcRecord
    <3>4. QED BY <1>0, <2>1, <3>1, <3>2, <3>3 DEF LeaseInv
  <2>2. CASE lock # "free"
    <3>1. UNCHANGED <<lock, tokens, meta>> /\ proc' = [proc EXCEPT ![p] = Mac!Lease!Off]
      BY <1>2, <2>2 DEF Mac!Lease!Acquire
    <3>2. proc[p].at = "boot" BY <1>2 DEF Mac!Lease!Acquire
    <3>3. QED BY <1>0, <3>1, <3>2 DEF LeaseInv, ProcRecord, Mac!Lease!Off, Mac!Lease!NotFound
  <2>3. QED BY <2>1, <2>2
<1>3. CASE Mac!Lease!Publish(p)
  BY <1>0, <1>3 DEF LeaseInv, ProcRecord, Mac!Lease!Publish, Mac!Lease!Become
<1>4. CASE Mac!Lease!Close(p)
  <2>1. meta' = 0 /\ lock' = lock
    BY <1>4 DEF Mac!Lease!Close, Mac!Lease!GiveBack, Mac!Lease!CloseOrder, Mac!Lease!NotFound
  <2>2. QED BY <1>0, <1>4, <2>1 DEF LeaseInv, ProcRecord, Mac!Lease!Close, Mac!Lease!Become
<1>5. CASE Mac!Lease!CloseReturns(p)
  <2>1. meta' = meta /\ lock' = IF lock = p THEN "free" ELSE lock
    BY <1>5 DEF Mac!Lease!CloseReturns, Mac!Lease!GiveBack, Mac!Lease!CloseOrder
  <2>2. QED
    BY <1>0, <1>5, <2>1
    DEF LeaseInv, ProcRecord, Mac!Lease!CloseReturns, Mac!Lease!Off, Mac!Lease!NotFound
<1>6. CASE Mac!Lease!Kill(p)
  BY <1>0, <1>6
  DEF LeaseInv, ProcRecord, Mac!Lease!Kill, Mac!Lease!Alive, Mac!Lease!Off, Mac!Lease!NotFound
<1>7. QED BY <1>1, <1>2, <1>3, <1>4, <1>5, <1>6 DEF Mac!Lease!Steps

\* A process keeps the code it was started with.
LEMMA CodeKept ==
  ASSUME LeaseInv, NEW p \in Mac!Procs, Mac!Lease!Steps(p)
  PROVE  \A q \in Mac!Procs :
            proc'[q].at # "off" => proc[q].at # "off" /\ proc'[q].code = proc[q].code
BY DEF LeaseInv, ProcRecord, Mac!Lease!Steps, Mac!Lease!Acquire, Mac!Lease!Publish,
       Mac!Lease!Close, Mac!Lease!CloseReturns, Mac!Lease!Kill, Mac!Lease!Become, Mac!Lease!Off

\* Unloading the agent ends its process; nothing else changes the lease.
LEMMA EndAgentFacts ==
  ASSUME LeaseInv, AgentAlive => loaded, Mac!EndAgent
  PROVE  /\ LeaseInv'
         /\ AgentAlive' => loaded' /\ AgentAlive /\ proc'["agent"].code = proc["agent"].code
<1>0. "agent" \in Mac!Procs BY DEF Mac!Procs
<1>1. CASE loaded /\ ~loaded' /\ AgentAlive
  <2>1. Mac!Lease!Kill("agent") BY <1>1 DEF Mac!EndAgent, Mac!Lease!Alive, AgentAlive
  <2>2. LeaseInv' BY <1>0, <2>1, LeaseSteps DEF Mac!Lease!Steps
  <2>3. ~AgentAlive' BY <1>0, <2>1 DEF Mac!Lease!Kill, Mac!Lease!Off, AgentAlive, LeaseInv
  <2>4. QED BY <2>2, <2>3
<1>2. CASE ~(loaded /\ ~loaded' /\ AgentAlive)
  <2>1. UNCHANGED <<lock, meta, proc, tokens>>
    BY <1>2 DEF Mac!EndAgent, Mac!Lease!Alive, AgentAlive, Mac!lease
  <2>2. QED BY <1>2, <2>1 DEF LeaseInv, AgentAlive
<1>3. QED BY <1>1, <1>2

\* The manager's steps keep the plist in step with the setting.
LEMMA AgentSteps ==
  ASSUME AgentInv, Mac!Calls \/ Mac!Steps \/ Mac!Login
  PROVE  AgentInv'
<1> USE DEF AgentInv, MacMgr, MacRest, MacBusy
<1>1. ASSUME Mac!Calls PROVE AgentInv'
  BY <1>1 DEF Mac!Calls, Mac!Start, Mac!Stop, Mac!Restart, Mac!Enable, Mac!Disable, Mac!Invoke,
              Mac!Resting, Mac!plists
<1>2. ASSUME Mac!StartPlists PROVE AgentInv'
  BY <1>2 DEF Mac!StartPlists, Mac!At, Mac!Goto, Mac!Return, Mac!Idle
<1>3. ASSUME Mac!Bootstrap PROVE AgentInv'
  BY <1>3 DEF Mac!Bootstrap, Mac!At, Mac!Goto, Mac!plists
<1>k. ASSUME Mac!Kickstart PROVE AgentInv'
  BY <1>k DEF Mac!Kickstart, Mac!At, Mac!Return, Mac!Idle, Mac!plists
<1>4. ASSUME Mac!Bootout PROVE AgentInv'
  BY <1>4 DEF Mac!Bootout, Mac!At, Mac!Goto, Mac!plists
<1>5. ASSUME Mac!RemovePlists PROVE AgentInv'
  BY <1>5 DEF Mac!RemovePlists, Mac!At, Mac!Goto, Mac!Return, Mac!Idle, Mac!plists
<1>6. ASSUME Mac!SaveAutostart PROVE AgentInv'
  BY <1>6 DEF Mac!SaveAutostart, Mac!At, Mac!Goto, Mac!plists
<1>7. ASSUME Mac!ChangePlist PROVE AgentInv'
  BY <1>7 DEF Mac!ChangePlist, Mac!At, Mac!Goto
<1>8. ASSUME Mac!PlistFails PROVE AgentInv'
  <2>1. /\ mgr.pc = "plist" /\ mgr' = [op |-> "idle", pc |-> "failed", prev |-> FALSE]
        /\ UNCHANGED <<loaded, persistent>>
    BY <1>8 DEF Mac!PlistFails, Mac!At, Mac!Return, Mac!Idle, Mac!plists
  <2>2. CASE autostart' = mgr.prev /\ torn' = torn BY <2>1, <2>2
  <2>3. CASE autostart' = autostart /\ torn' = TRUE BY <2>1, <2>3
  <2>4. QED BY <1>8, <2>2, <2>3 DEF Mac!PlistFails, Mac!restorePrevious
<1>9. ASSUME Mac!RemoveTransient PROVE AgentInv'
  BY <1>9 DEF Mac!RemoveTransient, Mac!At, Mac!Return, Mac!Idle
<1>10. ASSUME Mac!Fails PROVE AgentInv'
  BY <1>10 DEF Mac!Fails, Mac!Return, Mac!Idle, Mac!plists
<1>11. ASSUME Mac!Crash PROVE AgentInv'
  BY <1>11 DEF Mac!Crash, Mac!Return, Mac!Idle, Mac!plists, Mac!Resting
<1>12. ASSUME Mac!Login PROVE AgentInv'
  BY <1>12 DEF Mac!Login, Mac!plists
<1>13. QED
  BY <1>1, <1>2, <1>3, <1>k, <1>4, <1>5, <1>6, <1>7, <1>8, <1>9, <1>10, <1>11, <1>12, Zenon
  DEF Mac!Steps

\* What the manager does to the agent while the upgrade command waits for it.
LEMMA ManagerFacts ==
  ASSUME AgentInv, Mac!Steps
  PROVE  /\ loaded' \in BOOLEAN
         /\ mgr.op \in {"idle", "restart"} => mgr'.op \in {"idle", "restart"}
         /\ mgr'.pc # "bootout"
         /\ mgr.op = "restart" /\ mgr.pc = "bootout" =>
               mgr'.pc \in {"failed", "killed"} \/ (mgr'.pc = "clean" /\ ~loaded')
         /\ mgr.op # "idle"
<1> USE DEF AgentInv, MacMgr, MacRest, MacBusy, Mac!At, Mac!Goto, Mac!Return, Mac!Idle
<1>1. CASE Mac!StartPlists BY <1>1 DEF Mac!StartPlists
<1>2. CASE Mac!Bootstrap BY <1>2 DEF Mac!Bootstrap
<1>k. CASE Mac!Kickstart BY <1>k DEF Mac!Kickstart
<1>3. CASE Mac!Bootout BY <1>3 DEF Mac!Bootout
<1>4. CASE Mac!RemovePlists BY <1>4 DEF Mac!RemovePlists
<1>5. CASE Mac!SaveAutostart BY <1>5 DEF Mac!SaveAutostart
<1>6. CASE Mac!ChangePlist BY <1>6 DEF Mac!ChangePlist
<1>7. CASE Mac!PlistFails BY <1>7 DEF Mac!PlistFails
<1>8. CASE Mac!RemoveTransient BY <1>8 DEF Mac!RemoveTransient
<1>9. CASE Mac!Fails BY <1>9 DEF Mac!Fails
<1>10. CASE Mac!Crash BY <1>10 DEF Mac!Crash, Mac!Resting
<1>11. QED BY <1>1, <1>2, <1>k, <1>3, <1>4, <1>5, <1>6, <1>7, <1>8, <1>9, <1>10 DEF Mac!Steps

\* The upgrade command moves on and keeps what it knows.
LEMMA UpMoves ==
  ASSUME up \in UpRecord, NEW pc \in {"download", "checksum", "rename", "restart", "restarting",
                                      "await", "done", "failed"}, Mac!UpGoto(pc)
  PROVE  /\ up' \in UpRecord /\ up'.pc = pc /\ up'.wasRunning = up.wasRunning
         /\ up'.prev = up.prev /\ up'.tmp = up.tmp /\ up'.sum = up.sum
         /\ up'.installed = up.installed /\ up'.answer = up.answer
BY DEF UpRecord, Mac!UpGoto

\* Every step of a macOS host keeps the invariant.
LEMMA MacInvNext ==
  ASSUME MacInv, [Mac!HostNext]_Mac!vars
  PROVE  MacInv'
<1>0. LeaseInv /\ AgentInv /\ UpgradeInv BY DEF MacInv
<1>a. "agent" \in Mac!Procs /\ "shell" \in Mac!Procs BY DEF Mac!Procs
<1> DEFINE Still == UNCHANGED <<autostart, loaded, persistent, transient, mgr, torn, ops,
                                lock, meta, proc, tokens, latest>>
<1>1. ASSUME Still PROVE LeaseInv' /\ AgentInv' /\ (AgentAlive' <=> AgentAlive)
  BY <1>0, <1>1 DEF LeaseInv, AgentInv, AgentAlive
<1>2. ASSUME NEW pc, Mac!UpAt(pc) PROVE Still /\ up.pc = pc
  BY <1>2 DEF Mac!UpAt, Mac!agent, Mac!lease
<1>3. ASSUME Mac!runUpgradeBinary PROVE MacInv'
  <2>1. Still /\ up.pc = "none" /\ binary' = binary BY <1>2, <1>3 DEF Mac!runUpgradeBinary
  <2>2. up' \in UpRecord /\ up'.pc = "download" /\ up'.answer = up.answer
    <3>1. CASE loaded
      <4>1. up' = [up EXCEPT !.pc = "download", !.wasRunning = TRUE, !.prev = meta]
        BY <1>3, <3>1 DEF Mac!runUpgradeBinary
      <4>2. up \in UpRecord /\ meta \in Nat BY <1>0 DEF UpgradeInv, LeaseInv
      <4>3. QED BY <4>1, <4>2 DEF UpRecord
    <3>2. CASE ~loaded
      BY <1>0, <1>3, <3>2, UpMoves DEF UpgradeInv, Mac!runUpgradeBinary
    <3>3. QED BY <3>1, <3>2
  <2>3. UpgradeInv' BY <1>0, <1>1, <2>1, <2>2 DEF UpgradeInv
  <2>4. QED BY <1>1, <2>1, <2>3 DEF MacInv
<1>4. ASSUME Mac!DownloadBinary PROVE MacInv'
  <2>1. Still /\ up.pc = "download" /\ binary' = binary BY <1>2, <1>4 DEF Mac!DownloadBinary
  <2>2. PICK content \in {latest, Mac!Broken} :
           up' = [up EXCEPT !.pc = "checksum", !.tmp = content, !.sum = latest]
    BY <1>4 DEF Mac!DownloadBinary
  <2>3. content \in Nat /\ latest \in Nat \ {0} /\ up \in UpRecord
    BY <1>0 DEF UpgradeInv, Mac!Broken
  <2>4. up' \in UpRecord /\ up'.pc = "checksum" /\ up'.sum = latest /\ up'.answer = up.answer
    BY <2>2, <2>3 DEF UpRecord
  <2>5. UpgradeInv' BY <1>0, <1>1, <2>1, <2>3, <2>4 DEF UpgradeInv
  <2>6. QED BY <1>1, <2>1, <2>5 DEF MacInv
<1>5. ASSUME Mac!VerifyChecksum PROVE MacInv'
  <2>1. Still /\ up.pc = "checksum" /\ binary' = binary BY <1>2, <1>5 DEF Mac!VerifyChecksum
  <2>2. \/ up.tmp = up.sum /\ Mac!UpGoto("rename")
        \/ Mac!UpGoto("failed")
    BY <1>5 DEF Mac!VerifyChecksum, Mac!ChecksumMatches
  <2>3. /\ up' \in UpRecord /\ up'.sum = up.sum /\ up'.tmp = up.tmp /\ up'.answer = up.answer
        /\ up'.pc = "failed" \/ (up'.pc = "rename" /\ up.tmp = up.sum)
    BY <1>0, <2>2, UpMoves DEF UpgradeInv
  <2>4. UpgradeInv' BY <1>0, <1>1, <2>1, <2>3 DEF UpgradeInv
  <2>5. QED BY <1>1, <2>1, <2>4 DEF MacInv
<1>6. ASSUME Mac!Rename PROVE MacInv'
  <2>1. Still /\ up.pc = "rename" /\ binary' = up.tmp BY <1>2, <1>6 DEF Mac!Rename
  <2> DEFINE pc == IF up.wasRunning THEN "restart" ELSE "done"
  <2>2. pc \in {"restart", "done"} OBVIOUS
  <2>3. up' = [up EXCEPT !.installed = up.tmp, !.pc = pc] BY <1>6 DEF Mac!Rename
  <2> HIDE DEF pc
  <2>4. up \in UpRecord /\ up.tmp \in Nat \ {0} BY <1>0, <2>1 DEF UpgradeInv, UpRecord
  <2>5. up' \in UpRecord /\ up'.pc = pc /\ up'.installed = up.tmp /\ up'.answer = up.answer
    BY <2>2, <2>3, <2>4 DEF UpRecord
  <2>6. UpgradeInv' BY <1>0, <1>1, <2>1, <2>2, <2>4, <2>5 DEF UpgradeInv
  <2>7. QED BY <1>1, <2>1, <2>6 DEF MacInv
<1>7. ASSUME Mac!RestartAgent PROVE MacInv'
  <2>1. /\ up.pc = "restart" /\ Mac!Restart /\ Mac!UpGoto("restarting")
        /\ UNCHANGED <<lock, meta, proc, tokens, binary, latest>>
    BY <1>7 DEF Mac!RestartAgent, Mac!lease
  <2>2. AgentInv' BY <1>0, <2>1, AgentSteps DEF Mac!Calls
  <2>3. mgr'.op = "restart" /\ mgr'.pc = "bootout" /\ loaded' = loaded
    BY <2>1 DEF Mac!Restart, Mac!Invoke
  <2>4. LeaseInv' BY <1>0, <2>1 DEF LeaseInv
  <2>5. up' \in UpRecord /\ up'.pc = "restarting" /\ up'.installed = up.installed /\ up'.answer = up.answer
    BY <1>0, <2>1, UpMoves DEF UpgradeInv
  <2>6. UpgradeInv' BY <1>0, <2>1, <2>3, <2>5 DEF UpgradeInv, AgentAlive
  <2>7. QED BY <2>2, <2>4, <2>6 DEF MacInv
<1>8. ASSUME Mac!RestartReturns PROVE MacInv'
  <2>1. Still /\ up.pc = "restarting" /\ binary' = binary BY <1>2, <1>8 DEF Mac!RestartReturns
  <2>2. \/ mgr.pc = "ok" /\ Mac!UpGoto("await")
        \/ Mac!UpGoto("failed")
    BY <1>8 DEF Mac!RestartReturns
  <2>3. /\ up' \in UpRecord /\ up'.installed = up.installed /\ up'.answer = up.answer
        /\ up'.pc = "failed" \/ (up'.pc = "await" /\ mgr.pc = "ok")
    BY <1>0, <2>2, UpMoves DEF UpgradeInv
  <2>4. UpgradeInv' BY <1>0, <1>1, <2>1, <2>3 DEF UpgradeInv, Fresh
  <2>5. QED BY <1>1, <2>1, <2>4 DEF MacInv
<1>9. ASSUME Mac!waitForRunningController PROVE MacInv'
  <2>1. /\ Still /\ up.pc = "await" /\ binary' = binary
        /\ up' = [up EXCEPT !.pc = "done", !.answer = Mac!Lease!Probe(meta)]
    BY <1>2, <1>9 DEF Mac!waitForRunningController
  <2>2. Mac!Lease!Probe(meta) \subseteq Mac!Procs BY DEF Mac!Lease!Probe
  <2>3. up \in UpRecord BY <1>0 DEF UpgradeInv
  <2>4. up' \in UpRecord /\ up'.pc = "done" /\ up'.installed = up.installed
    BY <2>1, <2>2, <2>3 DEF UpRecord
  <2>5. UpgradeInv' BY <1>0, <1>1, <2>1, <2>4 DEF UpgradeInv, Fresh
  <2>6. QED BY <1>1, <2>1, <2>5 DEF MacInv
<1>10. ASSUME Mac!UpgradeEnds PROVE MacInv'
  <2>1. Still /\ binary' = binary /\ Mac!UpGoto("failed") /\ up.pc # "done"
    BY <1>2, <1>10 DEF Mac!UpgradeEnds
  <2>2. up' \in UpRecord /\ up'.pc = "failed" /\ up'.answer = up.answer
    BY <1>0, <2>1, UpMoves DEF UpgradeInv
  <2>3. UpgradeInv' BY <1>0, <1>1, <2>1, <2>2 DEF UpgradeInv
  <2>4. QED BY <1>1, <2>1, <2>3 DEF MacInv
<1>11. ASSUME Mac!ManagerCalls PROVE MacInv'
  <2>1. /\ up.pc \in {"none", "done", "failed"} /\ Mac!Calls
        /\ UNCHANGED <<lock, meta, proc, tokens, binary, latest, up>>
    BY <1>11 DEF Mac!ManagerCalls, Mac!lease
  <2>2. loaded' = loaded
    BY <2>1 DEF Mac!Calls, Mac!Start, Mac!Stop, Mac!Restart, Mac!Enable, Mac!Disable, Mac!Invoke
  <2>3. AgentInv' BY <1>0, <2>1, AgentSteps
  <2>4. LeaseInv' BY <1>0, <2>1 DEF LeaseInv
  <2>5. UpgradeInv' BY <1>0, <2>1, <2>2 DEF UpgradeInv, AgentAlive, Fresh
  <2>6. QED BY <2>3, <2>4, <2>5 DEF MacInv
<1>12. ASSUME Mac!ManagerSteps PROVE MacInv'
  <2>1. Mac!Steps /\ Mac!EndAgent /\ UNCHANGED <<binary, latest, up>>
    BY <1>12 DEF Mac!ManagerSteps
  <2>2. AgentInv' BY <1>0, <2>1, AgentSteps
  <2>3. AgentAlive => loaded BY <1>0 DEF UpgradeInv
  <2>4. /\ LeaseInv'
        /\ AgentAlive' => loaded' /\ AgentAlive /\ proc'["agent"].code = proc["agent"].code
    BY <1>0, <2>1, <2>3, EndAgentFacts
  <2>5. Fresh => Fresh' BY <2>1, <2>4 DEF Fresh
  <2>6. up.pc = "restarting" =>
           /\ mgr'.op \in {"idle", "restart"}
           /\ mgr'.pc \notin {"bootout", "failed", "killed"} => Fresh'
    <3>1. SUFFICES ASSUME up.pc = "restarting"
                   PROVE  /\ mgr'.op \in {"idle", "restart"}
                          /\ mgr'.pc \notin {"bootout", "failed", "killed"} => Fresh'
      OBVIOUS
    <3>2. mgr.op = "restart" /\ mgr'.op \in {"idle", "restart"}
      BY <1>0, <2>1, <3>1, ManagerFacts DEF UpgradeInv
    <3>3. CASE mgr.pc = "bootout"
      BY <1>0, <2>1, <2>4, <3>2, <3>3, ManagerFacts DEF Fresh
    <3>4. CASE mgr.pc # "bootout"
      <4>1. mgr.pc \notin {"failed", "killed"} BY <1>0, <3>2 DEF AgentInv, MacRest
      <4>2. QED BY <1>0, <2>5, <3>1, <3>2, <3>4, <4>1 DEF UpgradeInv
    <3>5. QED BY <3>3, <3>4
  <2>7. UpgradeInv' BY <1>0, <2>1, <2>4, <2>5, <2>6 DEF UpgradeInv
  <2>8. QED BY <2>2, <2>4, <2>7 DEF MacInv
<1>13. ASSUME Mac!LoginAgain PROVE MacInv'
  <2>1. Mac!Login /\ Mac!EndAgent /\ UNCHANGED <<binary, latest, up>>
    BY <1>13 DEF Mac!LoginAgain
  <2>2. AgentInv' BY <1>0, <2>1, AgentSteps
  <2>3. AgentAlive => loaded BY <1>0 DEF UpgradeInv
  <2>4. /\ LeaseInv'
        /\ AgentAlive' => loaded' /\ AgentAlive /\ proc'["agent"].code = proc["agent"].code
    BY <1>0, <2>1, <2>3, EndAgentFacts
  <2>5. Fresh => Fresh' BY <2>1, <2>4 DEF Fresh
  <2>6. mgr' = mgr BY <2>1 DEF Mac!Login
  <2>7. UpgradeInv' BY <1>0, <2>1, <2>4, <2>5, <2>6 DEF UpgradeInv
  <2>8. QED BY <2>2, <2>4, <2>7 DEF MacInv
<1>14. ASSUME NEW p \in Mac!Procs, p = "agent" => loaded, Mac!Lease!Boot(p, binary),
              UNCHANGED <<autostart, loaded, persistent, transient, mgr, torn, ops, binary, latest, up>>
       PROVE  MacInv'
  <2>1. binary \in Nat BY <1>0 DEF UpgradeInv
  <2>2. LeaseInv' BY <1>0, <1>14, <2>1, LeaseSteps
  <2>3. AgentInv' BY <1>0, <1>14 DEF AgentInv
  <2>4. \/ proc'["agent"] = proc["agent"]
        \/ proc'["agent"].code = binary /\ loaded
    BY <1>0, <1>a, <1>14 DEF Mac!Lease!Boot, LeaseInv
  <2>5. (AgentAlive' => loaded') /\ (Fresh => Fresh')
    BY <1>0, <1>14, <2>4 DEF AgentAlive, Fresh, UpgradeInv
  <2>6. UpgradeInv' BY <1>0, <1>14, <2>5 DEF UpgradeInv
  <2>7. QED BY <2>2, <2>3, <2>6 DEF MacInv
<1>15. ASSUME Mac!AgentBoots \/ Mac!ShellBoots PROVE MacInv'
  BY <1>a, <1>14, <1>15 DEF Mac!AgentBoots, Mac!ShellBoots, Mac!agent
<1>16. ASSUME NEW p \in Mac!Procs, Mac!Lease!Steps(p),
              UNCHANGED <<autostart, loaded, persistent, transient, mgr, torn, ops, binary, latest, up>>
       PROVE  MacInv'
  <2>1. LeaseInv' BY <1>0, <1>16, LeaseSteps
  <2>2. AgentInv' BY <1>0, <1>16 DEF AgentInv
  <2>3. AgentAlive' => AgentAlive /\ proc'["agent"].code = proc["agent"].code
    BY <1>0, <1>a, <1>16, CodeKept DEF AgentAlive
  <2>4. Fresh => Fresh' BY <1>16, <2>3 DEF Fresh
  <2>5. UpgradeInv' BY <1>0, <1>16, <2>3, <2>4 DEF UpgradeInv
  <2>6. QED BY <2>1, <2>2, <2>5 DEF MacInv
<1>17. ASSUME Mac!AgentSteps \/ Mac!ShellSteps PROVE MacInv'
  BY <1>a, <1>16, <1>17 DEF Mac!AgentSteps, Mac!ShellSteps, Mac!agent
<1>18. ASSUME Mac!Release PROVE MacInv'
  <2>1. /\ latest' = latest + 1 /\ UNCHANGED <<binary, up>>
        /\ UNCHANGED <<autostart, loaded, persistent, transient, mgr, torn, ops,
                       lock, meta, proc, tokens>>
    BY <1>18 DEF Mac!Release, Mac!agent, Mac!lease
  <2>2. LeaseInv' /\ AgentInv' BY <1>0, <2>1 DEF LeaseInv, AgentInv
  <2>3. latest' \in Nat \ {0} BY <1>0, <2>1 DEF UpgradeInv
  <2>4. UpgradeInv' BY <1>0, <2>1, <2>3 DEF UpgradeInv, Fresh, AgentAlive
  <2>5. QED BY <2>2, <2>4 DEF MacInv
<1>19. ASSUME UNCHANGED Mac!vars PROVE MacInv'
  <2>1. Still /\ UNCHANGED <<binary, up>> BY <1>19 DEF Mac!vars, Mac!agent, Mac!lease
  <2>2. UpgradeInv' BY <1>0, <2>1 DEF UpgradeInv, Fresh, AgentAlive
  <2>3. QED BY <1>1, <2>1, <2>2 DEF MacInv
<1>20. QED
  BY <1>3, <1>4, <1>5, <1>6, <1>7, <1>8, <1>9, <1>10, <1>11, <1>12, <1>13, <1>15, <1>17, <1>18,
     <1>19, Zenon DEF Mac!HostNext, Mac!Upgrade

-----------------------------------------------------------------------------
(* Linux: services and configurations                                      *)

ManagedConfig ==
    [devices : SUBSET Kinds, network : {"bridge", "host", "custom"}, names : SUBSET Names,
     manual : BOOLEAN, public : Names \cup {"localhost"}, listen : {"default", "flag"},
     image : Images, keys : BOOLEAN]

\* The service startWithConfig renders.
Built(c, b, a, locality) ==
    BuildServiceSpecWithAutostart(c, [beforeSetup |-> b, locality |-> locality], a)
Rendered(c, b, a, h) == Built(c, b, a, ResolveServiceHostContext(c, h))
Specs == {Rendered(c, b, a, h) : c \in ManagedConfig, b \in BOOLEAN, a \in BOOLEAN, h \in SUBSET Names}
\* Those of one configuration, once setup has run.
ServiceFor(s, c) == \E a \in BOOLEAN, h \in SUBSET Names : s = Rendered(c, FALSE, a, h)

\* Every configuration the manager comes upon is a managed one, and none of
\* them is the absent one.
LEMMA Managed ==
  /\ \A c \in Configs : c \in ManagedConfig
  /\ \A c \in ManagedConfig : c # NoConfig /\ [c EXCEPT !.listen = "flag"] \in ManagedConfig
  /\ Bootstrap(BootImage) \in ManagedConfig
<1>1. \A c \in Configs : c \in ManagedConfig
  BY ManagerAssumption DEF Config, ManagedConfig
<1>2. ASSUME NEW c \in ManagedConfig PROVE c # NoConfig
  <2>1. "listen" \in DOMAIN c BY DEF ManagedConfig
  <2>2. "listen" \notin DOMAIN NoConfig BY DEF NoConfig
  <2>3. QED BY <2>1, <2>2
<1>3. ASSUME NEW c \in ManagedConfig PROVE [c EXCEPT !.listen = "flag"] \in ManagedConfig
  BY DEF ManagedConfig
<1>4. Bootstrap(BootImage) \in ManagedConfig
  BY ManagerAssumption DEF Bootstrap, ManagedConfig
<1>5. QED BY <1>1, <1>2, <1>3, <1>4

\* What a rendered service contains.
LEMMA BuiltFields ==
  ASSUME NEW c, NEW b, NEW a, NEW M
  PROVE  /\ Built(c, b, a, M) # NoFile
         /\ Built(c, b, a, M).image = c.image /\ Built(c, b, a, M).restart = a
<1> DEFINE s == Built(c, b, a, M)
<1>1. s.image = c.image /\ s.restart = a BY DEF Built, BuildServiceSpecWithAutostart
<1>2. "restart" \in DOMAIN s BY DEF Built, BuildServiceSpecWithAutostart
<1>3. "restart" \notin DOMAIN NoFile BY DEF NoFile
<1>4. QED BY <1>1, <1>2, <1>3

\* The answers of names outside the known ones are never asked for.
LEMMA ResolvesNames ==
  ASSUME NEW c \in ManagedConfig, NEW h
  PROVE  ResolveServiceHostContext(c, h) = ResolveServiceHostContext(c, h \cap Names)
<1>1. serviceDependencyHostnames(c) \ {"localhost"} \subseteq Names
  BY DEF ManagedConfig, serviceDependencyHostnames
<1>2. QED BY <1>1 DEF ResolveServiceHostContext

\* When every name is known to the process that applied the service, its
\* answers are the ones the service is judged by.
LEMMA KnownLocality ==
  ASSUME NEW c, NEW s, NEW h, ~ServiceHostLocalityUnknown(c, s.locality)
  PROVE  /\ hostLocalDependencies(c, s.locality) <=> hostLocalDependencies(c, AnswersFor(c, s, h))
         /\ \A n \in DOMAIN AnswersFor(c, s, h) :
               n \in DOMAIN s.locality /\ AnswersFor(c, s, h)[n] = s.locality[n]
<1> DEFINE L == AnswersFor(c, s, h)
           M == s.locality
           T == ResolveServiceHostContext(c, h)
<1>1. /\ DOMAIN T = serviceDependencyHostnames(c) \ {"localhost"}
      /\ L = [n \in DOMAIN T |-> IF n \in DOMAIN M THEN M[n] ELSE T[n]]
  BY DEF ResolveServiceHostContext, AnswersFor
<1> HIDE DEF L, M, T
<1>2. ASSUME NEW n \in serviceDependencyHostnames(c), n # "localhost"
      PROVE  n \in DOMAIN M /\ n \in DOMAIN L /\ L[n] = M[n]
  <2>1. n \in DOMAIN M BY <1>2 DEF ServiceHostLocalityUnknown, hostNameLocality, M
  <2>2. QED BY <1>1, <1>2, <2>1
<1>3. ASSUME NEW n \in serviceDependencyHostnames(c)
      PROVE  hostNameLocality(n, M) = hostNameLocality(n, L)
  BY <1>2 DEF hostNameLocality
<1>4. hostLocalDependencies(c, M) <=> hostLocalDependencies(c, L)
  BY <1>3 DEF hostLocalDependencies
<1>5. \A n \in DOMAIN L : n \in DOMAIN M /\ L[n] = M[n] BY <1>1, <1>2
<1>6. QED BY <1>4, <1>5 DEF L, M

\* A service that was applied for d and is compatible with c provides what a
\* service applied for c would: the fingerprint remembers enough of d.
LEMMA CompatibleServes ==
  ASSUME NEW c \in ManagedConfig, NEW d \in ManagedConfig, NEW b \in BOOLEAN, NEW a \in BOOLEAN,
         NEW e \in BOOLEAN, NEW h, NEW here,
         ServiceConfigCompatibleWithFingerprint(c, Rendered(d, b, a, h))
  PROVE  /\ Provides(Rendered(d, b, a, h),
                     Built(c, FALSE, e, AnswersFor(c, Rendered(d, b, a, h), here)))
         /\ \/ MountsEqual(Rendered(d, b, a, h),
                           Built(c, FALSE, e, AnswersFor(c, Rendered(d, b, a, h), here)))
            \/ AndroidInExcess(Rendered(d, b, a, h),
                               Built(c, FALSE, e, AnswersFor(c, Rendered(d, b, a, h), here)))
<1> DEFINE M == ResolveServiceHostContext(d, h)
           s == Built(d, b, a, M)
           L == AnswersFor(c, s, here)
           hostL == [beforeSetup |-> FALSE, locality |-> L]
           hostM == [beforeSetup |-> FALSE, locality |-> M]
           hostD == [beforeSetup |-> b, locality |-> M]
           w == Built(c, FALSE, e, L)
           want == serviceConfigProjectionForHost(c, TRUE, hostM)
           capsC == ServiceCapabilitiesForConfig(c)
           capsD == ServiceCapabilitiesForConfig(d)
\* The fields of both services that matter.
<1>1. /\ s.mode = ServiceNetworkModeForConfig(d, hostD) /\ s.image = d.image
      /\ s.networks = (IF d.network = "custom" THEN {"custom"} ELSE {})
      /\ s.ports = (IF s.mode = "host" THEN {}
                    ELSE {<<"dashboard", d.listen>>, <<"api", serviceAPIPublishHost(d, hostD)>>})
      /\ s.devices = (IF capsD.usb THEN {"usb"} ELSE {}) \union
                     (IF capsD.emulator /\ HasKVM THEN {"kvm"} ELSE {})
      /\ s.knownHosts = KnownHosts(d)
      /\ s.extraHosts = {n \in DOMAIN M \cap serviceDependencyHostnames(d) : M[n]}
      /\ s.locality = M
      /\ s.applied = serviceConfigProjectionForHost(d, ~b, hostD)
  BY DEF Built, BuildServiceSpecWithAutostart
<1>2. /\ w.mode = ServiceNetworkModeForConfig(c, hostL) /\ w.image = c.image
      /\ w.networks = (IF c.network = "custom" THEN {"custom"} ELSE {})
      /\ w.ports = (IF w.mode = "host" THEN {}
                    ELSE {<<"dashboard", c.listen>>, <<"api", serviceAPIPublishHost(c, hostL)>>})
      /\ w.devices = (IF capsC.usb THEN {"usb"} ELSE {}) \union
                     (IF capsC.emulator /\ HasKVM THEN {"kvm"} ELSE {})
      /\ w.knownHosts = KnownHosts(c)
      /\ w.extraHosts = {n \in DOMAIN L \cap serviceDependencyHostnames(c) : L[n]}
  BY DEF Built, BuildServiceSpecWithAutostart
<1>3. /\ s.caps = [capsD EXCEPT !.adb = capsD.adb \/ b]
      /\ s.adbSocket = IF ~(capsD.adb \/ b) THEN "none"
                       ELSE IF s.mode = "host" THEN "loopback" ELSE "gateway"
      /\ w.adbSocket = IF ~(capsC.adb \/ FALSE) THEN "none"
                       ELSE IF w.mode = "host" THEN "loopback" ELSE "gateway"
  BY DEF Built, BuildServiceSpecWithAutostart
\* What compatibility says.
<1>4. /\ ~ServiceHostLocalityUnknown(c, M)
      /\ want.mode = s.mode
      /\ want.caps.knownHosts \subseteq s.caps.knownHosts
      /\ s.applied = [want EXCEPT !.caps = [adb |-> @.adb \/ s.caps.adb,
                                            usb |-> @.usb \/ s.caps.usb,
                                            emulator |-> @.emulator \/ s.caps.emulator,
                                            knownHosts |-> s.caps.knownHosts]]
  BY <1>1 DEF ServiceConfigCompatibleWithFingerprint, Rendered
\* The network mode and the publishing of the API are those of c itself.
<1>5. ServiceNetworkModeForConfig(c, hostM) = ServiceNetworkModeForConfig(c, hostL)
  BY <1>1, <1>4, KnownLocality DEF ServiceNetworkModeForConfig
<1>6. serviceAPIPublishHost(c, hostM) = serviceAPIPublishHost(c, hostL)
  BY <1>5 DEF serviceAPIPublishHost
<1>7. /\ want.mode = ServiceNetworkModeForConfig(c, hostM)
      /\ want.api = serviceAPIPublishHost(c, hostM) /\ want.listen = c.listen
      /\ want.image = c.image /\ want.network = c.network
      /\ want.caps = [capsC EXCEPT !.adb = @ \/ ~TRUE]
      /\ DOMAIN want = {"configured", "mode", "api", "listen", "image", "network", "keys", "caps"}
      /\ want.configured = TRUE
  BY DEF serviceConfigProjectionForHost
<1>8. /\ s.applied.mode = ServiceNetworkModeForConfig(d, hostD)
      /\ s.applied.api = serviceAPIPublishHost(d, hostD) /\ s.applied.listen = d.listen
      /\ s.applied.image = d.image /\ s.applied.network = d.network
      /\ s.applied.caps = [capsD EXCEPT !.adb = @ \/ ~~b]
  BY <1>1 DEF serviceConfigProjectionForHost
<1> HIDE DEF want, s, w, capsC, capsD, hostL, hostM, hostD, L, M
<1>9. /\ s.applied.mode = want.mode /\ s.applied.api = want.api
      /\ s.applied.listen = want.listen /\ s.applied.image = want.image
      /\ s.applied.network = want.network
      /\ s.applied.caps = [adb |-> want.caps.adb \/ s.caps.adb,
                           usb |-> want.caps.usb \/ s.caps.usb,
                           emulator |-> want.caps.emulator \/ s.caps.emulator,
                           knownHosts |-> s.caps.knownHosts]
  BY <1>4, <1>7
<1>10. <<s.mode, s.networks, s.ports, s.image>> = <<w.mode, w.networks, w.ports, w.image>>
  BY <1>1, <1>2, <1>4, <1>5, <1>6, <1>7, <1>8, <1>9
\* Capabilities.
<1> DEFINE Caps == [adb : BOOLEAN, usb : BOOLEAN, emulator : BOOLEAN, knownHosts : SUBSET {"redroid"}]
<1>11. capsC \in Caps /\ capsC.knownHosts = KnownHosts(c)
  BY DEF capsC, ServiceCapabilitiesForConfig, KnownHosts
<1>12. capsD \in Caps /\ capsD.knownHosts = KnownHosts(d)
  BY DEF capsD, ServiceCapabilitiesForConfig, KnownHosts
<1>13. /\ want.caps.knownHosts = capsC.knownHosts /\ want.caps.usb = capsC.usb
       /\ want.caps.emulator = capsC.emulator /\ want.caps.adb = (capsC.adb \/ ~TRUE)
  BY <1>7, <1>11
<1>14. /\ s.caps.knownHosts = capsD.knownHosts /\ s.caps.usb = capsD.usb
       /\ s.caps.emulator = capsD.emulator /\ s.caps.adb = (capsD.adb \/ b)
  BY <1>3, <1>12
<1>15. /\ s.applied.caps.usb = capsD.usb /\ s.applied.caps.emulator = capsD.emulator
       /\ s.applied.caps.adb = (capsD.adb \/ ~~b)
  BY <1>8, <1>12
<1>16. /\ s.applied.caps.usb = (want.caps.usb \/ s.caps.usb)
       /\ s.applied.caps.emulator = (want.caps.emulator \/ s.caps.emulator)
       /\ s.applied.caps.adb = (want.caps.adb \/ s.caps.adb)
  BY <1>9
<1>17. /\ capsC.usb => capsD.usb
       /\ capsC.emulator => capsD.emulator
       /\ capsC.adb => capsD.adb \/ b
  BY <1>13, <1>14, <1>15, <1>16, Zenon
<1>18. w.devices \subseteq s.devices BY <1>1, <1>2, <1>17
<1>19. w.knownHosts \subseteq s.knownHosts
  BY <1>1, <1>2, <1>4, <1>11, <1>12, <1>13, <1>14
<1>20. w.extraHosts \subseteq s.extraHosts
  <2>1. \A n \in DOMAIN L : n \in DOMAIN M /\ L[n] = M[n]
    BY <1>1, <1>4, KnownLocality DEF L
  <2>2. DOMAIN M \subseteq serviceDependencyHostnames(d)
    BY DEF ResolveServiceHostContext, M
  <2>3. QED BY <1>1, <1>2, <2>1, <2>2
<1>21. w.adbSocket \in {"none", s.adbSocket}
  <2>1. w.mode = s.mode BY <1>10
  <2>2. CASE ~capsC.adb BY <1>3, <2>2
  <2>3. CASE capsC.adb
    <3>1. capsD.adb \/ b BY <1>17, <2>3
    <3>2. QED BY <1>3, <2>1, <2>3, <3>1
  <2>4. QED BY <2>2, <2>3
\* The mount: the keys are the same, so it differs by a capability in excess.
<1>22. c.keys = d.keys /\ ~b
  <2>1. s.applied.keys = want.keys /\ s.applied.configured = want.configured
    BY <1>4, <1>7
  <2>2. s.applied.keys = d.keys /\ s.applied.configured = ~b
    BY <1>1 DEF serviceConfigProjectionForHost
  <2>3. want.keys = c.keys BY DEF want, serviceConfigProjectionForHost
  <2>4. QED BY <1>7, <2>1, <2>2, <2>3
<1>23. /\ s.androidMount = IF d.keys /\ ~capsD.emulator /\ capsD.adb THEN "keys" ELSE "android"
       /\ w.androidMount = IF c.keys /\ ~capsC.emulator /\ capsC.adb THEN "keys" ELSE "android"
       /\ w.caps = [capsC EXCEPT !.adb = capsC.adb \/ FALSE]
  BY DEF Built, BuildServiceSpecWithAutostart, s, w, capsC, capsD
<1>24. w.caps.emulator = capsC.emulator /\ w.caps.adb = (capsC.adb \/ FALSE)
  BY <1>11, <1>23
<1>25. MountsEqual(s, w) \/ AndroidInExcess(s, w)
  BY <1>14, <1>17, <1>22, <1>23, <1>24, Zenon DEF MountsEqual, AndroidInExcess
<1>26. QED BY <1>10, <1>18, <1>19, <1>20, <1>21, <1>25 DEF Provides, Rendered, s, w, L, M

-----------------------------------------------------------------------------
(* Linux: invariants                                                       *)

ContainerRecord == [spec : Specs, up : BOOLEAN, digest : Images \X Nat,
                    restart : BOOLEAN, upgraded : BOOLEAN]
AppliedRecord == [image : Images, digest : Images \X Nat]
RestPcs == {"idle", "ok", "failed", "killed"}
CfgPcs == {"override", "write", "preflight", "up", "record", "pull", "recreate"}
MgrCfg == {NoConfig} \cup ManagedConfig \cup BOOLEAN
MgrRecord == [op : {"idle", "start", "stop", "restart", "apply", "autostart", "upgrade"},
              pc : RestPcs \cup CfgPcs \cup {"load", "stop", "status", "save", "update"},
              cfg : MgrCfg, arg : BOOLEAN]

LinuxType ==
    /\ config \in {NoConfig} \cup ManagedConfig
    /\ autostart \in BOOLEAN /\ torn \in BOOLEAN
    /\ compose \in {NoFile} \cup Specs
    /\ container \in {NoContainer} \cup ContainerRecord
    /\ record \in {NoRecord} \cup AppliedRecord
    /\ registry \in [Images -> Nat] /\ local \in [Images -> Nat]
    /\ mgr \in MgrRecord

\* What a process of the manager relies on between two of its steps: the
\* configuration it read, the compose file it wrote, the container it found.
MgrInv ==
    /\ mgr.op = "idle" <=> mgr.pc \in RestPcs
    /\ mgr.pc \in CfgPcs => mgr.cfg \in ManagedConfig
    /\ mgr.pc \in {"preflight", "up"} => compose \in Specs /\ compose.restart = autostart
    /\ mgr.pc \in {"pull", "recreate"} => compose \in Specs
    /\ mgr.pc = "update" => container \in ContainerRecord /\ mgr.cfg \in BOOLEAN

\* A restart bound to a snapshot carries it from the call to the record.
ApplyInv ==
    mgr.op = "apply" =>
        /\ config # NoConfig /\ mgr.cfg \in ManagedConfig
        /\ mgr.pc \in {"preflight", "up"} => ServiceFor(compose, mgr.cfg)
        /\ mgr.pc = "record" =>
              /\ container \in ContainerRecord /\ container.up
              /\ ServiceFor(container.spec, mgr.cfg)

\* The restart policy follows the setting, except between the save of the
\* setting and Docker's update, when it follows the setting before.
PolicyInv ==
    /\ container \in ContainerRecord => compose \in Specs
    /\ container \in ContainerRecord /\ ~torn /\ ~container.upgraded =>
          container.restart = IF mgr.pc = "update" THEN mgr.cfg ELSE autostart

\* Versions only grow: the registry is ahead of the local store, that is ahead
\* of the container and of the record, and a record of the container's own tag
\* is never ahead of the container.
VersionInv ==
    /\ \A i \in Images : local[i] <= registry[i]
    /\ container \in ContainerRecord =>
          /\ container.digest[1] = container.spec.image
          /\ container.digest[2] <= local[container.digest[1]]
    /\ record \in AppliedRecord => record.digest[2] <= local[record.digest[1]]
    /\ container \in ContainerRecord /\ record \in AppliedRecord
          /\ record.digest[1] = container.digest[1]
             => record.digest[2] <= container.digest[2]

LinuxInv == LinuxType /\ MgrInv /\ ApplyInv /\ PolicyInv /\ VersionInv

-----------------------------------------------------------------------------
(* Linux: the steps                                                        *)

\* What is known of any rendered service.
LEMMA SpecFacts ==
  ASSUME NEW s \in Specs
  PROVE  s # NoFile /\ s.image \in Images /\ s.restart \in BOOLEAN
<1>1. PICK c \in ManagedConfig, b \in BOOLEAN, a \in BOOLEAN, h \in SUBSET Names :
          s = Rendered(c, b, a, h)
  BY DEF Specs
<1>2. c.image \in Images BY DEF ManagedConfig
<1>3. QED BY <1>1, <1>2, BuiltFields DEF Rendered

\* What is known of any container.
LEMMA ContainerFacts ==
  ASSUME NEW k \in ContainerRecord
  PROVE  /\ k # NoContainer /\ k.spec \in Specs /\ k.spec # NoFile
         /\ k.up \in BOOLEAN /\ k.restart \in BOOLEAN /\ k.upgraded \in BOOLEAN
         /\ k.digest \in Images \X Nat
<1>1. "digest" \in DOMAIN k BY DEF ContainerRecord
<1>2. "digest" \notin DOMAIN NoContainer BY DEF NoContainer
<1>3. k # NoContainer BY <1>1, <1>2
<1>4. k.spec \in Specs /\ k.up \in BOOLEAN /\ k.restart \in BOOLEAN /\ k.upgraded \in BOOLEAN
      /\ k.digest \in Images \X Nat
  BY DEF ContainerRecord
<1>5. k.spec # NoFile BY <1>4, SpecFacts
<1>6. QED BY <1>3, <1>4, <1>5

\* Docker starts or stops a container: nothing else of it changes.
LEMMA ContainerUp ==
  ASSUME NEW k \in ContainerRecord, NEW b \in BOOLEAN, NEW m, m = [k EXCEPT !.up = b]
  PROVE  /\ m \in ContainerRecord /\ m.up = b /\ m.spec = k.spec /\ m.digest = k.digest
         /\ m.restart = k.restart /\ m.upgraded = k.upgraded
BY DEF ContainerRecord

\* There is nothing to stop where there is no container.
LEMMA NothingToStop == [NoContainer EXCEPT !.up = FALSE] = NoContainer
<1>1. DOMAIN NoContainer = {"spec", "up"} /\ NoContainer.up = FALSE BY DEF NoContainer
<1>2. NoContainer = [x \in DOMAIN NoContainer |-> NoContainer[x]] BY DEF NoContainer
<1>3. [NoContainer EXCEPT !.up = FALSE] =
         [x \in DOMAIN NoContainer |-> IF x = "up" THEN FALSE ELSE NoContainer[x]]
  BY <1>1
<1>4. QED BY <1>1, <1>2, <1>3

\* The process moves on.
LEMMA GotoFacts ==
  ASSUME mgr \in MgrRecord, NEW pc, Goto(pc),
         pc \in RestPcs \cup CfgPcs \cup {"load", "stop", "status", "save", "update"}
  PROVE  mgr' \in MgrRecord /\ mgr'.op = mgr.op /\ mgr'.pc = pc /\ mgr'.cfg = mgr.cfg
BY DEF MgrRecord, Goto

\* The process ends.
LEMMA ReturnFacts ==
  ASSUME NEW r \in RestPcs, Return(r)
  PROVE  mgr' \in MgrRecord /\ mgr'.op = "idle" /\ mgr'.pc = r
BY DEF MgrRecord, Return, Idle, MgrCfg

\* A process that ends changes nothing that is known, unless it was about to
\* change the restart policy.
LEMMA EndsWell ==
  ASSUME LinuxInv, NEW r \in RestPcs, Return(r), mgr.pc # "update",
         UNCHANGED <<config, autostart, compose, container, record, registry, local, torn>>
  PROVE  LinuxInv'
<1>1. mgr' \in MgrRecord /\ mgr'.op = "idle" /\ mgr'.pc = r BY ReturnFacts
<1>2. LinuxType' BY <1>1 DEF LinuxInv, LinuxType
<1>3. MgrInv' BY <1>1 DEF MgrInv, RestPcs, CfgPcs
<1>4. ApplyInv' BY <1>1 DEF ApplyInv
<1>5. PolicyInv' BY <1>1 DEF LinuxInv, PolicyInv, RestPcs
<1>6. VersionInv' BY DEF LinuxInv, VersionInv
<1>7. QED BY <1>2, <1>3, <1>4, <1>5, <1>6 DEF LinuxInv

\* A process that moves on to a step that needs no more than it has.
LEMMA MovesWell ==
  ASSUME LinuxInv, NEW pc, Goto(pc), mgr.op # "idle",
         pc \in {"load", "write", "up", "recreate"},
         pc = "write" => mgr.cfg \in ManagedConfig,
         pc = "up" => mgr.pc = "preflight",
         pc = "recreate" => mgr.pc = "pull",
         mgr.pc # "update",
         UNCHANGED <<config, autostart, compose, container, record, registry, local, torn>>
  PROVE  LinuxInv'
<1>1. mgr' \in MgrRecord /\ mgr'.op = mgr.op /\ mgr'.pc = pc /\ mgr'.cfg = mgr.cfg
  BY GotoFacts DEF LinuxInv, LinuxType, CfgPcs
<1>2. LinuxType' BY <1>1 DEF LinuxInv, LinuxType
<1>3. MgrInv' BY <1>1 DEF LinuxInv, MgrInv, RestPcs, CfgPcs
<1>4. ApplyInv' BY <1>1 DEF LinuxInv, ApplyInv
<1>5. PolicyInv' BY <1>1 DEF LinuxInv, PolicyInv
<1>6. VersionInv' BY DEF LinuxInv, VersionInv
<1>7. QED BY <1>2, <1>3, <1>4, <1>5, <1>6 DEF LinuxInv

\* A command begins at a step that relies on nothing.
LEMMA InvokeKeeps ==
  ASSUME LinuxInv, NEW op, NEW pc, NEW cfg \in {NoConfig} \cup ManagedConfig, NEW arg \in BOOLEAN,
         Invoke(op, pc, cfg, arg),
         op \in {"start", "stop", "restart", "apply", "autostart", "upgrade"},
         pc \in {"load", "stop", "save", "status"},
         op = "apply" => config # NoConfig /\ cfg \in ManagedConfig /\ pc = "stop"
  PROVE  LinuxInv'
<1>1. /\ mgr' = [op |-> op, pc |-> pc, cfg |-> cfg, arg |-> arg] /\ mgr.op = "idle"
      /\ UNCHANGED <<config, autostart, compose, container, record, registry, local, torn>>
  BY DEF Invoke, Resting, files, world
<1>2. mgr' \in MgrRecord /\ mgr'.op = op /\ mgr'.pc = pc /\ mgr'.cfg = cfg
  BY <1>1 DEF MgrRecord, MgrCfg
<1>3. LinuxType' BY <1>1, <1>2 DEF LinuxInv, LinuxType
<1>4. MgrInv' BY <1>1, <1>2 DEF LinuxInv, MgrInv, RestPcs, CfgPcs
<1>5. ApplyInv' BY <1>1, <1>2 DEF LinuxInv, ApplyInv
<1>6. PolicyInv' BY <1>1, <1>2 DEF LinuxInv, PolicyInv, MgrInv, RestPcs
<1>7. VersionInv' BY <1>1 DEF LinuxInv, VersionInv
<1>8. QED BY <1>3, <1>4, <1>5, <1>6, <1>7 DEF LinuxInv

\* So does every command.
LEMMA CallsKeep ==
  ASSUME LinuxInv,
         \/ \E listen \in BOOLEAN : Start(listen)
         \/ Stop \/ Restart \/ RestartWithConfig \/ Enable \/ Disable \/ UpgradeImage
  PROVE  LinuxInv'
<1>1. config # NoConfig => config \in ManagedConfig BY DEF LinuxInv, LinuxType
<1>2. CASE \E listen \in BOOLEAN : Start(listen) BY <1>2, InvokeKeeps DEF Start
<1>3. CASE Stop BY <1>3, InvokeKeeps DEF Stop
<1>4. CASE Restart BY <1>4, InvokeKeeps DEF Restart
<1>5. CASE RestartWithConfig BY <1>1, <1>5, InvokeKeeps DEF RestartWithConfig
<1>6. CASE Enable BY <1>6, InvokeKeeps DEF Enable
<1>7. CASE Disable BY <1>7, InvokeKeeps DEF Disable
<1>8. CASE UpgradeImage BY <1>8, InvokeKeeps DEF UpgradeImage
<1>9. QED BY <1>2, <1>3, <1>4, <1>5, <1>6, <1>7, <1>8

\* The configuration is read, and a listen address written back into it.
LEMMA LoadKeeps ==
  ASSUME LinuxInv, LoadConfig \/ OverrideListen
  PROVE  LinuxInv'
<1>0. mgr \in MgrRecord BY DEF LinuxInv, LinuxType
<1>1. CASE LoadConfig
  <2> DEFINE cfg == IF config # NoConfig THEN config
                    ELSE [Bootstrap(BootImage) EXCEPT !.listen = IF mgr.arg THEN "flag" ELSE @]
             pc == IF mgr.arg /\ config # NoConfig THEN "override" ELSE "write"
  <2>1. /\ mgr' = [mgr EXCEPT !.cfg = cfg, !.pc = pc]
        /\ mgr.op \in {"start", "restart"} /\ mgr.pc = "load"
        /\ UNCHANGED <<config, autostart, compose, container, record, registry, local, torn>>
    BY <1>1 DEF LoadConfig, At, files, world
  <2>2. pc \in {"override", "write"} OBVIOUS
  <2>3. [Bootstrap(BootImage) EXCEPT !.listen = IF mgr.arg THEN "flag" ELSE @] \in ManagedConfig
    <3>1. Bootstrap(BootImage).listen \in {"default", "flag"} BY DEF Bootstrap
    <3>2. (IF mgr.arg THEN "flag" ELSE Bootstrap(BootImage).listen) \in {"default", "flag"}
      BY <3>1
    <3>3. QED BY <3>2, Managed DEF ManagedConfig
  <2>4. cfg \in ManagedConfig BY <2>3 DEF LinuxInv, LinuxType
  <2> HIDE DEF cfg, pc
  <2>5. cfg \in MgrCfg BY <2>4 DEF MgrCfg
  <2>6. mgr' \in MgrRecord /\ mgr'.op = mgr.op /\ mgr'.pc = pc /\ mgr'.cfg = cfg
    BY <1>0, <2>1, <2>2, <2>5 DEF MgrRecord, CfgPcs
  <2>7. LinuxType' BY <2>1, <2>6 DEF LinuxInv, LinuxType
  <2>8. MgrInv' BY <2>1, <2>2, <2>4, <2>6 DEF LinuxInv, MgrInv, RestPcs, CfgPcs
  <2>9. ApplyInv' BY <2>1, <2>6 DEF ApplyInv
  <2>10. PolicyInv' BY <2>1, <2>2, <2>6 DEF LinuxInv, PolicyInv
  <2>11. VersionInv' BY <2>1 DEF LinuxInv, VersionInv
  <2>12. QED BY <2>7, <2>8, <2>9, <2>10, <2>11 DEF LinuxInv
<1>2. CASE OverrideListen
  <2> DEFINE cfg == [mgr.cfg EXCEPT !.listen = "flag"]
  <2>1. /\ config' = cfg /\ mgr' = [mgr EXCEPT !.cfg = cfg, !.pc = "write"]
        /\ mgr.op = "start" /\ mgr.pc = "override"
        /\ UNCHANGED <<autostart, compose, container, record, registry, local, torn>>
    BY <1>2 DEF OverrideListen, At, world
  <2>2. cfg \in ManagedConfig BY <2>1, Managed DEF LinuxInv, MgrInv, CfgPcs
  <2> HIDE DEF cfg
  <2>3. cfg \in MgrCfg BY <2>2 DEF MgrCfg
  <2>4. mgr' \in MgrRecord /\ mgr'.op = mgr.op /\ mgr'.pc = "write" /\ mgr'.cfg = cfg
    BY <1>0, <2>1, <2>3 DEF MgrRecord, CfgPcs
  <2>5. LinuxType' BY <2>1, <2>2, <2>4 DEF LinuxInv, LinuxType
  <2>6. MgrInv' BY <2>1, <2>2, <2>4 DEF LinuxInv, MgrInv, RestPcs, CfgPcs
  <2>7. ApplyInv' BY <2>1, <2>4 DEF ApplyInv
  <2>8. PolicyInv' BY <2>1, <2>4 DEF LinuxInv, PolicyInv
  <2>9. VersionInv' BY <2>1 DEF LinuxInv, VersionInv
  <2>10. QED BY <2>5, <2>6, <2>7, <2>8, <2>9 DEF LinuxInv
<1>3. QED BY <1>1, <1>2

\* The compose file that is written is a service for the configuration read.
LEMMA WriteKeeps ==
  ASSUME LinuxInv, WriteServiceCompose
  PROVE  LinuxInv'
<1>0. PICK here \in SUBSET LocalNames :
         compose' = BuildServiceSpecWithAutostart(mgr.cfg,
                        [beforeSetup |-> config = NoConfig,
                         locality |-> ResolveServiceHostContext(mgr.cfg, here)], autostart)
  BY DEF WriteServiceCompose
<1> DEFINE b == config = NoConfig
           h == here \cap Names
           s == Rendered(mgr.cfg, b, autostart, h)
<1>1. /\ compose' = s /\ Goto("preflight") /\ mgr.pc = "write"
      /\ mgr.op \in {"start", "restart", "apply"}
      /\ UNCHANGED <<config, autostart, container, record, registry, local, torn>>
  <2>1. mgr.cfg \in ManagedConfig BY DEF WriteServiceCompose, At, LinuxInv, MgrInv, CfgPcs
  <2>2. ResolveServiceHostContext(mgr.cfg, here) = ResolveServiceHostContext(mgr.cfg, h)
    BY <2>1, ResolvesNames
  <2>3. QED BY <1>0, <2>2 DEF WriteServiceCompose, Built, Rendered, At, world
<1>2. /\ mgr' \in MgrRecord /\ mgr'.op = mgr.op /\ mgr'.pc = "preflight" /\ mgr'.cfg = mgr.cfg
  BY <1>1, GotoFacts DEF LinuxInv, LinuxType, CfgPcs
<1>3. mgr.cfg \in ManagedConfig BY <1>1 DEF LinuxInv, MgrInv, CfgPcs
<1>4. b \in BOOLEAN /\ autostart \in BOOLEAN BY DEF LinuxInv, LinuxType
<1>5. mgr.op = "apply" => b = FALSE BY DEF LinuxInv, ApplyInv
<1> HIDE DEF b
<1>h. h \in SUBSET Names OBVIOUS
<1> HIDE DEF h
<1>6. s \in Specs BY <1>3, <1>4, <1>h DEF Specs
<1>7. s.restart = autostart BY BuiltFields DEF Rendered
<1>8. ASSUME mgr.op = "apply" PROVE ServiceFor(s, mgr.cfg)
  <2>1. s = Rendered(mgr.cfg, FALSE, autostart, h) BY <1>5, <1>8
  <2>2. QED BY <1>4, <1>h, <2>1, Zenon DEF ServiceFor
<1> HIDE DEF s
<1>9. LinuxType' BY <1>1, <1>2, <1>6 DEF LinuxInv, LinuxType
<1>10. MgrInv' BY <1>1, <1>2, <1>3, <1>6, <1>7 DEF LinuxInv, MgrInv, RestPcs, CfgPcs
<1>11. ApplyInv' BY <1>1, <1>2, <1>3, <1>8 DEF LinuxInv, ApplyInv
<1>12. PolicyInv' BY <1>1, <1>2, <1>6 DEF LinuxInv, PolicyInv
<1>13. VersionInv' BY <1>1 DEF LinuxInv, VersionInv
<1>14. QED BY <1>9, <1>10, <1>11, <1>12, <1>13 DEF LinuxInv

\* Docker Compose keeps a container that matches its file and its image, or
\* makes a new one of them; either way it comes from the file, with an image
\* at least as new as any before of that tag.
LEMMA ComposeUpFacts ==
  ASSUME LinuxInv, NEW force \in BOOLEAN, NEW upgrade \in BOOLEAN, ComposeUp(force, upgrade),
         compose \in Specs
  PROVE  /\ container' \in ContainerRecord /\ container'.up /\ container'.spec = compose
         /\ container'.digest = <<compose.image, local'[compose.image]>>
         /\ local' \in [Images -> Nat]
         /\ \A i \in Images : local[i] <= local'[i] /\ local'[i] <= registry[i]
         /\ \/ container \in ContainerRecord /\ container'.restart = container.restart
               /\ container'.upgraded = container.upgraded /\ torn' = torn /\ ~force
            \/ container'.restart = compose.restart /\ container'.upgraded = upgrade
               /\ torn' = FALSE
<1> DEFINE image == compose.image
           version == IF AlwaysPull \/ local[image] = 0 THEN registry[image] ELSE local[image]
           keep == ~force /\ container.spec = compose /\ container.digest = <<image, version>>
<1>1. /\ local' = [local EXCEPT ![image] = version]
      /\ container' = IF keep THEN [container EXCEPT !.up = TRUE]
                      ELSE [spec |-> compose, up |-> TRUE, digest |-> <<image, version>>,
                            restart |-> compose.restart, upgraded |-> upgrade]
      /\ torn' = IF keep THEN torn ELSE FALSE
  BY DEF ComposeUp
<1>2. image \in Images /\ compose # NoFile /\ compose.restart \in BOOLEAN BY SpecFacts
<1>3. /\ local \in [Images -> Nat] /\ registry \in [Images -> Nat]
      /\ \A i \in Images : local[i] <= registry[i]
  BY DEF LinuxInv, LinuxType, VersionInv
<1>4. version \in Nat /\ local[image] <= version /\ version <= registry[image]
  BY <1>2, <1>3
<1> HIDE DEF version, image
<1>5. /\ local' \in [Images -> Nat] /\ local'[image] = version
      /\ \A i \in Images : local[i] <= local'[i] /\ local'[i] <= registry[i]
  BY <1>1, <1>2, <1>3, <1>4
<1>6. CASE keep
  <2>1. container.spec = compose /\ container.digest = <<image, version>> /\ ~force BY <1>6
  <2>2. NoContainer.spec = NoFile BY DEF NoContainer
  <2>3. container \in ContainerRecord BY <1>2, <2>1, <2>2 DEF LinuxInv, LinuxType
  <2>4. container' = [container EXCEPT !.up = TRUE] /\ torn' = torn BY <1>1, <1>6
  <2>5. /\ container' \in ContainerRecord /\ container'.up = TRUE
        /\ container'.spec = container.spec /\ container'.digest = container.digest
        /\ container'.restart = container.restart /\ container'.upgraded = container.upgraded
    BY <2>3, <2>4, ContainerUp
  <2>6. QED BY <1>5, <2>1, <2>3, <2>4, <2>5 DEF image
<1>7. CASE ~keep
  <2>1. /\ container' = [spec |-> compose, up |-> TRUE, digest |-> <<image, version>>,
                         restart |-> compose.restart, upgraded |-> upgrade]
        /\ torn' = FALSE
    BY <1>1, <1>7
  <2>2. /\ container' \in ContainerRecord /\ container'.up /\ container'.spec = compose
        /\ container'.digest = <<image, version>> /\ container'.restart = compose.restart
        /\ container'.upgraded = upgrade
    BY <1>2, <1>4, <2>1 DEF ContainerRecord
  <2>3. QED BY <1>5, <2>1, <2>2 DEF image
<1>8. QED BY <1>6, <1>7

\* A container made or kept by Start has the file's restart policy, which is
\* the setting's; one made by an upgrade is marked as such.
LEMMA UpKeeps ==
  ASSUME LinuxInv, Up \/ Recreate
  PROVE  LinuxInv'
<1>1. /\ Goto("record") /\ mgr.op # "idle" /\ mgr.pc \in {"up", "recreate"}
      /\ mgr.pc = "recreate" => mgr.op = "upgrade"
      /\ UNCHANGED <<config, autostart, compose, record, registry>>
  BY DEF Up, Recreate, At, ComposeUp, files
<1>2. compose \in Specs /\ (mgr.pc = "up" => compose.restart = autostart)
  BY <1>1 DEF LinuxInv, MgrInv
<1>3. /\ container' \in ContainerRecord /\ container'.up /\ container'.spec = compose
      /\ container'.digest = <<compose.image, local'[compose.image]>>
      /\ local' \in [Images -> Nat]
      /\ \A i \in Images : local[i] <= local'[i] /\ local'[i] <= registry[i]
      /\ \/ container \in ContainerRecord /\ container'.restart = container.restart
            /\ container'.upgraded = container.upgraded /\ torn' = torn
         \/ container'.upgraded = TRUE /\ torn' = FALSE
         \/ container'.restart = autostart /\ torn' = FALSE
  <2>1. CASE Up
    <3>1. mgr.pc = "up" BY <2>1 DEF Up, At
    <3>2. QED BY <1>2, <2>1, <3>1, ComposeUpFacts DEF Up
  <2>2. CASE Recreate BY <1>2, <2>2, ComposeUpFacts DEF Recreate
  <2>3. QED BY <2>1, <2>2
<1>4. mgr' \in MgrRecord /\ mgr'.op = mgr.op /\ mgr'.pc = "record" /\ mgr'.cfg = mgr.cfg
  BY <1>1, GotoFacts DEF LinuxInv, LinuxType, CfgPcs
<1>5. compose.image \in Images BY <1>2, SpecFacts
<1>6. LinuxType' BY <1>1, <1>3, <1>4 DEF LinuxInv, LinuxType
<1>7. MgrInv' BY <1>1, <1>4 DEF LinuxInv, MgrInv, RestPcs, CfgPcs
<1>8. ApplyInv'
  <2>1. SUFFICES ASSUME mgr.op = "apply" PROVE ApplyInv' BY <1>4 DEF ApplyInv
  <2>2. mgr.pc = "up" BY <1>1, <2>1
  <2>3. /\ config # NoConfig /\ mgr.cfg \in ManagedConfig
        /\ ServiceFor(compose, mgr.cfg)
    BY <2>1, <2>2 DEF LinuxInv, ApplyInv, LinuxType
  <2>4. ServiceFor(container'.spec, mgr.cfg) BY <1>3, <2>3
  <2>5. QED BY <1>1, <1>3, <1>4, <2>3, <2>4 DEF ApplyInv
<1>9. PolicyInv'
  <2>1. compose' \in Specs BY <1>1, <1>2
  <2>2. container \in ContainerRecord /\ ~torn /\ ~container.upgraded => container.restart = autostart
    BY <1>1 DEF LinuxInv, PolicyInv
  <2>3. ~torn' /\ ~container'.upgraded => container'.restart = autostart'
    BY <1>1, <1>3, <2>2
  <2>4. QED BY <1>4, <2>1, <2>3 DEF PolicyInv
<1>10. VersionInv'
  <2>1. /\ container'.digest[1] = compose.image /\ container'.digest[2] = local'[compose.image]
    BY <1>3
  <2>2. record \in AppliedRecord =>
           /\ record.digest[1] \in Images /\ record.digest[2] \in Nat
           /\ record.digest[2] <= local[record.digest[1]]
    BY DEF LinuxInv, VersionInv, AppliedRecord
  <2>3. record \in AppliedRecord => record.digest[2] <= local'[record.digest[1]]
    <3>1. local \in [Images -> Nat] BY DEF LinuxInv, LinuxType
    <3>2. QED BY <1>3, <2>2, <3>1
  <2>4. container'.digest[2] <= local'[container'.digest[1]] BY <1>3, <1>5, <2>1
  <2>5. QED BY <1>1, <1>3, <2>1, <2>3, <2>4 DEF VersionInv
<1>11. QED BY <1>6, <1>7, <1>8, <1>9, <1>10 DEF LinuxInv

\* The record is the running container's own digest.
LEMMA RecordKeeps ==
  ASSUME LinuxInv, recordAppliedImageWithPolicy
  PROVE  LinuxInv'
<1>1. /\ Return("ok") /\ mgr.pc = "record" /\ container.up
      /\ record' = [image |-> mgr.cfg.image, digest |-> container.digest]
      /\ UNCHANGED <<config, autostart, compose, container, registry, local, torn>>
  BY DEF recordAppliedImageWithPolicy, world
<1>2. NoContainer.up = FALSE BY DEF NoContainer
<1>3. container \in ContainerRecord BY <1>1, <1>2 DEF LinuxInv, LinuxType
<1>4. container.digest \in Images \X Nat BY <1>3, ContainerFacts
<1>5. mgr.cfg \in ManagedConfig BY <1>1 DEF LinuxInv, MgrInv, CfgPcs
<1>6. mgr.cfg.image \in Images BY <1>5 DEF ManagedConfig
<1>7. record' \in AppliedRecord /\ record'.digest = container.digest
  BY <1>1, <1>4, <1>6 DEF AppliedRecord
<1>8. mgr' \in MgrRecord /\ mgr'.op = "idle" /\ mgr'.pc = "ok"
  BY <1>1, ReturnFacts DEF RestPcs
<1>9. LinuxType' BY <1>1, <1>7, <1>8 DEF LinuxInv, LinuxType
<1>10. MgrInv' BY <1>8 DEF MgrInv, RestPcs, CfgPcs
<1>11. ApplyInv' BY <1>8 DEF ApplyInv
<1>12. PolicyInv' BY <1>1, <1>8 DEF LinuxInv, PolicyInv
<1>13. VersionInv'
  <2>1. container.digest[2] \in Nat BY <1>4
  <2>2. container.digest[2] <= container.digest[2] BY <2>1
  <2>3. container.digest[2] <= local[container.digest[1]] BY <1>3 DEF LinuxInv, VersionInv
  <2>4. QED BY <1>1, <1>3, <1>7, <2>2, <2>3 DEF LinuxInv, VersionInv
<1>14. QED BY <1>9, <1>10, <1>11, <1>12, <1>13 DEF LinuxInv

\* Docker changes whether the container runs, and nothing else.
LEMMA ContainerMoves ==
  ASSUME LinuxInv, NEW b \in BOOLEAN, container' = [container EXCEPT !.up = b],
         mgr.op = "apply" => mgr.pc # "record",
         UNCHANGED <<config, autostart, compose, record, registry, local, mgr, torn>>,
         container \in ContainerRecord
  PROVE  LinuxInv'
<1>1. /\ container' \in ContainerRecord /\ container'.spec = container.spec
      /\ container'.digest = container.digest /\ container'.restart = container.restart
      /\ container'.upgraded = container.upgraded
  BY ContainerUp
<1>2. LinuxType' BY <1>1 DEF LinuxInv, LinuxType
<1>3. MgrInv' BY <1>1 DEF LinuxInv, MgrInv
<1>4. ApplyInv' BY DEF LinuxInv, ApplyInv
<1>5. PolicyInv' BY <1>1 DEF LinuxInv, PolicyInv
<1>6. VersionInv' BY <1>1 DEF LinuxInv, VersionInv
<1>7. QED BY <1>2, <1>3, <1>4, <1>5, <1>6 DEF LinuxInv

\* The container is stopped, and the command ends or goes on.
LEMMA StopKeeps ==
  ASSUME LinuxInv, ComposeStop
  PROVE  LinuxInv'
<1>1. /\ mgr.pc = "stop" /\ mgr.op \in {"stop", "restart", "apply"}
      /\ container' = container \/ container' = [container EXCEPT !.up = FALSE]
      /\ \/ mgr.op = "stop" /\ Return("ok")
         \/ mgr.op = "restart" /\ Goto("load")
         \/ mgr.op = "apply" /\ Goto("write")
      /\ UNCHANGED <<config, autostart, compose, record, registry, local, torn>>
  BY DEF ComposeStop, At, files, world
<1>3. \/ container' = container
      \/ /\ container \in ContainerRecord /\ container' \in ContainerRecord
         /\ container'.spec = container.spec /\ container'.digest = container.digest
         /\ container'.restart = container.restart /\ container'.upgraded = container.upgraded
  BY <1>1, NothingToStop, ContainerUp DEF LinuxInv, LinuxType
<1>4. /\ mgr' \in MgrRecord
      /\ \/ mgr'.op = "idle" /\ mgr'.pc = "ok"
         \/ mgr.op = "restart" /\ mgr'.op = "restart" /\ mgr'.pc = "load"
         \/ mgr.op = "apply" /\ mgr'.op = "apply" /\ mgr'.pc = "write" /\ mgr'.cfg = mgr.cfg
  BY <1>1, ReturnFacts, GotoFacts DEF RestPcs, CfgPcs, LinuxInv, LinuxType
<1>5. LinuxType' BY <1>1, <1>3, <1>4 DEF LinuxInv, LinuxType
<1>6. MgrInv' BY <1>1, <1>3, <1>4 DEF LinuxInv, MgrInv, ApplyInv, RestPcs, CfgPcs
<1>7. ApplyInv' BY <1>1, <1>4 DEF LinuxInv, ApplyInv
<1>8. PolicyInv' BY <1>1, <1>3, <1>4 DEF LinuxInv, PolicyInv
<1>9. VersionInv' BY <1>1, <1>3 DEF LinuxInv, VersionInv
<1>10. QED BY <1>5, <1>6, <1>7, <1>8, <1>9 DEF LinuxInv

\* The setting is saved before Docker hears of it, and put back when Docker
\* refuses; a change cut short in between is marked.
LEMMA AutostartKeeps ==
  ASSUME LinuxInv, setAutostart \/ UpdateRestartPolicy \/ UpdateRefused \/ RestoreFails
  PROVE  LinuxInv'
<1>0. mgr \in MgrRecord /\ autostart \in BOOLEAN /\ mgr.arg \in BOOLEAN
  BY DEF LinuxInv, LinuxType, MgrRecord
<1>1. CASE setAutostart
  <2>1. /\ mgr.op = "autostart" /\ mgr.pc = "save" /\ autostart' = mgr.arg
        /\ UNCHANGED <<config, compose, container, record, registry, local, torn>>
    BY <1>1 DEF setAutostart, At, world
  <2>2. CASE compose = NoFile \/ container = NoContainer
    <3>1. mgr' \in MgrRecord /\ mgr'.op = "idle" /\ mgr'.pc = "ok"
      BY <1>1, <2>2, ReturnFacts DEF setAutostart, RestPcs
    <3>2. container \notin ContainerRecord
      <4>1. ASSUME container \in ContainerRecord PROVE FALSE
        <5>1. compose \in Specs BY <4>1 DEF LinuxInv, PolicyInv
        <5>2. compose # NoFile /\ container # NoContainer BY <4>1, <5>1, SpecFacts, ContainerFacts
        <5>3. QED BY <2>2, <5>2
      <4>2. QED BY <4>1
    <3>3. LinuxType' BY <1>0, <2>1, <3>1 DEF LinuxInv, LinuxType
    <3>4. MgrInv' BY <3>1 DEF MgrInv, RestPcs, CfgPcs
    <3>5. ApplyInv' BY <3>1 DEF ApplyInv
    <3>6. PolicyInv' BY <2>1, <3>2 DEF PolicyInv
    <3>7. VersionInv' BY <2>1 DEF LinuxInv, VersionInv
    <3>8. QED BY <3>3, <3>4, <3>5, <3>6, <3>7 DEF LinuxInv
  <2>3. CASE ~(compose = NoFile \/ container = NoContainer)
    <3>1. mgr' = [mgr EXCEPT !.pc = "update", !.cfg = autostart]
      BY <1>1, <2>3 DEF setAutostart
    <3>2. autostart \in MgrCfg BY <1>0 DEF MgrCfg
    <3>3. /\ mgr' \in MgrRecord /\ mgr'.op = mgr.op /\ mgr'.pc = "update" /\ mgr'.cfg = autostart
      BY <1>0, <3>1, <3>2 DEF MgrRecord
    <3>4. container \in ContainerRecord BY <2>3 DEF LinuxInv, LinuxType
    <3>5. LinuxType' BY <1>0, <2>1, <3>3 DEF LinuxInv, LinuxType
    <3>6. MgrInv' BY <1>0, <2>1, <3>3, <3>4 DEF MgrInv, RestPcs, CfgPcs
    <3>7. ApplyInv' BY <2>1, <3>3 DEF ApplyInv
    <3>8. PolicyInv' BY <2>1, <3>3 DEF LinuxInv, PolicyInv
    <3>9. VersionInv' BY <2>1 DEF LinuxInv, VersionInv
    <3>10. QED BY <3>5, <3>6, <3>7, <3>8, <3>9 DEF LinuxInv
  <2>4. QED BY <2>2, <2>3
<1>2. CASE UpdateRestartPolicy \/ UpdateRefused \/ RestoreFails
  <2>1. /\ mgr.pc = "update" /\ \E r \in {"ok", "failed"} : Return(r)
        /\ UNCHANGED <<config, compose, record, registry, local>>
    BY <1>2 DEF UpdateRestartPolicy, UpdateRefused, RestoreFails, At, files, world
  <2>2. mgr' \in MgrRecord /\ mgr'.op = "idle" /\ mgr'.pc \in {"ok", "failed"}
    BY <2>1, ReturnFacts DEF RestPcs
  <2>3. container \in ContainerRecord /\ mgr.cfg \in BOOLEAN BY <2>1 DEF LinuxInv, MgrInv
  <2>4. /\ container' \in ContainerRecord /\ container'.spec = container.spec
        /\ container'.digest = container.digest /\ autostart' \in BOOLEAN /\ torn' \in BOOLEAN
        /\ ~torn' /\ ~container'.upgraded => container'.restart = autostart'
    <3>1. CASE UpdateRestartPolicy
      <4>1. /\ container' = [container EXCEPT !.restart = autostart, !.upgraded = FALSE]
            /\ torn' = FALSE /\ autostart' = autostart
        BY <3>1 DEF UpdateRestartPolicy, files
      <4>2. /\ container' \in ContainerRecord /\ container'.spec = container.spec
            /\ container'.digest = container.digest /\ container'.restart = autostart
        BY <1>0, <2>3, <4>1 DEF ContainerRecord
      <4>3. QED BY <1>0, <4>1, <4>2
    <3>2. CASE UpdateRefused
      <4>1. /\ container' = container /\ autostart' = mgr.cfg /\ torn' = torn
        BY <3>2 DEF UpdateRefused, restorePrevious
      <4>2. ~torn /\ ~container.upgraded => container.restart = mgr.cfg
        BY <2>1, <2>3 DEF LinuxInv, PolicyInv
      <4>3. torn \in BOOLEAN BY DEF LinuxInv, LinuxType
      <4>4. QED BY <2>3, <4>1, <4>2, <4>3
    <3>3. CASE RestoreFails
      BY <1>0, <2>3, <3>3 DEF RestoreFails, files
    <3>4. QED BY <1>2, <3>1, <3>2, <3>3
  <2>5. LinuxType' BY <2>1, <2>2, <2>4 DEF LinuxInv, LinuxType
  <2>6. MgrInv' BY <2>2 DEF MgrInv, RestPcs, CfgPcs
  <2>7. ApplyInv' BY <2>2 DEF ApplyInv
  <2>8. PolicyInv' BY <2>1, <2>2, <2>3, <2>4 DEF LinuxInv, PolicyInv
  <2>9. VersionInv' BY <2>1, <2>3, <2>4 DEF LinuxInv, VersionInv
  <2>10. QED BY <2>5, <2>6, <2>7, <2>8, <2>9 DEF LinuxInv
<1>3. QED BY <1>1, <1>2

\* An upgrade reads the status and pulls: the local store moves up to the
\* registry, the container stays.
LEMMA UpgradeKeeps ==
  ASSUME LinuxInv, UpgradeStatus \/ Pull
  PROVE  LinuxInv'
<1>0. mgr \in MgrRecord BY DEF LinuxInv, LinuxType
<1>1. CASE UpgradeStatus
  <2>1. /\ mgr.op = "upgrade" /\ mgr.pc = "status"
        /\ UNCHANGED <<config, autostart, compose, container, record, registry, local, torn>>
    BY <1>1 DEF UpgradeStatus, At, files, world
  <2>2. CASE compose = NoFile \/ config = NoConfig
    BY <1>1, <2>1, <2>2, EndsWell DEF UpgradeStatus, RestPcs
  <2>3. CASE ~(compose = NoFile \/ config = NoConfig)
    <3>1. mgr' = [mgr EXCEPT !.cfg = config, !.arg = container.up, !.pc = "pull"]
      BY <1>1, <2>3 DEF UpgradeStatus
    <3>2. config \in ManagedConfig /\ compose \in Specs BY <2>3 DEF LinuxInv, LinuxType
    <3>3. container.up \in BOOLEAN
      <4>1. NoContainer.up \in BOOLEAN BY DEF NoContainer
      <4>2. QED BY <4>1, ContainerFacts DEF LinuxInv, LinuxType
    <3>4. config \in MgrCfg BY <3>2 DEF MgrCfg
    <3>5. mgr' \in MgrRecord /\ mgr'.op = mgr.op /\ mgr'.pc = "pull" /\ mgr'.cfg = config
      BY <1>0, <3>1, <3>3, <3>4 DEF MgrRecord, CfgPcs
    <3>6. LinuxType' BY <2>1, <3>5 DEF LinuxInv, LinuxType
    <3>7. MgrInv' BY <2>1, <3>2, <3>5 DEF MgrInv, RestPcs, CfgPcs
    <3>8. ApplyInv' BY <2>1, <3>5 DEF ApplyInv
    <3>9. PolicyInv' BY <2>1, <3>5 DEF LinuxInv, PolicyInv
    <3>10. VersionInv' BY <2>1 DEF LinuxInv, VersionInv
    <3>11. QED BY <3>6, <3>7, <3>8, <3>9, <3>10 DEF LinuxInv
  <2>4. QED BY <2>2, <2>3
<1>2. CASE Pull
  <2>1. /\ mgr.op = "upgrade" /\ mgr.pc = "pull"
        /\ local' = [local EXCEPT ![compose.image] = registry[compose.image]]
        /\ Goto("recreate") \/ Return("ok")
        /\ UNCHANGED <<config, autostart, compose, container, record, registry, torn>>
    BY <1>2 DEF Pull, At, files
  <2>2. compose \in Specs /\ mgr.cfg \in ManagedConfig BY <2>1 DEF LinuxInv, MgrInv, CfgPcs
  <2>3. compose.image \in Images BY <2>2, SpecFacts
  <2>4. /\ local \in [Images -> Nat] /\ registry \in [Images -> Nat]
        /\ \A i \in Images : local[i] <= registry[i]
    BY DEF LinuxInv, LinuxType, VersionInv
  <2>5. /\ local' \in [Images -> Nat]
        /\ \A i \in Images : local[i] <= local'[i] /\ local'[i] <= registry[i]
    BY <2>1, <2>3, <2>4
  <2>6. /\ mgr' \in MgrRecord
        /\ \/ mgr'.op = mgr.op /\ mgr'.pc = "recreate" /\ mgr'.cfg = mgr.cfg
           \/ mgr'.op = "idle" /\ mgr'.pc = "ok"
    BY <1>0, <2>1, ReturnFacts, GotoFacts DEF RestPcs, CfgPcs
  <2>7. LinuxType' BY <2>1, <2>5, <2>6 DEF LinuxInv, LinuxType
  <2>8. MgrInv' BY <2>1, <2>2, <2>6 DEF MgrInv, RestPcs, CfgPcs
  <2>9. ApplyInv' BY <2>1, <2>6 DEF ApplyInv
  <2>10. PolicyInv' BY <2>1, <2>6 DEF LinuxInv, PolicyInv
  <2>11. VersionInv'
    <3>1. container \in ContainerRecord =>
             container.digest[1] \in Images /\ container.digest[2] \in Nat
      BY ContainerFacts
    <3>2. record \in AppliedRecord => record.digest[1] \in Images /\ record.digest[2] \in Nat
      BY DEF AppliedRecord
    <3>3. \A i \in Images, n \in Nat : n <= local[i] => n <= local'[i] BY <2>4, <2>5
    <3>4. QED BY <2>1, <2>5, <3>1, <3>2, <3>3 DEF LinuxInv, VersionInv
  <2>12. QED BY <2>7, <2>8, <2>9, <2>10, <2>11 DEF LinuxInv
<1>3. QED BY <1>1, <1>2

\* A failing step and a kill; a killed change of the policy is marked.
LEMMA FailuresKeep ==
  ASSUME LinuxInv, Fails \/ Crash
  PROVE  LinuxInv'
<1>1. CASE Fails
  BY <1>1, EndsWell DEF Fails, RestPcs, files, world
<1>2. CASE Crash
  <2>1. /\ Return("killed") /\ torn' = (torn \/ mgr.pc = "update")
        /\ UNCHANGED <<config, autostart, compose, container, record, registry, local>>
    BY <1>2 DEF Crash, files, world
  <2>2. torn \in BOOLEAN BY DEF LinuxInv, LinuxType
  <2>3. CASE mgr.pc # "update"
    <3>1. torn' = torn BY <2>1, <2>2, <2>3
    <3>2. QED BY <2>1, <2>3, <3>1, EndsWell DEF RestPcs
  <2>4. CASE mgr.pc = "update"
    <3>1. torn' = TRUE BY <2>1, <2>2, <2>4
    <3>2. mgr' \in MgrRecord /\ mgr'.op = "idle" /\ mgr'.pc = "killed"
      BY <2>1, ReturnFacts DEF RestPcs
    <3>3. LinuxType' BY <2>1, <3>1, <3>2 DEF LinuxInv, LinuxType
    <3>4. MgrInv' BY <3>2 DEF MgrInv, RestPcs, CfgPcs
    <3>5. ApplyInv' BY <3>2 DEF ApplyInv
    <3>6. PolicyInv' BY <2>1, <3>1 DEF LinuxInv, PolicyInv
    <3>7. VersionInv' BY <2>1 DEF LinuxInv, VersionInv
    <3>8. QED BY <3>3, <3>4, <3>5, <3>6, <3>7 DEF LinuxInv
  <2>5. QED BY <2>3, <2>4
<1>3. QED BY <1>1, <1>2

\* The world around the manager: an edit, a push, a reboot.
LEMMA WorldKeeps ==
  ASSUME LinuxInv, EditConfig \/ Push \/ Reboot
  PROVE  LinuxInv'
<1>1. CASE EditConfig
  <2>1. /\ config' \in Configs
        /\ UNCHANGED <<autostart, compose, container, record, registry, local, mgr, torn>>
    BY <1>1 DEF EditConfig, world
  <2>2. config' \in ManagedConfig /\ config' # NoConfig BY <2>1, Managed
  <2>3. LinuxType' BY <2>1, <2>2 DEF LinuxInv, LinuxType
  <2>4. MgrInv' BY <2>1 DEF LinuxInv, MgrInv
  <2>5. ApplyInv' BY <2>1, <2>2 DEF LinuxInv, ApplyInv
  <2>6. PolicyInv' BY <2>1 DEF LinuxInv, PolicyInv
  <2>7. VersionInv' BY <2>1 DEF LinuxInv, VersionInv
  <2>8. QED BY <2>3, <2>4, <2>5, <2>6, <2>7 DEF LinuxInv
<1>2. CASE Push
  <2>1. PICK i \in Images : registry' = [registry EXCEPT ![i] = @ + 1] BY <1>2 DEF Push
  <2>2. UNCHANGED <<config, autostart, compose, container, record, local, mgr, torn>>
    BY <1>2 DEF Push, files
  <2>3. local \in [Images -> Nat] /\ registry \in [Images -> Nat] BY DEF LinuxInv, LinuxType
  <2>4. registry' \in [Images -> Nat] /\ \A j \in Images : registry[j] <= registry'[j]
    BY <2>1, <2>3
  <2>5. LinuxType' BY <2>2, <2>4 DEF LinuxInv, LinuxType
  <2>6. MgrInv' BY <2>2 DEF LinuxInv, MgrInv
  <2>7. ApplyInv' BY <2>2 DEF LinuxInv, ApplyInv
  <2>8. PolicyInv' BY <2>2 DEF LinuxInv, PolicyInv
  <2>9. \A j \in Images : local[j] <= registry'[j]
    BY <2>3, <2>4 DEF LinuxInv, VersionInv
  <2>10. VersionInv' BY <2>2, <2>9 DEF LinuxInv, VersionInv
  <2>11. QED BY <2>5, <2>6, <2>7, <2>8, <2>10 DEF LinuxInv
<1>3. CASE Reboot
  <2>1. /\ mgr.op = "idle" /\ container.up /\ container' = [container EXCEPT !.up = container.restart]
        /\ UNCHANGED <<config, autostart, compose, record, registry, local, mgr, torn>>
    BY <1>3 DEF Reboot, Resting, files, world
  <2>2. NoContainer.up = FALSE BY DEF NoContainer
  <2>3. container \in ContainerRecord BY <2>1, <2>2 DEF LinuxInv, LinuxType
  <2>4. container.restart \in BOOLEAN BY <2>3, ContainerFacts
  <2>5. QED BY <2>1, <2>3, <2>4, ContainerMoves
<1>4. QED BY <1>1, <1>2, <1>3

\* Every step of the manager and of the world around it keeps the invariant.
LEMMA LinuxInvNext ==
  ASSUME LinuxInv, Next
  PROVE  LinuxInv'
<1>1. CASE preflightLegacy
  <2>1. /\ mgr.pc = "preflight" /\ mgr.op # "idle"
        /\ Return("failed") \/ Goto("up")
        /\ UNCHANGED <<config, autostart, compose, container, record, registry, local, torn>>
    BY <1>1 DEF preflightLegacy, At, files
  <2>2. CASE Return("failed") BY <2>1, <2>2, EndsWell DEF RestPcs
  <2>3. CASE Goto("up") BY <2>1, <2>3, MovesWell
  <2>4. QED BY <2>1, <2>2, <2>3
<1>2. QED
  BY <1>1, CallsKeep, LoadKeeps, WriteKeeps, UpKeeps, RecordKeeps, StopKeeps, AutostartKeeps,
     UpgradeKeeps, FailuresKeep, WorldKeeps, Zenon DEF Next

-----------------------------------------------------------------------------
(* Both platforms                                                          *)

\* On Linux nothing of the macOS side ever moves, and the other way round.
HostInv ==
    \/ /\ platform = "linux" /\ LinuxInv
       /\ LeaseInv /\ binary = 1 /\ up = Mac!NoUpgrade
    \/ /\ platform = "darwin" /\ MacInv
       /\ container = NoContainer /\ record = NoRecord /\ config = NoConfig

\* The initial states of a Linux host.
LEMMA LinuxInit == ASSUME Init PROVE LinuxInv
<1>1. config \in {NoConfig} \cup ManagedConfig BY Managed DEF Init
<1>2. mgr \in MgrRecord /\ mgr.op = "idle" /\ mgr.pc = "idle"
  BY DEF Init, Idle, MgrRecord, MgrCfg, RestPcs
<1>3. container \notin ContainerRecord BY ContainerFacts DEF Init
<1>4. record \notin AppliedRecord
  <2>1. "digest" \notin DOMAIN NoRecord BY DEF NoRecord
  <2>2. \A r \in AppliedRecord : "digest" \in DOMAIN r BY DEF AppliedRecord
  <2>3. QED BY <2>1, <2>2 DEF Init
<1>5. LinuxType BY <1>1, <1>2 DEF Init, LinuxType
<1>6. MgrInv BY <1>2 DEF MgrInv, RestPcs, CfgPcs
<1>7. ApplyInv BY <1>2 DEF ApplyInv
<1>8. PolicyInv BY <1>3 DEF PolicyInv
<1>9. VersionInv BY <1>3, <1>4 DEF Init, VersionInv
<1>10. QED BY <1>5, <1>6, <1>7, <1>8, <1>9 DEF LinuxInv

\* The initial states of a macOS host.
LEMMA MacInit == ASSUME Mac!HostInit PROVE MacInv
<1>1. LeaseInv
  BY DEF LeaseInv, ProcRecord, Mac!HostInit, Mac!Lease!Init, Mac!Lease!Off, Mac!Lease!NotFound, Mac!Procs
<1>2. AgentInv
  BY DEF AgentInv, MacMgr, MacRest, Mac!HostInit, Mac!Init, Mac!Idle
<1>3. UpgradeInv
  <2>1. up \in UpRecord /\ up.pc = "none" /\ up.answer = {}
    BY DEF UpRecord, Mac!HostInit, Mac!NoUpgrade, Mac!Broken
  <2>2. binary = 1 /\ latest = 1 /\ ~AgentAlive
    BY DEF AgentAlive, Mac!HostInit, Mac!Lease!Init, Mac!Lease!Off, Mac!Procs
  <2>3. QED BY <2>1, <2>2 DEF UpgradeInv
<1>4. QED BY <1>1, <1>2, <1>3 DEF MacInv

\* The initial states of either.
LEMMA HostInvInit == ASSUME HostInit PROVE HostInv
<1>1. CASE platform = "linux" /\ Init /\ Mac!Lease!Init /\ binary = 1 /\ up = Mac!NoUpgrade
  <2>1. LeaseInv
    BY <1>1 DEF LeaseInv, ProcRecord, Mac!Lease!Init, Mac!Lease!Off, Mac!Lease!NotFound, Mac!Procs
  <2>2. QED BY <1>1, <2>1, LinuxInit DEF HostInv
<1>2. CASE platform = "darwin" /\ Mac!HostInit /\ container = NoContainer /\ record = NoRecord
           /\ config = NoConfig
  BY <1>2, MacInit DEF HostInv
<1>3. QED BY <1>1, <1>2 DEF HostInit

\* Every step of either platform keeps the invariant.
LEMMA HostInvNext == ASSUME HostInv, [HostNext]_hostVars PROVE HostInv'
<1>0. ASSUME UNCHANGED <<config, autostart, compose, container, record, registry, local, mgr, torn>>,
             LinuxInv
      PROVE  LinuxInv'
  <2>1. LinuxType' BY <1>0 DEF LinuxInv, LinuxType
  <2>2. MgrInv' BY <1>0 DEF LinuxInv, MgrInv
  <2>3. ApplyInv' BY <1>0 DEF LinuxInv, ApplyInv
  <2>4. PolicyInv' BY <1>0 DEF LinuxInv, PolicyInv
  <2>5. VersionInv' BY <1>0 DEF LinuxInv, VersionInv
  <2>6. QED BY <2>1, <2>2, <2>3, <2>4, <2>5 DEF LinuxInv
<1>1. ASSUME UNCHANGED <<lock, meta, proc, tokens>>, LeaseInv PROVE LeaseInv'
  BY <1>1 DEF LeaseInv
<1>2. CASE platform = "linux"
  <2>1. LinuxInv /\ LeaseInv /\ binary = 1 /\ up = Mac!NoUpgrade BY <1>2 DEF HostInv
  <2>2. platform' = "linux" /\ UNCHANGED macOnly
    BY <1>2 DEF HostNext, hostVars
  <2>3. LeaseInv' /\ binary' = 1 /\ up' = Mac!NoUpgrade BY <1>1, <2>1, <2>2 DEF macOnly
  <2>4. CASE Next BY <2>1, <2>2, <2>3, <2>4, LinuxInvNext DEF HostInv
  <2>5. CASE UNCHANGED vars
    <3>1. UNCHANGED <<config, autostart, compose, container, record, registry, local, mgr, torn>>
      BY <2>5 DEF vars
    <3>2. QED BY <1>0, <2>1, <2>2, <2>3, <3>1 DEF HostInv
  <2>6. QED BY <1>2, <2>4, <2>5 DEF HostNext, hostVars
<1>3. CASE platform = "darwin"
  <2>1. MacInv /\ container = NoContainer /\ record = NoRecord /\ config = NoConfig
    BY <1>3 DEF HostInv
  <2>2. /\ platform' = "darwin" /\ UNCHANGED <<container, record, config>>
    BY <1>3 DEF HostNext, hostVars, vars, linuxOnly
  <2>3. CASE Mac!HostNext BY <2>1, <2>2, <2>3, MacInvNext DEF HostInv
  <2>4. CASE UNCHANGED hostVars
    <3>1. UNCHANGED Mac!vars BY <2>4 DEF hostVars, macOnly, vars, Mac!vars, Mac!agent, Mac!lease
    <3>2. QED BY <2>1, <2>2, <3>1, MacInvNext DEF HostInv
  <2>5. QED BY <1>3, <2>3, <2>4 DEF HostNext
<1>4. QED BY <1>2, <1>3 DEF HostInv

\* The invariant of both platforms.
THEOREM HostInvariant == HostSpec => []HostInv
<1>1. HostInit => HostInv BY HostInvInit
<1>2. HostInv /\ [HostNext]_hostVars => HostInv' BY HostInvNext
<1>3. QED BY <1>1, <1>2, PTL DEF HostSpec

\* Nothing runs in Docker on macOS.
LEMMA RunsOnLinux ==
  ASSUME HostInv, container.up
  PROVE  LinuxInv /\ container \in ContainerRecord
<1>1. NoContainer.up = FALSE BY DEF NoContainer
<1>2. LinuxInv BY <1>1 DEF HostInv
<1>3. QED BY <1>1, <1>2 DEF LinuxInv, LinuxType

\* While Status asks for no restart, the running container has everything the
\* saved configuration asks of a service by the answers for names that it was
\* applied with, but for the Android mount after the emulator or the last ADB
\* device was removed (docker.go, Status and the compatibility test of
\* service_fingerprint.go).
THEOREM Compatible == HostSpec => []CompatibleIsSufficient
<1>1. HostInv => CompatibleIsSufficient
  <2>1. SUFFICES ASSUME HostInv, container.up, config # NoConfig, ~ServiceRestartRequired,
                        NEW here \in SUBSET LocalNames
                 PROVE  /\ Provides(container.spec, Wanted(here))
                        /\ \/ MountsEqual(container.spec, Wanted(here))
                           \/ AndroidInExcess(container.spec, Wanted(here))
    BY DEF CompatibleIsSufficient
  <2> DEFINE want == Wanted(here)
  <2>2. LinuxInv /\ container \in ContainerRecord BY <2>1, RunsOnLinux
  <2>3. container.spec \in Specs BY <2>2, ContainerFacts
  <2>4. PICK d \in ManagedConfig, b \in BOOLEAN, a \in BOOLEAN, h \in SUBSET Names :
            container.spec = Rendered(d, b, a, h)
    BY <2>3 DEF Specs
  <2>5. config \in ManagedConfig /\ autostart \in BOOLEAN BY <2>1, <2>2 DEF LinuxInv, LinuxType
  <2>6. ServiceConfigCompatibleWithFingerprint(config, container.spec)
    BY <2>1 DEF ServiceRestartRequired
  <2>7. want = Built(config, FALSE, autostart, AnswersFor(config, container.spec, here))
    BY DEF Wanted, Built
  <2>8. /\ Provides(container.spec, want)
        /\ MountsEqual(container.spec, want) \/ AndroidInExcess(container.spec, want)
    <3> HIDE DEF want
    <3>1. ServiceConfigCompatibleWithFingerprint(config, Rendered(d, b, a, h)) BY <2>4, <2>6, Zenon
    <3>2. want = Built(config, FALSE, autostart, AnswersFor(config, Rendered(d, b, a, h), here))
      BY <2>4, <2>7, Zenon
    <3> DEFINE s == Rendered(d, b, a, h)
               w == Built(config, FALSE, autostart, AnswersFor(config, s, here))
    <3>3. Provides(s, w) /\ (MountsEqual(s, w) \/ AndroidInExcess(s, w))
      BY <2>5, <3>1, CompatibleServes, Zenon
    <3> HIDE DEF s, w
    <3>4. container.spec = s /\ want = w BY <2>4, <3>2, Zenon DEF s, w
    <3>5. QED BY <3>3, <3>4, Zenon
  <2>9. QED BY <2>8
<1>2. QED BY <1>1, HostInvariant, PTL

\* At rest the next boot or login does what the autostart setting says, unless
\* a change of it was cut short or an upgrade made the container.
THEOREM AutostartKept == HostSpec => []AutostartIsKept
<1>1. HostInv => AutostartIsKept
  <2>1. SUFFICES ASSUME HostInv PROVE AutostartIsKept OBVIOUS
  <2>2. CASE platform = "linux"
    <3>1. LinuxInv BY <2>1, <2>2 DEF HostInv
    <3>2. mgr.op = "idle" => mgr.pc # "update" BY <3>1 DEF LinuxInv, MgrInv, RestPcs
    <3>3. BootFollowsSetting
      BY <3>1, <3>2 DEF BootFollowsSetting, Resting, LinuxInv, LinuxType, PolicyInv
    <3>4. QED BY <2>2, <3>3 DEF AutostartIsKept
  <2>3. CASE platform = "darwin"
    <3>1. MacInv BY <2>1, <2>3 DEF HostInv
    <3>2. Mac!LoginFollowsSetting
      BY <3>1 DEF MacInv, AgentInv, MacRest, Mac!LoginFollowsSetting, Mac!Resting
    <3>3. QED BY <2>3, <3>2 DEF AutostartIsKept
  <2>4. QED BY <2>1, <2>2, <2>3 DEF HostInv
<1>2. QED BY <1>1, HostInvariant, PTL

\* When the update check finds nothing newer for the container's tag, the
\* container runs the newest image.
THEOREM CurrentImage == HostSpec => []CurrentIsCurrent
<1>1. HostInv => CurrentIsCurrent
  <2>1. SUFFICES ASSUME HostInv, container.up, ImageIsCurrent, record.image = container.spec.image
                 PROVE  container.digest = record.digest
    BY DEF CurrentIsCurrent
  <2>2. LinuxInv /\ container \in ContainerRecord BY <2>1, RunsOnLinux
  <2>3. record \in AppliedRecord BY <2>1, <2>2 DEF ImageIsCurrent, LinuxInv, LinuxType
  <2>4. record.image \in Images BY <2>3 DEF AppliedRecord
  <2>5. record.digest = <<record.image, registry[record.image]>> BY <2>1 DEF ImageIsCurrent
  <2>6. container.digest \in Images \X Nat BY <2>2, ContainerFacts
  <2>7. local[record.image] \in Nat /\ registry[record.image] \in Nat
    BY <2>2, <2>4 DEF LinuxInv, LinuxType
  <2>8. container.digest[1] = record.image BY <2>1, <2>2 DEF LinuxInv, VersionInv
  <2>9. /\ container.digest[2] <= local[record.image]
        /\ local[record.image] <= registry[record.image]
        /\ registry[record.image] <= container.digest[2]
    BY <2>2, <2>3, <2>4, <2>5, <2>8 DEF LinuxInv, VersionInv
  <2>10. container.digest[2] = registry[record.image] BY <2>6, <2>7, <2>9
  <2>11. QED BY <2>5, <2>6, <2>8, <2>10
<1>2. QED BY <1>1, HostInvariant, PTL

\* The label of a service does not depend on the restart policy.
LEMMA SameFingerprint ==
  ASSUME NEW c, NEW b \in BOOLEAN, NEW a \in BOOLEAN, NEW e \in BOOLEAN, NEW M
  PROVE  Fingerprint(Built(c, b, a, M)) = Fingerprint(Built(c, b, e, M))
<1> DEFINE s == Built(c, b, a, M)
           networks == s.networks
           ports == s.ports
           devices == s.devices
           mount == s.androidMount
           extra == s.extraHosts
           adb == s.adbSocket
           applied == s.applied
           caps == s.caps
           Of(x) == [image |-> s.image, restart |-> x, mode |-> s.mode, networks |-> networks,
                     ports |-> ports, devices |-> devices, knownHosts |-> s.knownHosts,
                     androidMount |-> mount, extraHosts |-> extra, adbSocket |-> adb,
                     applied |-> applied, caps |-> caps, locality |-> s.locality]
<1>1. s = Of(a) /\ Built(c, b, e, M) = Of(e) BY DEF Built, BuildServiceSpecWithAutostart
<1> HIDE DEF s, networks, ports, devices, mount, extra, adb, applied, caps
<1>2. [Of(a) EXCEPT !.restart = FALSE, !.locality = <<>>] =
         [Of(e) EXCEPT !.restart = FALSE, !.locality = <<>>]
  <2> DEFINE Off(x) == [Of(x) EXCEPT !.restart = FALSE]
  <2>1. DOMAIN Of(a) = DOMAIN Of(e) /\ "restart" \in DOMAIN Of(a) OBVIOUS
  <2>2. \A y \in DOMAIN Of(a) : y # "restart" => Of(a)[y] = Of(e)[y] OBVIOUS
  <2>3. ASSUME NEW x
        PROVE  [Of(x) EXCEPT !.restart = FALSE, !.locality = <<>>] = [Off(x) EXCEPT !.locality = <<>>]
    OBVIOUS
  <2> HIDE DEF Of
  <2>4. ASSUME NEW x
        PROVE  Off(x) = [y \in DOMAIN Of(x) |-> IF y = "restart" THEN FALSE ELSE Of(x)[y]]
    OBVIOUS
  <2>5. Off(a) = Off(e) BY <2>1, <2>2, <2>4
  <2> HIDE DEF Off
  <2>6. QED BY <2>3, <2>5
<1>3. QED BY <1>1, <1>2 DEF Fingerprint, s

\* A restart bound to a snapshot applies that snapshot, whatever config.toml
\* says by the time it records its image.
THEOREM SnapshotApplied == HostSpec => []SnapshotIsApplied
<1>1. HostInv => SnapshotIsApplied
  <2>1. SUFFICES ASSUME HostInv, mgr.op = "apply", mgr.pc = "record"
                 PROVE  ServiceMatchesConfig(mgr.cfg, container.spec.locality)
    BY DEF SnapshotIsApplied, At
  <2>2. LinuxInv BY <2>1 DEF HostInv, MacInv, AgentInv, MacMgr
  <2>3. /\ config # NoConfig /\ container.up
        /\ ServiceFor(container.spec, mgr.cfg)
    BY <2>1, <2>2 DEF LinuxInv, ApplyInv
  <2>4. Fingerprint(container.spec) = Fingerprint(Built(mgr.cfg, FALSE, FALSE, container.spec.locality))
    <3>1. PICK a \in BOOLEAN, h \in SUBSET Names : container.spec = Rendered(mgr.cfg, FALSE, a, h)
      BY <2>3 DEF ServiceFor
    <3>2. container.spec.locality = ResolveServiceHostContext(mgr.cfg, h)
      BY <3>1 DEF Rendered, Built, BuildServiceSpecWithAutostart
    <3> DEFINE M == container.spec.locality
    <3>3. container.spec = Built(mgr.cfg, FALSE, a, M) BY <3>1, <3>2 DEF Rendered
    <3> HIDE DEF M
    <3>4. Fingerprint(Built(mgr.cfg, FALSE, a, M)) = Fingerprint(Built(mgr.cfg, FALSE, FALSE, M))
      BY SameFingerprint, Zenon
    <3>5. QED BY <3>3, <3>4, Zenon DEF M
  <2>5. (config = NoConfig) = FALSE BY <2>3
  <2>6. QED BY <2>3, <2>4, <2>5 DEF ServiceMatchesConfig, Built
<1>2. QED BY <1>1, HostInvariant, PTL

\* upgrade-binary never leaves a broken executable in place.
THEOREM ExecutableWhole == HostSpec => []ExecutableIsWhole
<1>1. HostInv => ExecutableIsWhole
  BY DEF HostInv, MacInv, UpgradeInv, ExecutableIsWhole, Mac!ExecutableIsWhole, Mac!Broken
<1>2. QED BY <1>1, HostInvariant, PTL

\* An upgrade-binary whose restarted agent answered is in service: the agent
\* runs the release it installed.
THEOREM UpgradeServed == HostSpec => []UpgradeIsServed
<1>1. HostInv => UpgradeIsServed
  <2>1. SUFFICES ASSUME HostInv, up.pc = "done", up.answer = {"agent"}, Mac!Lease!Alive("agent")
                 PROVE  proc["agent"].code >= up.installed
    BY DEF UpgradeIsServed, Mac!UpgradeIsServed
  <2>2. Mac!NoUpgrade.pc = "none" BY DEF Mac!NoUpgrade
  <2>3. MacInv BY <2>1, <2>2 DEF HostInv
  <2>4. AgentAlive BY <2>1 DEF AgentAlive, Mac!Lease!Alive
  <2>5. proc["agent"].code = binary /\ up.installed = binary /\ binary \in Nat
    BY <2>1, <2>3, <2>4 DEF MacInv, UpgradeInv, Fresh
  <2>6. QED BY <2>5
<1>2. QED BY <1>1, HostInvariant, PTL

\* Whoever serves can be found by the metadata.
THEOREM ServingFindable == HostSpec => []ServingIsFindable
<1>1. HostInv => ServingIsFindable
  BY DEF HostInv, MacInv, LeaseInv, ServingIsFindable, Mac!ServingIsFindable,
         Mac!Lease!ServingIsFindable
<1>2. QED BY <1>1, HostInvariant, PTL

=============================================================================
