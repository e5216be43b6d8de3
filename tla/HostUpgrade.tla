----------------------------- MODULE HostUpgrade -----------------------------
(***************************************************************************)
(* upgrade-binary on a macOS host (cmd/upgrade.go,                         *)
(* internal/maintenance/upgrade.go): the command remembers which           *)
(* controller serves, downloads and verifies the latest release beside its *)
(* own executable, renames it into place, restarts the agent, and waits    *)
(* for a controller that is not the one it remembers.  The agent is kept   *)
(* alive by launchd, other copies of the application may be started by     *)
(* hand, and releases appear meanwhile.                                    *)
(***************************************************************************)
EXTENDS LaunchAgent, FiniteSets

CONSTANTS MaxTokens,    \* bound on runs of the application
          MaxReleases   \* bound on releases

VARIABLES lock, meta, proc, tokens,  \* the controller lease
          binary,   \* the executable: its release, 0 when it is not whole
          latest,   \* the latest release
          up        \* the upgrade command

lease == <<lock, meta, proc, tokens>>
agent == <<autostart, loaded, persistent, transient, mgr, torn, ops>>
vars == <<agent, lease, binary, latest, up>>

Procs == {"agent", "shell"}

Lease == INSTANCE ControllerLease

Broken == 0
NoUpgrade == [pc |-> "none", wasRunning |-> FALSE, prev |-> 0, tmp |-> Broken,
              sum |-> Broken, installed |-> Broken, answer |-> {}]

HostInit ==
    /\ Init
    /\ Lease!Init
    /\ binary = 1
    /\ latest = 1
    /\ up = NoUpgrade

UpAt(pc) == up.pc = pc /\ UNCHANGED <<agent, lease, latest>>
UpGoto(pc) == up' = [up EXCEPT !.pc = pc]

----------------------------------------------------------------------------
(* runUpgradeBinary.  Status and the verified controller come first: a     *)
(* running agent whose controller does not answer ends the command.        *)
runUpgradeBinary ==
    /\ UpAt("none")
    /\ IF loaded
       THEN /\ Lease!Probe(meta) # {}
            /\ up' = [up EXCEPT !.pc = "download", !.wasRunning = TRUE, !.prev = meta]
       ELSE UpGoto("download")
    /\ UNCHANGED binary

(* DownloadLatestBinary: one release is resolved, and both its assets come *)
(* from it; what arrives may be cut short or damaged.                      *)
DownloadBinary ==
    /\ UpAt("download")
    /\ \E content \in {latest, Broken} :
           up' = [up EXCEPT !.pc = "checksum", !.tmp = content, !.sum = latest]
    /\ UNCHANGED binary

(* Mutant of ChecksumMatches: the download is trusted. *)
ChecksumSkipped == TRUE

(* The checksum entry of the asset against the file that was written. *)
ChecksumMatches == up.tmp = up.sum

VerifyChecksum ==
    /\ UpAt("checksum")
    /\ UpGoto(IF ChecksumMatches THEN "rename" ELSE "failed")
    /\ UNCHANGED binary

Rename ==
    /\ UpAt("rename")
    /\ binary' = up.tmp
    /\ up' = [up EXCEPT !.installed = up.tmp,
                        !.pc = IF up.wasRunning THEN "restart" ELSE "done"]

(* The command calls Restart itself, in its own process. *)
RestartAgent ==
    /\ up.pc = "restart"
    /\ Restart
    /\ UpGoto("restarting")
    /\ UNCHANGED <<lease, binary, latest>>

(* Mutant of RestartReturns: the wait begins even when the restart failed. *)
RestartErrorIgnored ==
    /\ Resting
    /\ UpAt("restarting")
    /\ UpGoto("await")
    /\ UNCHANGED binary

RestartReturns ==
    /\ Resting
    /\ UpAt("restarting")
    /\ UpGoto(IF mgr.pc = "ok" THEN "await" ELSE "failed")
    /\ UNCHANGED binary

(* waitForRunningController: another controller than before, and one that  *)
(* answers under the identity it published.                                *)
waitForRunningController ==
    /\ UpAt("await")
    /\ meta # up.prev
    /\ Lease!Probe(meta) # {}
    /\ up' = [up EXCEPT !.pc = "done", !.answer = Lease!Probe(meta)]
    /\ UNCHANGED binary

(* Any step of the command fails, its wait runs out, or it is killed. *)
UpgradeEnds ==
    /\ up.pc \in {"download", "checksum", "rename", "restart", "await"}
    /\ UpAt(up.pc)
    /\ UpGoto("failed")
    /\ UNCHANGED binary

Upgrade ==
    \/ runUpgradeBinary \/ DownloadBinary \/ VerifyChecksum \/ Rename
    \/ RestartAgent \/ RestartReturns \/ waitForRunningController \/ UpgradeEnds

----------------------------------------------------------------------------
(* The manager's steps: unloading the agent ends its process. *)
EndAgent ==
    IF loaded /\ ~loaded' /\ Lease!Alive("agent")
    THEN Lease!Kill("agent") ELSE UNCHANGED lease

ManagerCalls == up.pc \in {"none", "done", "failed"} /\ Calls /\ UNCHANGED <<lease, binary, latest, up>>
ManagerSteps == Steps /\ EndAgent /\ UNCHANGED <<binary, latest, up>>
LoginAgain == Login /\ EndAgent /\ UNCHANGED <<binary, latest, up>>

(* launchd keeps a loaded agent alive; a shell may start another copy. *)
AgentBoots == loaded /\ Lease!Boot("agent", binary) /\ UNCHANGED <<agent, binary, latest, up>>
ShellBoots == Lease!Boot("shell", binary) /\ UNCHANGED <<agent, binary, latest, up>>
AgentSteps == Lease!Steps("agent") /\ UNCHANGED <<agent, binary, latest, up>>
ShellSteps == Lease!Steps("shell") /\ UNCHANGED <<agent, binary, latest, up>>

Release ==
    /\ latest < MaxReleases
    /\ latest' = latest + 1
    /\ UNCHANGED <<agent, lease, binary, up>>

HostNext ==
    \/ Upgrade
    \/ ManagerCalls \/ ManagerSteps \/ LoginAgain
    \/ AgentBoots \/ ShellBoots \/ AgentSteps \/ ShellSteps
    \/ Release

HostSpec == HostInit /\ [][HostNext]_vars

----------------------------------------------------------------------------
(* The executable is never broken: whatever a download delivers and        *)
(* wherever the upgrade ends, the path holds one whole release.            *)
ExecutableIsWhole == binary # Broken

(* An upgrade that reports success is in service: when the controller it   *)
(* waited for is the agent's, that process still runs the release the      *)
(* command installed, or one installed after it.                           *)
UpgradeIsServed ==
    up.pc = "done" /\ up.answer = {"agent"} /\ Lease!Alive("agent")
        => proc["agent"].code >= up.installed

ServingIsFindable == Lease!ServingIsFindable

=============================================================================
