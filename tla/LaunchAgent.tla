----------------------------- MODULE LaunchAgent -----------------------------
(***************************************************************************)
(* The launchd-backed service manager (internal/servicemanager/            *)
(* launchd_darwin.go).  The autostart setting decides which of two plists  *)
(* exists: the one in LaunchAgents, loaded at every login, or a transient  *)
(* one in the configuration directory.  launchd is external: bootstrap     *)
(* loads the agent, bootout unloads it and ends its process, and a loaded  *)
(* agent is kept alive.                                                    *)
(***************************************************************************)
EXTENDS Naturals

CONSTANT MaxOps   \* bound on operations of the manager

VARIABLES autostart,   \* service-settings.json
          loaded,      \* is the agent loaded
          persistent,  \* does the plist in LaunchAgents exist
          transient,   \* does the plist in the configuration directory exist
          mgr,         \* the manager process
          torn,        \* history: an autostart change was cut short
          ops          \* operations so far

plists == <<persistent, transient>>

Idle == [op |-> "idle", pc |-> "ok", prev |-> FALSE]

Init ==
    /\ autostart = FALSE
    /\ loaded = FALSE
    /\ persistent = FALSE
    /\ transient = FALSE
    /\ mgr = Idle
    /\ torn = FALSE
    /\ ops = 0

Resting == mgr.op = "idle"
At(op, pc) == mgr.op \in op /\ mgr.pc = pc
Goto(pc) == mgr' = [mgr EXCEPT !.pc = pc]
Return(result) == mgr' = [Idle EXCEPT !.pc = result]

Invoke(op, pc) ==
    /\ Resting
    /\ ops < MaxOps
    /\ ops' = ops + 1
    /\ mgr' = [op |-> op, pc |-> pc, prev |-> autostart]
    /\ UNCHANGED <<autostart, loaded, plists, torn>>

Start == Invoke("start", "plists")
Stop == Invoke("stop", "bootout")
Restart == Invoke("restart", "bootout")
Enable == Invoke("enable", "save")
Disable == Invoke("disable", "save")

(* Start puts the plists in order first.  An agent that is loaded already  *)
(* needs no more.                                                          *)
StartPlists ==
    /\ At({"start", "restart"}, "plists")
    /\ persistent' = autostart
    /\ transient' = (IF autostart THEN transient ELSE ~loaded)
    /\ torn' = FALSE
    /\ IF loaded THEN Return("ok") ELSE Goto("bootstrap")
    /\ UNCHANGED <<autostart, loaded, ops>>

Bootstrap ==
    /\ At({"start", "restart"}, "bootstrap")
    /\ loaded' = TRUE
    /\ Goto("kickstart")
    /\ UNCHANGED <<autostart, plists, torn, ops>>

(* An agent that cannot be kicked stays loaded. *)
Kickstart ==
    /\ At({"start", "restart"}, "kickstart")
    /\ Return("ok")
    /\ UNCHANGED <<autostart, loaded, plists, torn, ops>>

(* bootout of an agent that is not loaded is no error. *)
Bootout ==
    /\ At({"stop", "restart"}, "bootout")
    /\ loaded' = FALSE
    /\ Goto("clean")
    /\ UNCHANGED <<autostart, plists, torn, ops>>

RemovePlists ==
    /\ At({"stop", "restart"}, "clean")
    /\ IF autostart THEN UNCHANGED plists
       ELSE persistent' = FALSE /\ transient' = FALSE
    /\ torn' = (torn /\ autostart)
    /\ IF mgr.op = "stop" THEN Return("ok") ELSE Goto("plists")
    /\ UNCHANGED <<autostart, loaded, ops>>

(* Enable and Disable save the setting, then write or remove the plist,    *)
(* and put the setting back when that fails.                               *)
SaveAutostart ==
    /\ At({"enable", "disable"}, "save")
    /\ autostart' = (mgr.op = "enable")
    /\ Goto("plist")
    /\ UNCHANGED <<loaded, plists, torn, ops>>

ChangePlist ==
    /\ At({"enable", "disable"}, "plist")
    /\ persistent' = autostart
    /\ torn' = FALSE
    /\ Goto("transient")
    /\ UNCHANGED <<autostart, loaded, transient, ops>>

(* Mutant of restorePrevious: a plist that cannot be written leaves the new setting in place. *)
restoreNothing == UNCHANGED autostart

restorePrevious == autostart' = mgr.prev

PlistFails ==
    /\ At({"enable", "disable"}, "plist")
    /\ \/ restorePrevious /\ UNCHANGED torn
       \/ UNCHANGED autostart /\ torn' = TRUE
    /\ Return("failed")
    /\ UNCHANGED <<loaded, plists, ops>>

RemoveTransient ==
    /\ At({"enable", "disable"}, "transient")
    /\ transient' = FALSE
    /\ Return("ok")
    /\ UNCHANGED <<autostart, loaded, persistent, torn, ops>>

(* Any step may fail, and the process may be killed. *)
Fails ==
    /\ mgr.pc \in {"plists", "bootstrap", "kickstart", "bootout", "clean", "save", "transient"}
    /\ Return("failed")
    /\ UNCHANGED <<autostart, loaded, plists, torn, ops>>

Crash ==
    /\ ~Resting
    /\ torn' = (torn \/ mgr.pc = "plist")
    /\ Return("killed")
    /\ UNCHANGED <<autostart, loaded, plists, ops>>

(* The user logs in again: launchd loads what LaunchAgents holds. *)
Login ==
    /\ Resting
    /\ loaded' = persistent
    /\ UNCHANGED <<autostart, plists, mgr, torn, ops>>

Calls == Start \/ Stop \/ Restart \/ Enable \/ Disable

Steps ==
    \/ StartPlists \/ Bootstrap \/ Kickstart \/ Bootout \/ RemovePlists
    \/ SaveAutostart \/ ChangePlist \/ PlistFails \/ RemoveTransient
    \/ Fails \/ Crash

----------------------------------------------------------------------------
(* The autostart setting is what the next login will do: at rest the agent *)
(* is in LaunchAgents exactly when the setting says so, unless an          *)
(* autostart change was itself cut short.                                  *)
LoginFollowsSetting == Resting /\ ~torn => persistent = autostart

=============================================================================
