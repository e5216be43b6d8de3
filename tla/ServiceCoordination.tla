------------------------- MODULE ServiceCoordination -------------------------
(***************************************************************************)
(* internal/servicecoordination, cmd/runner.go and the dashboard's side of   *)
(* it: host commands (`credimi-runner`) that are attached to the service     *)
(* compete for a lock file, the winner publishes its presence and replaces   *)
(* the service when the dashboard asks for it.  Everything goes through      *)
(* files of the configuration directory: the lock and the presence, both of  *)
(* which count as stale 15 seconds after their last refresh, config.toml,    *)
(* the restart request and the restart result.                               *)
(*                                                                          *)
(* A check (of one or two files) and an atomic write of a file are one step  *)
(* each.  Time is reduced to whether a file is fresh.  Configurations with   *)
(* the same fingerprint need no restart of the service.  An error that ends  *)
(* a command before it has changed a file is a Crash.  Commands that stop or *)
(* upgrade the service behind the coordinator's back are not modelled.       *)
(***************************************************************************)
EXTENDS Naturals

CONSTANTS
    Cmd,         \* host commands, each of which is run once
    Config,      \* configurations the dashboard may save
    Fingerprint, \* ServiceConfigFingerprintForHost of each configuration
    MaxRequests, \* bound: restart requests written
    Timely       \* a live command refreshes its files before they get stale

ASSUME CoordinationAssumption ==
    /\ "none" \notin Cmd /\ "gone" \notin Cmd /\ "none" \notin Config
    /\ Fingerprint \in [Config -> Nat \ {0}]
    /\ MaxRequests \in Nat
    /\ Timely \in BOOLEAN

VARIABLES
    \* service-coordinator.lock: who created it ("none": no file, "gone": a
    \* command that died before), whether the nonce has been written, whether
    \* it is at most 15 seconds old
    lock, nonce, lockFresh,
    \* service-coordinator.json: whose nonce it holds, and its age
    presence, presenceFresh,
    \* config.toml, the configuration the service runs with ("none": not
    \* running), and what the dashboard in it is doing
    config, service, dash,
    \* service-restart-request.json and service-restart-result.json
    request, result,
    \* commands: next step, attempt at the lock, heartbeat goroutine, the request
    \* and the configuration being applied, and the answer to be written
    pc, attempt, beat, handled, loaded, answer,
    \* the lock whose age a command has found to be stale, and whether a command
    \* has ever removed another lock than the one it had found stale
    seen, raced

lockVars == <<lock, nonce, lockFresh>>
presenceVars == <<presence, presenceFresh>>
serviceVars == <<config, service, dash>>
applyVars == <<handled, loaded, answer>>
raceVars == <<seen, raced>>
vars == <<lockVars, presenceVars, serviceVars, request, result, pc, attempt, beat,
          applyVars, raceVars>>

NoRequest == [id |-> 0, digest |-> "none", force |-> FALSE]
NoResult == [id |-> 0, success |-> FALSE, applied |-> 0]
NoAnswer == [result |-> NoResult, next |-> "none"]
Applying == {"load", "match", "restart", "start", "await", "verify", "answer"}
Attached == {"launch", "follow", "read"} \cup Applying
Leaving == {"leave", "unpublish", "release", "unlock"}
Acquiring == {"create", "write", "inspect", "stat", "remove", "publish"}
Alive(c) == c \in Cmd /\ pc[c] \in Acquiring \cup Attached \cup Leaving

\* A command that died before may have left its lock and its presence.
Init ==
    /\ lock \in {"none", "gone"} /\ nonce = (lock = "gone") /\ lockFresh = (lock = "gone")
    /\ presence \in {"none", "gone"} /\ presenceFresh = (presence = "gone")
    /\ config \in Config /\ service \in Config \cup {"none"} /\ dash = "idle"
    /\ request = NoRequest /\ result = NoResult
    /\ pc = [c \in Cmd |-> "off"] /\ attempt = [c \in Cmd |-> 0]
    /\ beat = [c \in Cmd |-> "off"]
    /\ handled = [c \in Cmd |-> NoRequest] /\ loaded = [c \in Cmd |-> "none"]
    /\ answer = [c \in Cmd |-> NoAnswer]
    /\ seen = [c \in Cmd |-> "none"] /\ raced = FALSE

Goto(c, step) == pc' = [pc EXCEPT ![c] = step]

-----------------------------------------------------------------------------
(* acquireCoordinator                                                      *)

acquireFrame == <<presenceVars, serviceVars, request, result, beat, applyVars>>

StartPresence(c) ==
    /\ pc[c] = "off" /\ Goto(c, "create")
    /\ UNCHANGED <<lockVars, presenceVars, serviceVars, request, result, attempt, beat,
                   applyVars, raceVars>>

\* A second failed attempt ends in the conflict error.
Retry(c) ==
    /\ attempt' = [attempt EXCEPT ![c] = @ + 1]
    /\ Goto(c, IF attempt'[c] < 2 THEN "create" ELSE "exited")

\* O_CREATE|O_EXCL
Create(c) ==
    /\ pc[c] = "create"
    /\ IF lock = "none"
       THEN /\ lock' = c /\ nonce' = FALSE /\ lockFresh' = TRUE /\ Goto(c, "write")
            /\ attempt' = [attempt EXCEPT ![c] = 0]
       ELSE UNCHANGED <<lockVars, attempt>> /\ Goto(c, "inspect")
    /\ UNCHANGED <<acquireFrame, raceVars>>

\* The nonce goes to the file that was opened, which may be unlinked by now;
\* when the write fails, whatever has the name is removed.
WriteNonce(c) ==
    /\ pc[c] = "write"
    /\ \/ /\ nonce' = (nonce \/ lock = c)
          /\ Goto(c, "publish") /\ UNCHANGED <<lock, lockFresh>>
       \/ /\ lock' = "none" /\ nonce' = FALSE /\ lockFresh' = FALSE
          /\ Goto(c, "exited")
    /\ UNCHANGED <<acquireFrame, attempt, raceVars>>

\* CoordinatorActive
CoordinatorActive == presence # "none" /\ presenceFresh

Inspect(c) ==
    /\ pc[c] = "inspect"
    /\ Goto(c, IF CoordinatorActive THEN "exited" ELSE "stat")
    /\ UNCHANGED <<acquireFrame, lockVars, attempt, raceVars>>

\* Mutant of Reclaimable: the age of the lock is not looked at.
ReclaimableAlways == lock # "none"

\* The lock may be reclaimed.
Reclaimable == lock # "none" /\ ~lockFresh

RemoveLock == lock' = "none" /\ nonce' = FALSE /\ lockFresh' = FALSE

Stat(c) ==
    /\ pc[c] = "stat"
    /\ \/ lock = "none" /\ Retry(c) /\ UNCHANGED seen
       \/ lock # "none" /\ ~Reclaimable /\ Goto(c, "exited") /\ UNCHANGED <<attempt, seen>>
       \/ /\ Reclaimable /\ Goto(c, "remove")
          /\ seen' = [seen EXCEPT ![c] = lock] /\ UNCHANGED attempt
    /\ UNCHANGED <<acquireFrame, lockVars, raced>>

\* os.Remove of the name: by now it may be the lock of somebody else.
Remove(c) ==
    /\ pc[c] = "remove"
    /\ RemoveLock /\ Retry(c)
    /\ raced' = (raced \/ lock \notin {"none", seen[c]})
    /\ seen' = [seen EXCEPT ![c] = "none"]
    /\ UNCHANGED acquireFrame

\* writePresence, after which the heartbeat goroutine runs.
Publish(c) ==
    /\ pc[c] = "publish"
    /\ \/ /\ presence' = c /\ presenceFresh' = TRUE
          /\ beat' = [beat EXCEPT ![c] = "on"] /\ Goto(c, "launch")
       \/ Goto(c, "release") /\ UNCHANGED <<presenceVars, beat>>
    /\ UNCHANGED <<lockVars, serviceVars, request, result, attempt, applyVars, raceVars>>

-----------------------------------------------------------------------------
(* Ownership, heartbeat and cleanup                                        *)

\* ownsCoordinator(nonce)
OwnsLock(c) == lock = c /\ nonce

\* CoordinatorOwned
CoordinatorOwned(c) == presence = c /\ OwnsLock(c)

beatFrame == <<serviceVars, request, result, pc, attempt, applyVars, raceVars>>

\* refreshCoordinator: touch the lock if it is ours, then rewrite the presence.
Touch(c) ==
    /\ beat[c] = "on" /\ OwnsLock(c)
    /\ lockFresh' = TRUE
    /\ beat' = [beat EXCEPT ![c] = "write"]
    /\ UNCHANGED <<beatFrame, lock, nonce, presenceVars>>

Refresh(c) ==
    /\ beat[c] = "write"
    /\ presence' = c /\ presenceFresh' = TRUE
    /\ beat' = [beat EXCEPT ![c] = "on"]
    /\ UNCHANGED <<beatFrame, lockVars>>

leaveFrame == <<serviceVars, request, result, attempt, applyVars, raceVars>>

\* cleanup: stop the heartbeat goroutine and wait for it,
Leave(c) ==
    /\ pc[c] = "leave" /\ beat[c] = "on"
    /\ beat' = [beat EXCEPT ![c] = "off"]
    /\ Goto(c, IF CoordinatorOwned(c) THEN "unpublish" ELSE "release")
    /\ UNCHANGED <<leaveFrame, lockVars, presenceVars>>

\* remove the presence that was seen to be ours,
Unpublish(c) ==
    /\ pc[c] = "unpublish"
    /\ presence' = "none" /\ presenceFresh' = FALSE
    /\ Goto(c, "release")
    /\ UNCHANGED <<leaveFrame, beat, lockVars>>

\* and release the lock: a check, then the removal.
Release(c) ==
    /\ pc[c] = "release"
    /\ Goto(c, IF OwnsLock(c) THEN "unlock" ELSE "exited")
    /\ UNCHANGED <<leaveFrame, beat, lockVars, presenceVars>>

Unlock(c) ==
    /\ pc[c] = "unlock"
    /\ RemoveLock /\ Goto(c, "exited")
    /\ UNCHANGED <<leaveFrame, beat, presenceVars>>

-----------------------------------------------------------------------------
(* runRoot, followAttachedService, applyServiceRestartRequest              *)

followFrame == <<lockVars, presenceVars, attempt, beat, raceVars>>

\* A service that is not running is started; then the dashboard is awaited.
Launch(c) ==
    /\ pc[c] = "launch"
    /\ \/ /\ service' = IF service = "none" THEN config ELSE service
          /\ Goto(c, "follow")
       \/ /\ service' \in {service, IF service = "none" THEN config ELSE service}
          /\ Goto(c, "leave")
    /\ UNCHANGED <<followFrame, config, dash, request, result, applyVars>>

\* Every tick starts with a check of the ownership.  Ctrl+C ends the command;
\* while a request is applied, the step it is in fails.
Follow(c) ==
    /\ pc[c] = "follow"
    /\ Goto(c, IF CoordinatorOwned(c) THEN "read" ELSE "leave")
    /\ UNCHANGED <<followFrame, serviceVars, request, result, applyVars>>

Interrupt(c) ==
    /\ pc[c] = "follow" /\ Goto(c, "leave")
    /\ UNCHANGED <<followFrame, serviceVars, request, result, applyVars>>

\* Mutant of Pending: any result is taken for an answer.
PendingFirst == request # NoRequest /\ result = NoResult

\* Mutant of Pending: a request that has its result is handled again.
PendingAgain == request # NoRequest

\* There is a request without a result of its own.
Pending == request # NoRequest /\ result.id # request.id

Read(c) ==
    /\ pc[c] = "read"
    /\ IF Pending
       THEN handled' = [handled EXCEPT ![c] = request] /\ Goto(c, "load")
       ELSE UNCHANGED handled /\ Goto(c, "follow")
    /\ UNCHANGED <<followFrame, serviceVars, request, result, loaded, answer>>

\* writeResult is about to write this result, after which the command goes on
\* with "follow" or ends with "leave".
Answer(c, success, next) ==
    /\ answer' = [answer EXCEPT ![c] =
                     [result |-> [id |-> handled[c].id, success |-> success,
                                  applied |-> IF success THEN Fingerprint[loaded[c]] ELSE 0],
                      next |-> next]]
    /\ Goto(c, "answer")

\* The configuration on disk is loaded; a newer one supersedes the request.
LoadSnapshot(c) ==
    /\ pc[c] = "load"
    /\ \/ /\ config = handled[c].digest
          /\ loaded' = [loaded EXCEPT ![c] = config]
          /\ Goto(c, IF handled[c].force THEN "restart" ELSE "match")
          /\ UNCHANGED answer
       \/ /\ Answer(c, FALSE, "follow") \* superseded, or no host context
          /\ UNCHANGED loaded
       \/ /\ Answer(c, FALSE, "leave")  \* unreadable
          /\ UNCHANGED loaded
    /\ UNCHANGED <<followFrame, serviceVars, request, result, handled>>

ServiceMatches(c) == service # "none" /\ Fingerprint[service] = Fingerprint[loaded[c]]

\* A service that already matches is left alone (a failed check is no match).
Match(c) ==
    /\ pc[c] = "match"
    /\ \/ ServiceMatches(c) /\ Answer(c, TRUE, "follow")
       \/ Goto(c, "restart") /\ UNCHANGED answer
    /\ UNCHANGED <<followFrame, serviceVars, request, result, handled, loaded>>

\* RestartWithConfig stops the service, and with it the dashboard whatever it
\* was doing; a stop that fails may have done its work,
RestartWithConfig(c) ==
    /\ pc[c] = "restart"
    /\ \/ service' = "none" /\ Goto(c, "start") /\ UNCHANGED answer
       \/ service' \in {service, "none"} /\ Answer(c, FALSE, "leave")
    /\ dash' = IF service' = service THEN dash ELSE "idle"
    /\ UNCHANGED <<followFrame, config, request, result, handled, loaded>>

\* and starts it with the snapshot; so may a start that fails.
startWithConfig(c) ==
    /\ pc[c] = "start"
    /\ \/ service' = loaded[c] /\ Goto(c, "await") /\ UNCHANGED answer
       \/ service' \in {"none", loaded[c]} /\ Answer(c, FALSE, "leave")
    /\ UNCHANGED <<followFrame, config, dash, request, result, handled, loaded>>

\* The replacement becomes ready, or not in time.
AwaitController(c) ==
    /\ pc[c] = "await"
    /\ \/ Goto(c, "verify") /\ UNCHANGED answer
       \/ Answer(c, FALSE, "leave")
    /\ UNCHANGED <<followFrame, serviceVars, request, result, handled, loaded>>

Verify(c) ==
    /\ pc[c] = "verify"
    /\ \/ ServiceMatches(c) /\ Answer(c, TRUE, "follow")
       \/ Answer(c, FALSE, "leave")
    /\ UNCHANGED <<followFrame, serviceVars, request, result, handled, loaded>>

\* WriteRestartResult; a write that fails ends the command.
WriteResult(c) ==
    /\ pc[c] = "answer"
    /\ \/ result' = answer[c].result /\ Goto(c, answer[c].next)
       \/ UNCHANGED result /\ Goto(c, "leave")
    /\ handled' = [handled EXCEPT ![c] = NoRequest]
    /\ loaded' = [loaded EXCEPT ![c] = "none"]
    /\ answer' = [answer EXCEPT ![c] = NoAnswer]
    /\ UNCHANGED <<followFrame, serviceVars, request>>

-----------------------------------------------------------------------------
(* The dashboard                                                           *)

dashFrame == <<lockVars, presenceVars, result, pc, attempt, beat, applyVars, raceVars,
               service>>

\* A save of the configuration,
SaveConfig(new) ==
    /\ service # "none" /\ dash = "idle" /\ request.id < MaxRequests
    /\ new # config /\ config' = new /\ dash' = "saved"
    /\ UNCHANGED <<dashFrame, request>>

\* followed by the request that names its digest (which may fail).
requestServiceRestart(force) ==
    /\ dash = "saved" /\ dash' = "idle"
    /\ \/ request' = [id |-> request.id + 1, digest |-> config, force |-> force]
       \/ UNCHANGED request
    /\ UNCHANGED <<dashFrame, config>>

\* Mutant of serviceRestartResultApplied: the fingerprint is not compared.
appliedWithoutFingerprint ==
    request # NoRequest /\ result.success /\ result.id = request.id

\* What the dashboard tells the user.
serviceRestartResultApplied ==
    /\ request # NoRequest /\ result.success /\ result.id = request.id
    /\ result.applied = Fingerprint[config]

-----------------------------------------------------------------------------
(* Crashes and time                                                        *)

\* A command is killed; its files stay.
Crash(c) ==
    /\ Alive(c) /\ Goto(c, "exited")
    /\ beat' = [beat EXCEPT ![c] = "off"]
    /\ handled' = [handled EXCEPT ![c] = NoRequest]
    /\ loaded' = [loaded EXCEPT ![c] = "none"]
    /\ answer' = [answer EXCEPT ![c] = NoAnswer]
    /\ seen' = [seen EXCEPT ![c] = "none"] /\ attempt' = [attempt EXCEPT ![c] = 0]
    /\ UNCHANGED <<lockVars, presenceVars, serviceVars, request, result, raced>>

\* A file that nobody refreshes gets stale.
LockAges ==
    /\ lock # "none" /\ lockFresh /\ (Timely => ~Alive(lock))
    /\ lockFresh' = FALSE
    /\ UNCHANGED <<lock, nonce, presenceVars, beatFrame, beat>>

PresenceAges ==
    /\ presence # "none" /\ presenceFresh /\ (Timely => ~Alive(presence))
    /\ presenceFresh' = FALSE
    /\ UNCHANGED <<presence, lockVars, beatFrame, beat>>

Acquire(c) ==
    Create(c) \/ WriteNonce(c) \/ Inspect(c) \/ Stat(c) \/ Remove(c) \/ Publish(c)

Apply(c) ==
    \/ Read(c) \/ LoadSnapshot(c) \/ Match(c) \/ RestartWithConfig(c)
    \/ startWithConfig(c) \/ AwaitController(c) \/ Verify(c) \/ WriteResult(c)

Command(c) ==
    \/ Acquire(c) \/ Launch(c) \/ Follow(c) \/ Apply(c)
    \/ Leave(c) \/ Unpublish(c) \/ Release(c) \/ Unlock(c)

Next ==
    \/ \E c \in Cmd : StartPresence(c) \/ Command(c) \/ Interrupt(c) \/ Crash(c)
    \/ \E c \in Cmd : Touch(c) \/ Refresh(c)
    \/ \E new \in Config : SaveConfig(new)
    \/ \E force \in BOOLEAN : requestServiceRestart(force)
    \/ LockAges \/ PresenceAges

Spec == Init /\ [][Next]_vars

\* Commands go on, and time passes.
FairSpec ==
    /\ Spec
    /\ \A c \in Cmd : WF_vars(Command(c)) /\ WF_vars(Refresh(c))
    /\ WF_vars(LockAges)

-----------------------------------------------------------------------------
(* Properties                                                              *)

\* The files and the commands are well typed, and only a command that is alive
\* has a heartbeat goroutine (StartPresence's cleanup waits for it).
TypeOK ==
    /\ lock \in Cmd \cup {"none", "gone"} /\ nonce \in BOOLEAN /\ lockFresh \in BOOLEAN
    /\ presence \in Cmd \cup {"none", "gone"} /\ presenceFresh \in BOOLEAN
    /\ config \in Config /\ service \in Config \cup {"none"}
    /\ dash \in {"idle", "saved"}
    /\ request \in [id : 0 .. MaxRequests, digest : Config \cup {"none"}, force : BOOLEAN]
    /\ result.id \in 0 .. MaxRequests /\ result.success \in BOOLEAN /\ result.applied \in Nat
    /\ pc \in [Cmd -> {"off", "exited"} \cup Acquiring \cup Attached \cup Leaving]
    /\ attempt \in [Cmd -> 0 .. 2] /\ beat \in [Cmd -> {"off", "on", "write"}]
    /\ \A c \in Cmd : beat[c] # "off" => Alive(c)
    /\ loaded \in [Cmd -> Config \cup {"none"}]
    /\ seen \in [Cmd -> Cmd \cup {"none", "gone"}] /\ raced \in BOOLEAN

\* One command at a time applies restart requests.
HandlerIsAlone ==
    \A a, b \in Cmd : pc[a] \in Applying /\ pc[b] \in Applying => a = b

\* At most one command applies restart requests at a time, whoever crashes and
\* whoever takes over (acquireCoordinator, CoordinatorOwned), until a command
\* has removed the lock of somebody who took over first: acquireCoordinator
\* removes whatever has the name by the time it gets there, not the file whose
\* age it checked, and from then on there may be two handlers.
SingleHandler == ~raced => HandlerIsAlone

\* When the dashboard reports that the service was restarted for the saved
\* configuration, the service does run with that configuration's fingerprint,
\* whatever was saved, superseded or taken over in between, as long as no
\* command has removed a lock it had not found stale.
AppliedIsTrue ==
    ~raced /\ serviceRestartResultApplied =>
        service # "none" /\ Fingerprint[service] = Fingerprint[config]

\* A request is answered, superseded by another request, or nobody stays
\* attached to answer it.
RequestAnswered ==
    \A id \in 1 .. MaxRequests :
        (request.id = id /\ \E c \in Cmd : pc[c] \in Attached)
            ~> (result.id = id \/ request.id # id \/ \A c \in Cmd : pc[c] \notin Attached)

\* Every request is answered at most once and in order: a command that takes
\* over, or that polls again, does not answer a request that has its result, as
\* long as no command has removed a lock it had not found stale.
AnsweredOnce == [][~raced /\ result' # result => result'.id > result.id]_vars
=============================================================================
