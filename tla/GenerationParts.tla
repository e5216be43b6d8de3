--------------------------- MODULE GenerationParts ---------------------------
(***************************************************************************)
(* One runtime generation with the real parts it is made of: the execution  *)
(* API (HTTPAPI), the tunnel (Cloudflared, or the manual edge, which has no  *)
(* process) and the conversation with Credimi (Registration), driven in the  *)
(* order of activate and teardownGeneration of supervisor.go.  The public    *)
(* URL answers for this boot only while the tunnel process lives and the API *)
(* accepts.  RuntimeSupervisor models the transitions around it.             *)
(***************************************************************************)
EXTENDS Naturals, FiniteSets

CONSTANTS Inventories, Endpoints, MaxApplies, MaxAttempts, MaxRequests, MaxStarts

\* A configuration has a public URL; the processes are numbered.
ASSUME PartsAssumption == MaxStarts \in Nat /\ Endpoints # {}

VARIABLES
    mode,
    launched, process, publicURL, failures, noticed, p, call, \* Cloudflared
    started, shutdownRequested, serveDone, reported, listening, closing,
    requests, serving, expected, apiCall, closed, \* HTTPAPI
    pc, op, candidate, active, todo, ids, errs, attempt, registered, remote,
    verified, carried, ok, applies, \* Registration
    stage, \* what the thread of the transition does
    fatal  \* generation.fatal holds a failure

\* Requests get to the API while it accepts, through the tunnel while its
\* process lives.
Answering == IF serving = "accept" /\ listening
             THEN {"direct"} \cup (IF process # 0 /\ p[process].alive THEN {"tunnel"} ELSE {})
             ELSE {}

Tunnel == INSTANCE Cloudflared
API == INSTANCE HTTPAPI WITH call <- apiCall
Remote == INSTANCE Registration WITH answering <- Answering

tunnelVars == <<launched, process, publicURL, failures, noticed, p, call>>
apiVars == <<started, shutdownRequested, serveDone, reported, listening, closing,
             requests, serving, expected, apiCall, closed>>
remoteVars == <<pc, op, candidate, active, todo, ids, errs, attempt, registered,
                remote, verified, carried, ok, applies>>
vars == <<mode, tunnelVars, apiVars, remoteVars, stage, fatal>>

\* newGeneration has opened the listener.
Init ==
    /\ mode \in {"manual", "named_tunnel", "quick_tunnel"}
    /\ launched = 0 /\ process = 0 /\ publicURL = 0 /\ failures = 0 /\ noticed = {}
    /\ call = Tunnel!Idle
    /\ p = [q \in Tunnel!Procs |-> [Tunnel!NewProcess EXCEPT !.alive = FALSE, !.wait = "none"]]
    /\ API!Init
    /\ pc = "idle" /\ op = "none"
    /\ candidate \in Remote!Configs /\ active = candidate
    /\ todo = {} /\ ids = {} /\ errs = {} /\ attempt = 0 /\ registered = FALSE
    /\ remote \in [endpoint : {Remote!NoEndpoint}, devices : {{}, UNION Inventories},
                  active : {FALSE}]
    /\ verified = {} /\ carried = {} /\ ok = FALSE /\ applies = 0
    /\ stage \in {"api", "alone"} /\ fatal = FALSE

Goto(s) == stage' = s

\* A tunnel by itself, started and stopped in any order, as the package allows
\* and its tests do; a generation starts its tunnel once.
TunnelAlone ==
    /\ stage = "alone" /\ mode # "manual"
    /\ Tunnel!StartAgain \/ Tunnel!Start \/ Tunnel!StartSelects 
       \/ Tunnel!StartPublishes \/ Tunnel!Stop \/ Tunnel!StopWaits
    /\ UNCHANGED <<mode, apiVars, remoteVars, stage, fatal>>

\* newGeneration fails after it has opened the listener, and cleans up.
CreateFails ==
    /\ stage = "api" /\ Goto("down")
    /\ UNCHANGED <<mode, tunnelVars, apiVars, remoteVars, fatal>>

\* activate: api.Start, and the check of fatalError after it.
StartAPI ==
    /\ stage = "api" /\ API!Start /\ Goto("edge")
    /\ UNCHANGED <<mode, tunnelVars, remoteVars, fatal>>

\* edge.Start.  The manual edge only fails without a URL.
StartEdge ==
    /\ stage = "edge"
    /\ IF mode = "manual"
       THEN (Goto("remote") \/ Goto("down")) /\ UNCHANGED tunnelVars
       ELSE \/ call.op = "none" /\ Tunnel!Start /\ UNCHANGED stage
            \/ call.pc = "stop" /\ Tunnel!Stop /\ UNCHANGED stage
            \/ Tunnel!StartSelects /\ UNCHANGED stage
            \/ Tunnel!StartPublishes /\ UNCHANGED stage
            \/ Tunnel!StopWaits /\ UNCHANGED stage
            \/ /\ call.pc = "idle" /\ call.op = "start"
               /\ IF call.ok /\ ~fatal THEN Goto("remote") ELSE Goto("down")
               /\ UNCHANGED tunnelVars
    /\ UNCHANGED <<mode, apiVars, remoteVars, fatal>>

\* The rest of activate, ApplyInventory and ApplyEndpoint.  fatalError ends an
\* activation between two of its steps.
Converse ==
    /\ stage = "remote"
    /\ UNCHANGED <<mode, tunnelVars, apiVars, stage, fatal>>
    /\ \/ Remote!Activate \/ Remote!ApplyInventory \/ Remote!ApplyEndpoint
       \/ Remote!verify \/ Remote!verifyDelay \/ Remote!RegisterMobileRunner
       \/ Remote!RegisterMobileDevice \/ Remote!ReconcileMobileDevices
       \/ Remote!registerWithRetry \/ Remote!Resume \/ Remote!Heartbeat
       \/ /\ fatal /\ op = "activate" /\ pc \in {"runner", "resume"} /\ attempt = 0
          /\ pc' = "failed"
          /\ UNCHANGED <<op, candidate, active, todo, ids, errs, attempt, registered,
                         remote, verified, carried, ok, applies>>

\* The generation is torn down: its activation failed, a Stop, Restart or Close
\* was requested, or monitorGeneration received a failure.  What the last
\* operation worked with went with its return.
BeginTeardown ==
    /\ stage = "remote" /\ pc \in {"running", "failed"} /\ Goto("down")
    /\ op' = "none" /\ candidate' = active /\ applies' = 0
    /\ todo' = {} /\ ids' = {} /\ errs' = {}
    /\ UNCHANGED <<mode, tunnelVars, apiVars, pc, active, attempt, registered, remote,
                   verified, carried, ok, fatal>>

\* lifecycle.Pause; a generation that never got to register is not paused.
PauseRemote ==
    /\ stage = "down"
    /\ UNCHANGED <<mode, tunnelVars, apiVars, fatal>>
    /\ IF pc \in {"idle", "down"}
       THEN Goto("shutdown") /\ UNCHANGED remoteVars
       ELSE Remote!Pause /\ UNCHANGED stage

\* api.Shutdown, skipped once it has returned nil (setAPIClosed).
ShutdownAPI ==
    /\ stage \in {"shutdown", "drain"}
    /\ \/ stage = "shutdown" /\ ~closed /\ API!Shutdown /\ Goto("drain")
       \/ API!ServerShutdown /\ UNCHANGED stage
       \/ API!ShutdownReturns /\ UNCHANGED stage
       \/ /\ (stage = "drain" /\ apiCall = "idle") \/ closed
          /\ Goto("stop") /\ UNCHANGED apiVars
    /\ UNCHANGED <<mode, tunnelVars, remoteVars, fatal>>

\* edge.Stop, also when the API could not be shut down; a teardown with local
\* errors is repeated, the pause included, by the next operation.
StopEdge ==
    /\ stage \in {"stop", "stopping"}
    /\ \/ stage = "stop" /\ Tunnel!Stop /\ Goto("stopping") /\ UNCHANGED pc
       \/ Tunnel!StopWaits /\ UNCHANGED <<stage, pc>>
       \/ /\ stage = "stopping" /\ call.pc = "idle"
          /\ IF closed /\ call.ok
             THEN Goto("released") /\ UNCHANGED pc
             ELSE Goto("down") /\ pc' = IF pc = "idle" THEN "idle" ELSE "failed"
          /\ UNCHANGED tunnelVars
    /\ UNCHANGED <<mode, apiVars, op, candidate, active, todo, ids, errs, attempt,
                   registered, remote, verified, carried, ok, applies, fatal>>

\* watchFailureSource of the tunnel and of the API fill generation.fatal.
WatchFailures ==
    /\ ~fatal /\ fatal' = TRUE
    /\ \/ Tunnel!Notice /\ UNCHANGED apiVars
       \/ reported /\ UNCHANGED <<tunnelVars, apiVars>>
    /\ UNCHANGED <<mode, remoteVars, stage>>

\* The goroutines and the processes of the parts.
TunnelRuns ==
    /\ \E q \in Tunnel!Procs :
        \/ Tunnel!consumeOutput(q) \/ Tunnel!waitProcess(q)
        \/ Tunnel!reportFailure(q) \/ Tunnel!CloseDone(q)
    /\ UNCHANGED <<mode, apiVars, remoteVars, stage, fatal>>

TunnelDies ==
    /\ \E q \in Tunnel!Procs : Tunnel!ProcessDies(q)
    /\ UNCHANGED <<mode, apiVars, remoteVars, stage, fatal>>

APIServes ==
    /\ API!RequestEnds \/ API!Serve \/ API!ServeChecks \/ API!ServeCloses \/ API!reportFailure
       \/ (closing /\ API!ServeReturns)
    /\ UNCHANGED <<mode, tunnelVars, remoteVars, stage, fatal>>

APIFails ==
    /\ API!Request \/ (~closing /\ API!ServeReturns)
    /\ UNCHANGED <<mode, tunnelVars, remoteVars, stage, fatal>>

Transition == StartAPI \/ StartEdge \/ Converse \/ PauseRemote \/ ShutdownAPI \/ StopEdge

Next == \/ Transition \/ BeginTeardown \/ CreateFails \/ TunnelAlone
        \/ WatchFailures \/ TunnelRuns \/ TunnelDies \/ APIServes \/ APIFails

\* Goroutines are scheduled, and monitorGeneration tears down a generation
\* whose failure it has received.
Fairness ==
    /\ WF_vars(WatchFailures) /\ WF_vars(TunnelRuns) /\ WF_vars(APIServes)
    /\ WF_vars(fatal /\ BeginTeardown)

Spec == Init /\ [][Next]_vars /\ Fairness

-----------------------------------------------------------------------------
Alive == \E q \in Tunnel!Procs : p[q].alive
Executing == stage = "remote" /\ pc = "running"

\* A teardown that is over and free of local errors has released everything the
\* generation had: no tunnel process lives, the address of the API is free, no
\* request runs.
ReleasedIsFree ==
    stage = "released" => ~Alive /\ ~listening /\ requests = 0 /\ serving \notin {"serve", "accept"}

\* A tunnel process that lives is the one Running reports and Stop signals.
TunnelIsOwned == Tunnel!TunnelIsOwned

\* Whoever got a URL from Start learns of the end of that tunnel, nobody else.
EndIsReported == Tunnel!EndIsReported

\* What Credimi lists after a successful operation is the active configuration,
\* unless that has no devices.
PublishedIsActive == Remote!PublishedIsActive

\* Credimi is only given an endpoint that has answered as this runner and boot,
\* one behind which the tunnel lived and the API accepted, or one that was in
\* config.toml, unverified, when an inventory change was published.
EndpointIsVerified == Remote!EndpointIsVerified

\* A registration, also one that fails halfway and is repeated, never deletes a
\* configured device that Credimi already has.
DevicesAreKept ==
    [][remote.devices \cap candidate.devices \subseteq remote'.devices]_vars

\* A generation that runs does not stay up once its tunnel has ended or its API
\* no longer serves: the failure reaches the monitor and the generation is torn
\* down.
DeadPartEndsGeneration ==
    (Executing /\ (serveDone \/ (mode # "manual" /\ ~Alive))) ~> ~Executing
=============================================================================
