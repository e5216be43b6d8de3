---------------------------- MODULE Registration -----------------------------
(***************************************************************************)
(* What a generation tells Credimi about itself: registration.go (endpoint  *)
(* verification and Register), registerWithRetry, ApplyInventory and         *)
(* ApplyEndpoint of supervisor.go, the requests of                           *)
(* dashboard/runtime/credimi.go and the lifecycle client of                  *)
(* pkg/server/lifecycle.go.  Every request is a step of its own and may be   *)
(* applied although its answer is lost.  One operation runs at a time (they  *)
(* hold transitionMu); the heartbeat loop, which only refreshes the state of *)
(* devices, is left out.  Credimi (remote) is external: registering a runner *)
(* or a device stores it, reconciling deletes the devices that are not       *)
(* listed, resume and pause set whether it schedules work.  Names, ports,    *)
(* keys and payloads are left out.                                           *)
(***************************************************************************)
EXTENDS Naturals, FiniteSets

CONSTANTS
    Inventories, \* the device inventories a configuration may have
    Endpoints,  \* the public URLs a configuration may have
    MaxApplies, \* bound: ApplyInventory and ApplyEndpoint calls
    MaxAttempts \* defaultLifecycleRequestAttempts

VARIABLES
    mode,      \* cfg.Exposure.Mode of the generation, which it keeps
    answering, \* the routes by which requests reach this process's API now
    pc, op,    \* the operation in progress and its next step
    candidate, \* the configuration it publishes: [devices, endpoint]
    active,    \* generation.activeConfig
    todo, ids, errs, \* Register: devices to send, deviceIDs, deviceErrors
    attempt,   \* the attempts of a lifecycle request
    registered, \* generation.remoteRegistered
    remote,    \* Credimi: [endpoint, devices, active]
    verified,  \* the endpoints that have answered as this runner and boot
    carried,   \* the endpoints an inventory change has brought along
    ok,        \* the last operation returned nil
    applies

vars == <<mode, answering, pc, op, candidate, active, todo, ids, errs, attempt,
          registered, remote, verified, carried, ok, applies>>
request == <<candidate, todo, ids, errs, attempt>>

\* A configuration is what registration looks at.  The URL a generation starts
\* with, its edge's or the file's, is one of Endpoints, no matter which.
Configs == [devices : Inventories, endpoint : {CHOOSE e \in Endpoints : TRUE}]
NoEndpoint == "unregistered"

\* An earlier generation may have left devices at Credimi.
Init ==
    /\ mode \in {"manual", "named_tunnel", "quick_tunnel"} /\ answering = {}
    /\ pc = "idle" /\ op = "none" /\ candidate \in Configs /\ active = candidate
    /\ todo = {} /\ ids = {} /\ errs = {} /\ attempt = 0 /\ registered = FALSE
    /\ remote \in [endpoint : {NoEndpoint}, devices : {{}, UNION Inventories},
                  active : {FALSE}]
    /\ verified = {} /\ carried = {} /\ ok = FALSE /\ applies = 0

\* How a request ends: whether Credimi applied it and what the client learns.
\* A transient error is a 429, a 5xx or a network error; any other error, the
\* end of the context included, is permanent.
Reply == {r \in [applied : BOOLEAN, err : {"none", "transient", "permanent"}] :
            r.err = "none" => r.applied}

Fail == pc' = IF op = "activate" THEN "failed" ELSE "running"

Begin(kind, first, cfg) ==
    /\ op' = kind /\ pc' = first /\ candidate' = cfg /\ ok' = FALSE

\* activate after the edge has started: verify, then register.
Activate ==
    /\ pc = "idle"
    /\ Begin("activate", "verify", candidate)
    /\ UNCHANGED <<mode, answering, active, todo, ids, errs, attempt, registered, remote,
                   verified, carried, applies>>

\* What config.toml may hold when ApplyInventory or ApplyEndpoint is called with
\* it: the whole file is published, and changes of it that never reached the
\* generation are part of it.  The dashboard saves no empty inventory.
SavedConfigs == [devices : (Inventories \ {{}}) \cup {active.devices}, endpoint : Endpoints]

applyFrame == <<mode, answering, active, todo, ids, errs, attempt, registered, remote, verified>>

\* Mutant of ApplyEndpoint: the endpoint is registered without being verified.
ApplyEndpointUnverified ==
    /\ pc = "running" /\ applies < MaxApplies /\ applies' = applies + 1
    /\ \E cfg \in SavedConfigs : Begin("endpoint", "runner", cfg)
    /\ UNCHANGED <<applyFrame, carried>>

\* ApplyInventory registers at once, under the endpoint the file gives a manual
\* runner or a named tunnel;
ApplyInventory ==
    /\ pc = "running" /\ applies < MaxApplies /\ applies' = applies + 1
    /\ \E cfg \in SavedConfigs :
          /\ Begin("inventory", "runner", cfg)
          /\ carried' = carried \cup ({cfg.endpoint} \ verified)
    /\ UNCHANGED applyFrame

\* ApplyEndpoint verifies it first.
ApplyEndpoint ==
    /\ pc = "running" /\ applies < MaxApplies /\ applies' = applies + 1
    /\ \E cfg \in SavedConfigs : Begin("endpoint", "verify", cfg)
    /\ UNCHANGED <<applyFrame, carried>>

\* The file that ApplyEndpoint verifies is a manual one, whatever mode the
\* generation was started with.
Route == IF mode = "manual" \/ op = "endpoint" THEN "direct" ELSE "tunnel"
Quick == mode = "quick_tunnel" /\ op = "activate"

\* The readiness document at the public URL is this runner's and this boot's
\* ("current"), somebody else's ("identity"), cannot be resolved ("dns"), or
\* there is none ("none": an error, another status, malformed JSON).
verifyPublicEndpointAttempt == {"identity", "dns", "none"}
                                \cup (IF Route \in answering THEN {"current"} ELSE {})

\* One attempt, with the system's resolver and, for a quick tunnel whose name
\* it does not know, with Cloudflare's.  Somebody else's answer is final.
verify ==
    /\ pc \in {"verify", "fallback"}
    /\ \E answer \in verifyPublicEndpointAttempt :
        /\ \/ answer = "current" /\ pc' = "runner"
           \/ answer = "identity" /\ Fail
           \/ /\ answer = "dns" /\ Quick /\ pc = "verify"
              /\ pc' = "fallback"
           \/ /\ answer \in {"dns", "none"} /\ ~(answer = "dns" /\ Quick /\ pc = "verify")
              /\ pc' = "delay"
        /\ verified' = IF answer = "current" THEN verified \cup {candidate.endpoint}
                                             ELSE verified
    /\ UNCHANGED <<mode, op, answering, request, active, registered, remote, carried, ok, applies>>

\* The loop waits retryDelay, unless the deadline of two minutes has passed.
verifyDelay ==
    /\ pc = "delay"
    /\ pc' = "verify" \/ Fail
    /\ UNCHANGED <<mode, op, answering, request, active, registered, remote, verified, carried, ok, applies>>

\* The registration has succeeded: the configuration becomes the active one,
\* and activate goes on to resume.
Registered ==
    /\ active' = candidate
    /\ IF op = "activate" THEN pc' = "resume" /\ UNCHANGED ok
                          ELSE pc' = "running" /\ ok' = TRUE

\* Register: the runner record; the observer marks the generation.  A name
\* conflict is retried once under the name Credimi has for the runner, if the
\* lookup finds one.  Parsing an empty inventory fails, and Register is then
\* done with the runner record alone.
RegisterMobileRunner ==
    /\ pc \in {"runner", "resolved"}
    /\ \E r \in Reply :
        /\ remote' = IF r.applied THEN [remote EXCEPT !.endpoint = candidate.endpoint]
                                  ELSE remote
        /\ registered' = (registered \/ r.err = "none")
        /\ \/ r.err = "none" /\ candidate.devices = {} /\ Registered
           \/ /\ r.err = "none" /\ candidate.devices # {}
              /\ pc' = "devices" /\ UNCHANGED <<active, ok>>
           \/ r.err = "transient" /\ pc' = "retry" /\ UNCHANGED <<active, ok>>
           \/ /\ r.err = "permanent" /\ UNCHANGED <<active, ok>>
              /\ Fail \/ (pc = "runner" /\ ~r.applied /\ pc' = "resolved")
    /\ todo' = candidate.devices /\ ids' = {} /\ errs' = {}
    /\ UNCHANGED <<mode, op, answering, candidate, attempt, verified, carried, applies>>

\* The next device; an error is collected and the others are still sent.
RegisterMobileDevice ==
    /\ pc = "devices"
    /\ \E d \in todo, r \in Reply :
        /\ todo' = todo \ {d}
        /\ remote' = IF r.applied THEN [remote EXCEPT !.devices = @ \cup {d}] ELSE remote
        /\ ids' = IF r.err = "none" THEN ids \cup {d} ELSE ids
        /\ errs' = IF r.err = "none" THEN errs ELSE errs \cup {r.err}
    /\ UNCHANGED <<mode, pc, op, answering, candidate, active, attempt, registered,
                   verified, carried, ok, applies>>

\* Mutant of DevicesFailed: only a permanent error keeps Register from
\* reconciling.
DevicesFailedForGood == "permanent" \in errs

DevicesFailed == errs # {}

\* transientRegistrationError of the joined errors: every one must be.
JoinedTransient == errs = {"transient"}

\* Mutant of ReconcileMobileDevices: an answer that is lost does not make
\* Register fail, all devices having been registered.
ReconcileUnchecked ==
    /\ pc = "devices" /\ todo = {}
    /\ IF DevicesFailed
       THEN /\ IF JoinedTransient THEN pc' = "retry" ELSE Fail
            /\ UNCHANGED <<remote, active, ok>>
       ELSE \E r \in Reply :
            /\ remote' = IF r.applied THEN [remote EXCEPT !.devices = @ \cap ids] ELSE remote
            /\ Registered
    /\ ids' = {} /\ errs' = {}
    /\ UNCHANGED <<mode, op, answering, candidate, todo, attempt, registered, verified, carried, applies>>

\* All devices were sent: the errors are returned, or the inventory is
\* reconciled with the devices that were accepted; Register returns.
ReconcileMobileDevices ==
    /\ pc = "devices" /\ todo = {}
    /\ IF DevicesFailed
       THEN /\ IF JoinedTransient THEN pc' = "retry" ELSE Fail
            /\ UNCHANGED <<remote, active, ok>>
       ELSE \E r \in Reply :
            /\ remote' = IF r.applied THEN [remote EXCEPT !.devices = @ \cap ids] ELSE remote
            /\ \/ r.err = "none" /\ Registered
               \/ r.err = "transient" /\ pc' = "retry" /\ UNCHANGED <<active, ok>>
               \/ r.err = "permanent" /\ Fail /\ UNCHANGED <<active, ok>>
    /\ ids' = {} /\ errs' = {}
    /\ UNCHANGED <<mode, op, answering, candidate, todo, attempt, registered, verified, carried, applies>>

\* registerWithRetry: after a delay Register begins again, unless the context
\* of the transition has ended.
registerWithRetry ==
    /\ pc = "retry"
    /\ pc' = "runner" \/ Fail
    /\ UNCHANGED <<mode, op, answering, request, active, registered, remote, verified, carried, ok, applies>>

\* post: a request is sent again with the same id only after a transport
\* error, at most MaxAttempts times; then, or when the context ends, its error
\* is returned.
post(after, onError, effect) ==
    \E r \in Reply :
        /\ remote' = IF r.applied THEN effect ELSE remote
        /\ \/ r.err = "none" /\ after /\ attempt' = 0
           \/ /\ r.err = "transient" /\ attempt + 1 < MaxAttempts
              /\ attempt' = attempt + 1 /\ UNCHANGED <<pc, ok>>
           \/ r.err # "none" /\ onError /\ attempt' = 0

\* activate: Resume, then the first Heartbeat; the workers start before.
Resume ==
    /\ pc = "resume"
    /\ post(pc' = "heartbeat" /\ UNCHANGED ok, Fail /\ UNCHANGED ok,
            [remote EXCEPT !.active = TRUE])
    /\ UNCHANGED <<mode, op, answering, candidate, active, todo, ids, errs, registered,
                   verified, carried, applies>>

Heartbeat ==
    /\ pc = "heartbeat"
    /\ post(pc' = "running" /\ ok' = TRUE, Fail /\ UNCHANGED ok, remote)
    /\ UNCHANGED <<mode, op, answering, candidate, active, todo, ids, errs, registered,
                   verified, carried, applies>>

\* teardownGeneration with pause, of a generation that runs or whose
\* activation failed; one that never registered is not paused.
Pause ==
    /\ pc \in {"running", "failed", "pausing"}
    /\ IF ~registered
       THEN pc' = "down" /\ ok' = TRUE /\ UNCHANGED <<remote, attempt>>
       ELSE \E r \in Reply :
            /\ remote' = IF r.applied THEN [remote EXCEPT !.active = FALSE] ELSE remote
            /\ \/ r.err = "none" /\ pc' = "down" /\ ok' = TRUE /\ attempt' = 0
               \/ /\ r.err = "transient" /\ attempt + 1 < MaxAttempts
                  /\ pc' = "pausing" /\ ok' = FALSE /\ attempt' = attempt + 1
               \/ r.err # "none" /\ pc' = "down" /\ ok' = FALSE /\ attempt' = 0
    /\ UNCHANGED <<mode, op, answering, candidate, active, todo, ids, errs, registered,
                   verified, carried, applies>>

\* The tunnel and the API come and go; a composition gives answering a meaning.
Exposure ==
    /\ answering' \in SUBSET {"direct", "tunnel"}
    /\ UNCHANGED <<mode, pc, op, request, active, registered, remote, verified, carried, ok, applies>>

Operate ==
    \/ Activate \/ ApplyInventory \/ ApplyEndpoint \/ verify \/ verifyDelay
    \/ RegisterMobileRunner \/ RegisterMobileDevice \/ ReconcileMobileDevices
    \/ registerWithRetry \/ Resume \/ Heartbeat \/ Pause

Next == Operate \/ Exposure

Spec == Init /\ [][Next]_vars

-----------------------------------------------------------------------------
\* When activation, ApplyInventory or ApplyEndpoint has returned nil, Credimi
\* lists the endpoint and exactly the devices of the active configuration,
\* whatever was left there before and however many requests were lost,
\* repeated or refused on the way.  Only an empty inventory leaves the devices
\* of an earlier one listed.
PublishedIsActive ==
    pc = "running" /\ ok => /\ remote.endpoint = active.endpoint
                            /\ active.devices # {} => remote.devices = active.devices

\* Credimi is only ever given an endpoint that has answered as this runner and
\* this boot, but for one that an inventory change has brought along:
\* ApplyInventory publishes the address that config.toml has by then, which
\* nobody has verified if its own change never reached the generation.
EndpointIsVerified == remote.endpoint \in verified \cup carried \cup {NoEndpoint}
=============================================================================
