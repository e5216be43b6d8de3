--------------------------- MODULE ControllerLease ---------------------------
(***************************************************************************)
(* The controller's lease on a configuration directory                     *)
(* (internal/controller/instance.go, internal/controller/identity): the    *)
(* flock on controller.lock, the metadata file controller.json by which    *)
(* commands find the Dashboard, and the probe that checks whom they found. *)
(* application.Run takes the lease before it serves and gives it back      *)
(* after it has shut down; a killed process loses the lock, and leaves its *)
(* metadata behind.                                                        *)
(***************************************************************************)
EXTENDS Naturals

CONSTANTS Procs,      \* processes that run the application on this directory
          MaxTokens   \* bound on identity tokens, one per run

VARIABLES lock,    \* who holds controller.lock, or "free"
          meta,    \* identity token in controller.json, 0 when absent
          proc,    \* per process: stage, identity token, code it runs
          tokens   \* tokens generated so far

NotFound == 0
Off == [at |-> "off", token |-> NotFound, code |-> 0]

Init ==
    /\ lock = "free"
    /\ meta = NotFound
    /\ proc = [p \in Procs |-> Off]
    /\ tokens = 0

Alive(p) == proc[p].at # "off"
Become(p, stage) == proc' = [proc EXCEPT ![p].at = stage]

(* The process is started with the code installed at this moment. *)
Boot(p, code) ==
    /\ ~Alive(p)
    /\ tokens < MaxTokens
    /\ proc' = [proc EXCEPT ![p] = [at |-> "boot", token |-> NotFound, code |-> code]]
    /\ UNCHANGED <<lock, meta, tokens>>

(* A busy lock ends the process with ErrAlreadyRunning. *)
Acquire(p) ==
    /\ proc[p].at = "boot"
    /\ IF lock = "free"
       THEN /\ lock' = p
            /\ tokens' = tokens + 1
            /\ proc' = [proc EXCEPT ![p].at = "owner", ![p].token = tokens']
       ELSE proc' = [proc EXCEPT ![p] = Off] /\ UNCHANGED <<lock, tokens>>
    /\ UNCHANGED meta

Publish(p) ==
    /\ proc[p].at = "owner"
    /\ meta' = proc[p].token
    /\ Become(p, "serving")
    /\ UNCHANGED <<lock, tokens>>

(* What Close does with the metadata and with the lock of its own         *)
(* descriptor, one after the other.                                        *)
GiveBack(p, what) ==
    /\ meta' = IF what = "remove" THEN NotFound ELSE meta
    /\ lock' = IF what = "unlock" /\ lock = p THEN "free" ELSE lock

(* Mutant of CloseOrder: the metadata goes when the lock is given back. *)
UnlockThenRemove == <<"unlock", "remove">>

(* Close removes the metadata while it still holds the lock. *)
CloseOrder == <<"remove", "unlock">>

Close(p) ==
    /\ proc[p].at \in {"owner", "serving"}
    /\ GiveBack(p, CloseOrder[1])
    /\ Become(p, "closing")
    /\ UNCHANGED tokens

CloseReturns(p) ==
    /\ proc[p].at = "closing"
    /\ GiveBack(p, CloseOrder[2])
    /\ proc' = [proc EXCEPT ![p] = Off]
    /\ UNCHANGED tokens

(* The process is killed: the kernel gives the lock back. *)
Kill(p) ==
    /\ Alive(p)
    /\ lock' = IF lock = p THEN "free" ELSE lock
    /\ proc' = [proc EXCEPT ![p] = Off]
    /\ UNCHANGED <<meta, tokens>>

Steps(p) == Acquire(p) \/ Publish(p) \/ Close(p) \/ CloseReturns(p) \/ Kill(p)

(* ReadMetadata and Probe: the controller the metadata names answers with  *)
(* the identity it was published under.                                    *)
Probe(token) ==
    {p \in Procs : proc[p].at = "serving" /\ proc[p].token = token /\ token # NotFound}

----------------------------------------------------------------------------
(* A serving controller can be found: whoever has published and has not    *)
(* begun to close is the one the metadata file names, whatever other       *)
(* processes start, close or are killed around it.                         *)
ServingIsFindable ==
    \A p \in Procs : proc[p].at = "serving" => meta = proc[p].token

=============================================================================
