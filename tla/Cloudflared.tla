---------------------------- MODULE Cloudflared ------------------------------
(***************************************************************************)
(* internal/edge/cloudflared.go: one Cloudflared owns at most one tunnel    *)
(* process.  Start and Stop are called by one thread (the supervisor's      *)
(* transition); the operating system may end the process at any time; one   *)
(* goroutine per process reads its output (consumeOutput) and one waits for *)
(* its end (waitProcess).  Every critical section of Cloudflared.mu is one   *)
(* step.  Processes are numbered in the order they are launched.  Tokens,   *)
(* environments, log lines and the text of errors are left out.             *)
(***************************************************************************)
EXTENDS Naturals

CONSTANT MaxStarts \* bound: processes launched

VARIABLES
    mode,      \* Mode: "named_tunnel" or "quick_tunnel", never changed
    launched,  \* how many processes have been launched
    process, publicURL, \* Cloudflared: 0 is nil, else the process (of the URL)
    failures,  \* the channel of capacity 1: 0 is empty, else the process
    noticed,   \* the processes whose failure the watcher has received
    p,         \* per process: the cloudflaredProcess and its goroutines
    call       \* the call in progress and the outcome of the last one

vars == <<mode, launched, process, publicURL, failures, noticed, p, call>>

Procs == 1 .. MaxStarts

\* alive: the operating system runs it; url: what consumeOutput found;
\* wait: what waitProcess does next.
NewProcess == [alive |-> TRUE, url |-> "none", wait |-> "wait", exited |-> FALSE,
               expectedStop |-> FALSE, started |-> FALSE, done |-> FALSE]

Named == mode = "named_tunnel"

Idle == [pc |-> "idle", op |-> "none", of |-> 0, ok |-> FALSE]

Init ==
    /\ mode \in {"named_tunnel", "quick_tunnel"}
    /\ launched = 0 /\ process = 0 /\ publicURL = 0 /\ failures = 0 /\ noticed = {}
    /\ p = [q \in Procs |-> [NewProcess EXCEPT !.alive = FALSE, !.wait = "none"]]
    /\ call = Idle

Return(result) == call' = [call EXCEPT !.pc = "idle", !.ok = result]

Running == process # 0 /\ ~p[process].exited

\* Mutant of AlreadyRunning: a tunnel that has not published its URL yet does
\* not count as running.
AlreadyPublished == publicURL # 0

\* The first condition of Start: the process is kept and its URL returned.
AlreadyRunning == Running

\* Start of a tunnel that already runs.
StartAgain ==
    /\ call.pc = "idle" /\ AlreadyRunning
    /\ call' = [Idle EXCEPT !.op = "start", !.of = process, !.ok = TRUE]
    /\ UNCHANGED <<mode, launched, process, publicURL, failures, noticed, p>>

\* Start up to the launch.  The mode, the domain, the context or the binary
\* may be bad, and then nothing changes.
Start ==
    /\ call.pc = "idle" /\ ~AlreadyRunning
    /\ \/ /\ call' = [Idle EXCEPT !.op = "start"]
          /\ UNCHANGED <<launched, process, publicURL, p>>
       \/ /\ launched < MaxStarts
          /\ launched' = launched + 1
          /\ process' = launched' /\ publicURL' = 0
          /\ p' = [p EXCEPT ![launched'] = NewProcess]
          /\ call' = [pc |-> "select", op |-> "start", of |-> launched', ok |-> FALSE]
    /\ UNCHANGED <<mode, failures, noticed>>

\* The select of Start: the grace period of a named tunnel or the URL of a
\* quick one, the end of the process, or the end of the context, which calls
\* Stop with that context.  Go picks any case that is ready.
StartSelects ==
    /\ call.pc = "select"
    /\ \/ /\ Named \/ p[call.of].url = "found"
          /\ call' = [call EXCEPT !.pc = "publish"]
       \/ p[call.of].done /\ Return(FALSE)
       \/ call' = [call EXCEPT !.pc = "stop"]
    /\ UNCHANGED <<mode, launched, process, publicURL, failures, noticed, p>>

\* Mutant of StartPublishes: the process is not looked at again.
StartPublishesBlindly ==
    /\ call.pc = "publish"
    /\ p' = [p EXCEPT ![call.of].started = TRUE]
    /\ publicURL' = call.of /\ Return(TRUE)
    /\ UNCHANGED <<mode, launched, process, failures, noticed>>

\* The second critical section of Start.
StartPublishes ==
    /\ call.pc = "publish"
    /\ IF p[call.of].exited
       THEN Return(FALSE) /\ UNCHANGED <<publicURL, p>>
       ELSE /\ p' = [p EXCEPT ![call.of].started = TRUE]
            /\ publicURL' = call.of /\ Return(TRUE)
    /\ UNCHANGED <<mode, launched, process, failures, noticed>>

\* The reader sees the URL of a quick tunnel in the output.  Wait closes the
\* pipes, so that a line may also never be read.
consumeOutput(q) ==
    /\ ~Named /\ p[q].url = "none" /\ p[q].wait \in {"wait", "report", "close"}
    /\ p' = [p EXCEPT ![q].url = "found"]
    /\ UNCHANGED <<mode, launched, process, publicURL, failures, noticed, call>>

\* The process ends by itself, or because of a signal.
ProcessDies(q) ==
    /\ p[q].alive
    /\ p' = [p EXCEPT ![q].alive = FALSE]
    /\ UNCHANGED <<mode, launched, process, publicURL, failures, noticed, call>>

\* The end of a process is a failure if Start has returned its URL and Stop
\* has not asked for it.
Unexpected(q) == p[q].started /\ ~p[q].expectedStop

\* waitProcess, its critical section.
waitProcess(q) ==
    /\ p[q].wait = "wait" /\ ~p[q].alive
    /\ p' = [p EXCEPT ![q].exited = TRUE,
                      ![q].wait = IF Unexpected(q) THEN "report" ELSE "close"]
    /\ process' = (IF process = q THEN 0 ELSE process)
    /\ publicURL' = (IF process = q THEN 0 ELSE publicURL)
    /\ UNCHANGED <<mode, launched, failures, noticed, call>>

\* A full channel keeps the failure it holds.
reportFailure(q) ==
    /\ p[q].wait = "report"
    /\ failures' = IF failures = 0 THEN q ELSE failures
    /\ p' = [p EXCEPT ![q].wait = "close"]
    /\ UNCHANGED <<mode, launched, process, publicURL, noticed, call>>

\* close(p.done)
CloseDone(q) ==
    /\ p[q].wait = "close"
    /\ p' = [p EXCEPT ![q].wait = "end", ![q].done = TRUE]
    /\ UNCHANGED <<mode, launched, process, publicURL, failures, noticed, call>>

\* The generation's watcher receives from Failures().
Notice ==
    /\ failures # 0
    /\ noticed' = noticed \cup {failures} /\ failures' = 0
    /\ UNCHANGED <<mode, launched, process, publicURL, p, call>>

\* Stop up to the signal; a Stop inside a cancelled Start begins here too.
Stop ==
    /\ call.pc \in {"idle", "stop"}
    /\ LET op == IF call.pc = "stop" THEN "start" ELSE "stop"
       IN IF Running
          THEN /\ p' = [p EXCEPT ![process].expectedStop = TRUE]
               /\ call' = [pc |-> "term", op |-> op, of |-> process, ok |-> FALSE]
          ELSE /\ call' = [Idle EXCEPT !.op = op, !.ok = op = "stop"]
               /\ UNCHANGED p
    /\ UNCHANGED <<mode, launched, process, publicURL, failures, noticed>>

\* Stop waits for the end: it succeeds once done is closed.  A signal that
\* cannot be sent, or the timeout after the kill, makes it fail; the end of
\* the context after SIGTERM leads to the kill.
StopWaits ==
    /\ call.pc \in {"term", "kill"}
    /\ \/ p[call.of].done /\ Return(call.op = "stop")
       \/ Return(FALSE)
       \/ call.pc = "term" /\ call' = [call EXCEPT !.pc = "kill"]
    /\ UNCHANGED <<mode, launched, process, publicURL, failures, noticed, p>>

Next ==
    \/ StartAgain \/ Start \/ StartSelects \/ StartPublishes \/ Stop
    \/ StopWaits \/ Notice
    \/ \E q \in Procs :
        \/ consumeOutput(q) \/ ProcessDies(q) \/ waitProcess(q)
        \/ reportFailure(q) \/ CloseDone(q)

Spec == Init /\ [][Next]_vars

-----------------------------------------------------------------------------
\* A tunnel process that lives is the one Running reports and Stop signals, at
\* every moment of Start, of a cancelled Start and of a Stop that failed; and
\* none lives once Stop has returned nil.
TunnelIsOwned ==
    \A q \in Procs : p[q].alive =>
        /\ process = q
        /\ ~(call.pc = "idle" /\ call.op = "stop" /\ call.ok)

\* Whoever got a URL from Start learns of the end of that tunnel: when its
\* goroutines are done and nobody called Stop, a failure is in the channel or
\* was received.  Whoever got an error, or stopped it, gets no failure.
EndIsReported ==
    \A q \in 1 .. launched : p[q].done =>
        IF p[q].started /\ ~p[q].expectedStop
        THEN failures # 0 \/ noticed # {}
        ELSE failures # q /\ q \notin noticed
=============================================================================
