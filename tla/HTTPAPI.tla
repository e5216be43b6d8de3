------------------------------ MODULE HTTPAPI --------------------------------
(***************************************************************************)
(* internal/runtimesupervisor/http_api.go: the execution API of one         *)
(* generation.  Start and Shutdown are called by one thread (the            *)
(* supervisor's transition, whose teardown may call Shutdown again after an  *)
(* error); serve is a goroutine that may be scheduled long after Start has  *)
(* returned; the listener may fail at any time; requests may be in progress. *)
(* http.Server is modelled by what the code uses: Shutdown closes the        *)
(* tracked listener, makes a later Serve return at once, and waits for the   *)
(* requests until the context ends.                                         *)
(***************************************************************************)
EXTENDS Naturals

CONSTANT MaxRequests \* bound: requests in progress

VARIABLES
    started, shutdownRequested, serveDone, \* HTTPAPI
    reported,  \* a failure has been put into the channel
    listening, \* the listener is open
    closing,   \* http.Server.Shutdown has been called
    requests,  \* requests in progress
    serving,   \* what the goroutine of serve does next
    expected,  \* what it read of shutdownRequested
    call,      \* what the thread of the transition does
    closed     \* the last Shutdown has returned nil

vars == <<started, shutdownRequested, serveDone, reported, listening, closing,
          requests, serving, expected, call, closed>>

\* NewHTTPAPI has opened the listener.
Init ==
    /\ started = FALSE /\ shutdownRequested = FALSE /\ serveDone = FALSE
    /\ reported = FALSE /\ listening = TRUE /\ closing = FALSE /\ requests = 0
    /\ serving = "none" /\ expected = FALSE /\ call = "idle" /\ closed = FALSE

Listening == started /\ ~serveDone

\* Start is refused after a Shutdown and when the server has ended, and does
\* nothing while it serves.
Start ==
    /\ call = "idle" /\ ~shutdownRequested /\ ~started
    /\ started' = TRUE /\ serving' = "serve"
    /\ UNCHANGED <<shutdownRequested, serveDone, reported, listening, closing,
                   requests, expected, call, closed>>

\* A client's request is accepted, and ends.
Request ==
    /\ serving = "accept" /\ listening /\ requests < MaxRequests
    /\ requests' = requests + 1
    /\ UNCHANGED <<started, shutdownRequested, serveDone, reported, listening,
                   closing, serving, expected, call, closed>>

RequestEnds ==
    /\ requests > 0 /\ requests' = requests - 1
    /\ UNCHANGED <<started, shutdownRequested, serveDone, reported, listening,
                   closing, serving, expected, call, closed>>

\* Serve begins, or returns because the server is shut down; it closes the
\* listener when it returns.
Serve ==
    /\ serving = "serve"
    /\ IF closing THEN serving' = "check" /\ listening' = FALSE
                  ELSE serving' = "accept" /\ UNCHANGED listening
    /\ UNCHANGED <<started, shutdownRequested, serveDone, reported, closing,
                   requests, expected, call, closed>>

\* Serve returns: the server is shut down or accepting has failed.
ServeReturns ==
    /\ serving = "accept"
    /\ serving' = "check" /\ listening' = FALSE
    /\ UNCHANGED <<started, shutdownRequested, serveDone, reported, closing,
                   requests, expected, call, closed>>

\* serve reads shutdownRequested under the mutex,
ServeChecks ==
    /\ serving = "check"
    /\ expected' = shutdownRequested /\ serving' = "close"
    /\ UNCHANGED <<started, shutdownRequested, serveDone, reported, listening,
                   closing, requests, call, closed>>

\* closes serveDone,
ServeCloses ==
    /\ serving = "close"
    /\ serveDone' = TRUE /\ serving' = "report"
    /\ UNCHANGED <<started, shutdownRequested, reported, listening, closing,
                   requests, expected, call, closed>>

\* Mutant of reportFailure: an API that is done has nothing to report.
reportFailureUnlessDone ==
    /\ serving = "report" /\ serving' = "end"
    /\ reported' = (reported \/ (~expected /\ ~serveDone))
    /\ UNCHANGED <<started, shutdownRequested, serveDone, listening, closing,
                   requests, expected, call, closed>>

\* and reports an end that no Shutdown asked for.
reportFailure ==
    /\ serving = "report" /\ serving' = "end"
    /\ reported' = (reported \/ ~expected)
    /\ UNCHANGED <<started, shutdownRequested, serveDone, listening, closing,
                   requests, expected, call, closed>>

\* Shutdown, its critical section; of an API that was never started it closes
\* the listener itself (closing it again is no error).
Shutdown ==
    /\ call = "idle"
    /\ shutdownRequested' = TRUE
    /\ IF started
       THEN call' = "drain" /\ closed' = FALSE /\ UNCHANGED listening
       ELSE \/ listening' = FALSE /\ closed' = TRUE /\ UNCHANGED call
            \/ listening /\ closed' = FALSE /\ UNCHANGED <<listening, call>>
    /\ UNCHANGED <<started, serveDone, reported, closing, requests, serving, expected>>

\* Server.Shutdown marks the server and closes the listener Serve tracks,
ServerShutdown ==
    /\ call = "drain"
    /\ closing' = TRUE /\ call' = "wait"
    /\ listening' = (listening /\ serving # "accept")
    /\ UNCHANGED <<started, shutdownRequested, serveDone, reported, requests,
                   serving, expected, closed>>

\* Mutant of ShutdownReturns: it does not wait for serve.
ShutdownReturnsEarly ==
    /\ call = "wait" /\ call' = "idle"
    /\ requests = 0 /\ closed' = TRUE
    /\ UNCHANGED <<started, shutdownRequested, serveDone, reported, listening,
                   closing, requests, serving, expected>>

\* then Shutdown waits for the requests and for serveDone until the context,
\* bounded by shutdownTimeout, ends.
ShutdownReturns ==
    /\ call = "wait" /\ call' = "idle"
    /\ \/ requests = 0 /\ serveDone /\ closed' = TRUE
       \/ closed' = FALSE
    /\ UNCHANGED <<started, shutdownRequested, serveDone, reported, listening,
                   closing, requests, serving, expected>>

Next ==
    \/ Start \/ Request \/ RequestEnds \/ Serve \/ ServeReturns \/ ServeChecks
    \/ ServeCloses \/ reportFailure \/ Shutdown \/ ServerShutdown \/ ShutdownReturns

Spec == Init /\ [][Next]_vars
=============================================================================
