--------------------------- MODULE MCWorkerProcess ---------------------------
(***************************************************************************)
(* Two requests and the activation of a generation compete for the          *)
(* namespaces; every Process can be started twice.                          *)
(***************************************************************************)
EXTENDS WorkerProcess, TLC

CONSTANTS r1, r2, n1, n2

\* Requests and namespaces are interchangeable.
Symmetric == Permutations({r1, r2}) \cup Permutations({n1, n2})
=============================================================================
