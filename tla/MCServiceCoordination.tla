------------------------ MODULE MCServiceCoordination ------------------------
(***************************************************************************)
(* Two commands compete for the lock, which a third that died may have left *)
(* behind.  The two configurations differ in what the service needs.        *)
(***************************************************************************)
EXTENDS ServiceCoordination

CONSTANTS a, b, c1, c2

FingerprintOf == [x \in Config |-> IF x = c2 THEN 2 ELSE 1]
=============================================================================
