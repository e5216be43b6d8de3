------------------------- MODULE MCGenerationParts ---------------------------
(* The instance of GenerationParts for TLC. *)
EXTENDS GenerationParts

\* A second device comes and goes; a configuration may have none.
MCInventories == {{}, {"d1"}, {"d1", "d2"}}
MCEndpoints == {"e1", "e2"}
=============================================================================
