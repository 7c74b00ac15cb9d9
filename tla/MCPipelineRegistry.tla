------------------------- MODULE MCPipelineRegistry -------------------------
(* Two callers, two incarnations of the service, two workers per pipeline. *)
EXTENDS PipelineRegistry

CONSTANTS c1, c2

MCCallers == {c1, c2}
=============================================================================
