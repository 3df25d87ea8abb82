------------------------- MODULE MCPollObservations -------------------------
(* PollObservations has no constants: its tests are the bound.             *)
EXTENDS PollObservations

============================================================================
