------------------------- MODULE MCDirectEchoClient -------------------------
(* DirectEchoClient with small values for its constants.                   *)
EXTENDS DirectEchoClient

============================================================================
