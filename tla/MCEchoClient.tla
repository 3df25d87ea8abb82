---------------------------- MODULE MCEchoClient ----------------------------
(* EchoClient with small values for its constants.                         *)
EXTENDS EchoClient

============================================================================
