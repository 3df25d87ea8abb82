-------------------------- MODULE MCEchoConnection --------------------------
(* EchoConnection with small values for its constants.                     *)
EXTENDS EchoConnection

============================================================================
