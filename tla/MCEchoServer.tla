---------------------------- MODULE MCEchoServer ----------------------------
(* EchoServer with small values for its constants.                         *)
EXTENDS EchoServer

============================================================================
