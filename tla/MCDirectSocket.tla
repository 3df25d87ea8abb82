--------------------------- MODULE MCDirectSocket ---------------------------
(* DirectSocket with small values for its constants.                       *)
EXTENDS DirectSocket

============================================================================
