------------------------- MODULE MCListeningSocket -------------------------
(* ListeningSocket with small values for its constants.                    *)
EXTENDS ListeningSocket

============================================================================
