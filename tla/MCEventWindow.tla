--------------------------- MODULE MCEventWindow ---------------------------
(* EventWindow for TLC.                                                    *)
EXTENDS EventWindow
=============================================================================
