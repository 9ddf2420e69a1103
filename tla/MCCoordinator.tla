--------------------------- MODULE MCCoordinator ---------------------------
(* Coordinator for TLC.                                                    *)
EXTENDS Coordinator
=============================================================================
