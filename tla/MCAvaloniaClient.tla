------------------------- MODULE MCAvaloniaClient -------------------------
(* AvaloniaClient for TLC.                                                 *)
EXTENDS AvaloniaClient
=============================================================================
