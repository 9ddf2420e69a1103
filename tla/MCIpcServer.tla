---------------------------- MODULE MCIpcServer ----------------------------
(* Instances of IpcServer for TLC: connections and descriptor numbers are   *)
(* model values.  No symmetry, because the runs check liveness too.         *)
EXTENDS IpcServer
=============================================================================
