------------------------------ MODULE MCLogger ------------------------------
(* Logger with two threads that log and one that calls Flush().             *)
EXTENDS Logger
=============================================================================
