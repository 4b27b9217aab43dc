-------------------------- MODULE MC_SessionServer --------------------------
(***************************************************************************)
(* Instances of SessionServer for TLC.                                     *)
(***************************************************************************)
EXTENDS SessionServer
=============================================================================
