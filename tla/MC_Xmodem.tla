------------------------------ MODULE MC_Xmodem ------------------------------
(***************************************************************************)
(* Instances of Xmodem for TLC.                                            *)
(***************************************************************************)
EXTENDS Xmodem
=============================================================================
