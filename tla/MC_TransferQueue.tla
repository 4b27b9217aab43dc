-------------------------- MODULE MC_TransferQueue --------------------------
(***************************************************************************)
(* Instances of TransferQueue for TLC.                                     *)
(***************************************************************************)
EXTENDS TransferQueue
=============================================================================
