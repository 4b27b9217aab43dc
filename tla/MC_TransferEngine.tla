------------------------- MODULE MC_TransferEngine -------------------------
(***************************************************************************)
(* Instances of TransferEngine for TLC.  Its counters are bounded by the  *)
(* sizes of the files, so it needs no constraint.                          *)
(***************************************************************************)
EXTENDS TransferEngine
=============================================================================
