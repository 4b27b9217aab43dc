------------------------- MODULE MC_SessionProcess -------------------------
(***************************************************************************)
(* Instances of SessionProcess for TLC.                                    *)
(***************************************************************************)
EXTENDS SessionProcess, TLC

RequestSymmetry == Permutations(Requests)
=============================================================================
