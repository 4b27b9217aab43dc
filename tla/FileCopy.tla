------------------------------ MODULE FileCopy ------------------------------
(***************************************************************************)
(* What a file transfer promises to the client that asked for it, whatever *)
(* the order of its reads and writes: units of the source arrive at their  *)
(* places and stay there, one message tells how it ended, "end" is told    *)
(* of a complete copy only, and nothing is told once the client cancelled. *)
(* TransferEngine implements it.                                           *)
(***************************************************************************)
EXTENDS Sequences

VARIABLES
  source,     \* the units of the source
  placed,     \* the units that are in their place
  told,       \* the messages sent to the client
  cancelled

vars == <<source, placed, told, cancelled>>

Init == placed = {} /\ told = << >> /\ cancelled = FALSE

Arrive ==
  /\ \E some \in SUBSET (source \ placed) : placed' = placed \cup some
  /\ UNCHANGED <<source, told, cancelled>>

\* the last unit may arrive in the same step
Tell(m) ==
  /\ told = << >> /\ ~cancelled
  /\ told' = <<m>>
  /\ placed \subseteq placed' /\ placed' \subseteq source
  /\ m = "end" => placed' = source
  /\ UNCHANGED <<source, cancelled>>

Cancel ==
  /\ cancelled' = TRUE
  /\ UNCHANGED <<source, placed, told>>

Next == Arrive \/ Tell("end") \/ Tell("err") \/ Cancel

Spec == Init /\ [][Next]_vars
=============================================================================
