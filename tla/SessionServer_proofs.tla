------------------------ MODULE SessionServer_proofs ------------------------
(***************************************************************************)
(* Proofs about SessionServer: for any number of file sessions, transfers  *)
(* and chunks, what is open stays in reach of a destroy, a close or the    *)
(* end of the process, and the process goes through its life as            *)
(* SessionChild allows.  That it also comes to its end is left to TLC.     *)
(***************************************************************************)
EXTENDS SessionServer, SequenceTheorems, TLAPS

-----------------------------------------------------------------------------
(* The type invariant.                                                     *)

Sockets == {"none", "open", "closing", "closed"}

LEMMA ChunkSequences ==
  /\ << >> \in Seq(Chunks)
  /\ \A c \in Chunks : <<c>> \in Seq(Chunks)
  /\ \A s \in Seq(Chunks), c \in Chunks : Append(s, c) \in Seq(Chunks) /\ Append(s, c) # << >>
  /\ \A s, u \in Seq(Chunks) : s \o u \in Seq(Chunks)
  BY EmptySeq, AppendProperties, ConcatProperties

LEMMA TypeInit == Init => TypeOK
<1> SUFFICES ASSUME Init PROVE TypeOK
  OBVIOUS
<1>1. made \in 0 .. MaxOutput
  BY OutputAssumption DEF Init
<1> QED BY <1>1, ChunkSequences DEF Init, TypeOK

LEMMA KillType ==
  ASSUME NEW fs, TypeOK, Kill(fs)
  PROVE  /\ stored' \subseteq Files
         /\ channel' \in [Files -> {"none", "asked", "open", "ended"}]
         /\ running' \subseteq Transfers /\ listed' \subseteq Transfers
         /\ tsock' \in [Transfers -> Sockets]
<1> USE DEF TypeOK, Kill, Sockets
<1>1. stored' \subseteq Files
  OBVIOUS
<1>2. channel' \in [Files -> {"none", "asked", "open", "ended"}]
  OBVIOUS
<1>3. running' \subseteq Transfers /\ listed' \subseteq Transfers
  OBVIOUS
<1>4. tsock' \in [Transfers -> Sockets]
  OBVIOUS
<1> QED BY <1>1, <1>2, <1>3, <1>4

LEMMA CleanupType ==
  ASSUME TypeOK, Cleanup
  PROVE  /\ life' \in {"starting", "up", "closing", "gone"}
         /\ tty' \in {"none", "stored", "gone"}
         /\ stored' \subseteq Files
         /\ channel' \in [Files -> {"none", "asked", "open", "ended"}]
         /\ running' \subseteq Transfers /\ listed' \subseteq Transfers
         /\ tsock' \in [Transfers -> Sockets]
<1>1. CASE Alive
  BY <1>1, KillType DEF Cleanup, TypeOK
<1>2. CASE ~Alive
  BY <1>2 DEF Cleanup, TypeOK, transfers, Sockets
<1> QED BY <1>1, <1>2

LEMMA UncaughtType == TypeOK /\ Uncaught => TypeOK'
  BY CleanupType DEF Uncaught, output, TypeOK, Sockets

LEMMA ExitType == TypeOK /\ Exit => TypeOK'
<1> SUFFICES ASSUME TypeOK, Exit PROVE TypeOK'
  OBVIOUS
<1> USE DEF TypeOK, Exit, output
<1>1. fsock' \in [Files -> Sockets] /\ tsock' \in [Transfers -> Sockets]
  BY DEF Sockets
<1>2. channel' \in [Files -> {"none", "asked", "open", "ended"}]
  OBVIOUS
<1> QED BY <1>1, <1>2 DEF Sockets

(* Every action keeps every variable in its type; the timer is set as long *)
(* as chunks wait for it.                                                  *)
LEMMA TypeStep == TypeOK /\ [Next]_vars => TypeOK'
<1> SUFFICES ASSUME TypeOK, [Next]_vars PROVE TypeOK'
  OBVIOUS
<1> USE DEF TypeOK, process, output, terminal, files, transfers
<1>1. CASE Listens
  BY <1>1 DEF Listens
<1>2. CASE Uncaught \/ Disconnected \/ IdleTimeout
  BY <1>2, UncaughtType DEF Disconnected, IdleTimeout
<1>3. CASE ServerProcessEnds
  BY <1>3 DEF ServerProcessEnds
<1>4. CASE Exits \/ Crashes
  BY <1>4, ExitType DEF Exits, Crashes
<1>5. CASE CreateTerminal
  BY <1>5 DEF CreateTerminal
<1>6. CASE TerminalJoins
  BY <1>6 DEF TerminalJoins
<1>7. CASE Prints
  <2>1. made + 1 \in Chunks /\ made' \in 0 .. MaxOutput
    BY <1>7, OutputAssumption DEF Prints, Chunks
  <2>2. buffer' \in Seq(Chunks) /\ due' \in BOOLEAN /\ due' = (buffer' # << >>)
    BY <1>7, <2>1, ChunkSequences DEF Prints, PassLarge
  <2>3. /\ <<made + 1>> \in Seq(Chunks)
        /\ Append(buffer, made + 1) \in Seq(Chunks)
    BY <2>1, ChunkSequences
  <2>4. shown' \in Seq(Chunks) /\ taken' \in Seq(Chunks)
    <3>1. ASSUME NEW c \in Seq(Chunks), Pass(c) PROVE shown' \in Seq(Chunks) /\ taken' \in Seq(Chunks)
      BY <3>1, ChunkSequences DEF Pass
    <3> QED BY <1>7, <2>3, <3>1 DEF Prints, PassLarge
  <2> QED BY <1>7, <2>1, <2>2, <2>4 DEF Prints
<1>8. CASE FlushTimer
  <2>1. shown' \in Seq(Chunks) /\ taken' \in Seq(Chunks)
    BY <1>8, ChunkSequences DEF FlushTimer, Pass
  <2> QED BY <1>8, <2>1, ChunkSequences DEF FlushTimer
<1>9. CASE InBand
  BY <1>9 DEF InBand
<1>10. CASE TerminalCloses
  <2>1. buffer' = << >> /\ due' = FALSE /\ buffer' \in Seq(Chunks)
    BY <1>10, ChunkSequences DEF TerminalCloses
  <2>2. CASE Alive
    BY <1>10, <2>1, <2>2, CleanupType DEF TerminalCloses, Sockets
  <2>3. CASE ~Alive
    BY <1>10, <2>1, <2>3 DEF TerminalCloses
  <2> QED BY <2>2, <2>3
<1>11. ASSUME NEW f \in Files, FileNew(f) PROVE TypeOK'
  BY <1>11 DEF FileNew
<1>12. ASSUME NEW f \in Files, FileCall(f) PROVE TypeOK'
  BY <1>12 DEF FileCall
<1>13. ASSUME NEW f \in Files, Connected(f) PROVE TypeOK'
  BY <1>13 DEF Connected, Remembered
<1>14. ASSUME NEW f \in Files, Answered(f) PROVE TypeOK'
  BY <1>14 DEF Answered
<1>15. ASSUME NEW f \in Files, FileDestroy(f) \/ FileCloses(f) PROVE TypeOK'
  <2>1. fsock' \in [Files -> Sockets]
    BY <1>15 DEF FileDestroy, FileCloses, Dismissed, Sockets
  <2> QED BY <1>15, <2>1, KillType DEF FileDestroy, FileCloses, Sockets
<1>16. ASSUME NEW t \in Transfers, TransferNew(t) PROVE TypeOK'
  <2>1. CASE Uncaught
    BY <2>1, UncaughtType
  <2>2. CASE ~Uncaught
    BY <1>16, <2>2 DEF TransferNew
  <2> QED BY <2>1, <2>2
<1>17. ASSUME NEW t \in Transfers, TransferCall(t) PROVE TypeOK'
  BY <1>17, UncaughtType DEF TransferCall
<1>18. ASSUME NEW t \in Transfers, TransferDestroy(t) PROVE TypeOK'
  BY <1>18 DEF TransferDestroy, Drop
<1>19. ASSUME NEW t \in Transfers, TransferEnds(t) PROVE TypeOK'
  BY <1>19 DEF TransferEnds
<1>20. ASSUME NEW t \in Transfers, TransferCloses(t) PROVE TypeOK'
  BY <1>20 DEF TransferCloses
<1>21. CASE UNCHANGED vars
  BY <1>21 DEF vars
<1> QED
  BY <1>1, <1>2, <1>3, <1>4, <1>5, <1>6, <1>7, <1>8, <1>9, <1>10, <1>11, <1>12, <1>13, <1>14,
     <1>15, <1>16, <1>17, <1>18, <1>19, <1>20, <1>21 DEF Next

-----------------------------------------------------------------------------
(* What is open is in reach.                                               *)

(* A session that is killed leaves the map, and its channel and transfers  *)
(* with it: none of them is open and out of reach afterwards.              *)
LEMMA KillKeepsReach ==
  ASSUME NEW fs, TypeOK, Reachable, Kill(fs)
  PROVE  Reachable'
<1> DEFINE hit == fs \cap stored
           theirs == {t \in listed : t[1] \in hit}
<1>1. /\ stored' = stored \ hit
      /\ channel' = [f \in Files |-> IF f \in hit /\ channel[f] = "open" THEN "ended" ELSE channel[f]]
      /\ listed' = listed \ theirs
      /\ running' = running \ theirs
      /\ tsock' = [t \in Transfers |-> IF t \in theirs /\ tsock[t] = "open" THEN "closing" ELSE tsock[t]]
  BY DEF Kill
<1>2. ASSUME NEW f \in Files, channel'[f] = "open" PROVE f \in stored'
  <2>1. channel[f] = "open" /\ f \notin hit
    BY <1>1, <1>2
  <2> QED BY <1>1, <2>1 DEF Reachable
<1>3. ASSUME NEW t \in running' PROVE t \in listed' /\ t[1] \in stored' /\ tsock'[t] = "open"
  <2>1. t \in running /\ t \notin theirs
    BY <1>1, <1>3
  <2>2. t \in listed /\ t[1] \in stored /\ tsock[t] = "open" /\ t \in Transfers
    BY <2>1 DEF Reachable, TypeOK
  <2>3. t[1] \notin hit
    BY <2>1, <2>2
  <2> QED BY <1>1, <2>1, <2>2, <2>3
<1> QED BY <1>2, <1>3 DEF Reachable

(* cleanup() kills, or changes nothing that Reachable is about.            *)
LEMMA CleanupKeepsReach ==
  ASSUME TypeOK, Reachable, Cleanup
  PROVE  Reachable'
<1>1. CASE Alive
  BY <1>1, KillKeepsReach DEF Cleanup
<1>2. CASE ~Alive
  BY <1>2 DEF Cleanup, transfers, Reachable
<1> QED BY <1>1, <1>2

LEMMA UncaughtKeepsReach == TypeOK /\ Reachable /\ Uncaught => Reachable'
  BY CleanupKeepsReach DEF Uncaught

(* Each action keeps Reachable: those that open something put it into the  *)
(* map, those that take from the map end what it held.                     *)
LEMMA ReachStep == TypeOK /\ Reachable /\ [Next]_vars => Reachable'
<1> SUFFICES ASSUME TypeOK, Reachable, [Next]_vars PROVE Reachable'
  OBVIOUS
<1> USE DEF Reachable, process, output, terminal, files, transfers
<1>1. CASE Listens \/ ServerProcessEnds
  BY <1>1 DEF Listens, ServerProcessEnds
<1>2. CASE Uncaught \/ Disconnected \/ IdleTimeout
  BY <1>2, UncaughtKeepsReach DEF Disconnected, IdleTimeout
<1>3. CASE Exits \/ Crashes
  BY <1>3 DEF Exits, Crashes, Exit, TypeOK
<1>4. CASE CreateTerminal \/ TerminalJoins \/ Prints \/ FlushTimer \/ InBand
  BY <1>4 DEF CreateTerminal, TerminalJoins, Prints, FlushTimer, InBand
<1>5. CASE TerminalCloses
  BY <1>5, CleanupKeepsReach DEF TerminalCloses
<1>6. ASSUME NEW f \in Files, FileNew(f) \/ FileCall(f) \/ Answered(f) PROVE Reachable'
  BY <1>6 DEF FileNew, FileCall, Answered, TypeOK
<1>7. ASSUME NEW f \in Files, Connected(f) PROVE Reachable'
  BY <1>7 DEF Connected, Remembered, TypeOK
<1>8. ASSUME NEW f \in Files, FileDestroy(f) \/ FileCloses(f) PROVE Reachable'
  BY <1>8, KillKeepsReach DEF FileDestroy, FileCloses
<1>9. ASSUME NEW t \in Transfers, TransferNew(t) PROVE Reachable'
  <2>1. CASE Uncaught
    BY <2>1, UncaughtKeepsReach
  <2>2. CASE ~Uncaught
    BY <1>9, <2>2 DEF TransferNew, TypeOK
  <2> QED BY <2>1, <2>2
<1>10. ASSUME NEW t \in Transfers, TransferCall(t) PROVE Reachable'
  BY <1>10, UncaughtKeepsReach DEF TransferCall
<1>11. ASSUME NEW t \in Transfers, TransferDestroy(t) \/ TransferCloses(t) PROVE Reachable'
  BY <1>11 DEF TransferDestroy, Drop, TransferCloses, TypeOK
<1>12. ASSUME NEW t \in Transfers, TransferEnds(t) PROVE Reachable'
  BY <1>12 DEF TransferEnds
<1>13. CASE UNCHANGED vars
  BY <1>13 DEF vars
<1> QED
  BY <1>1, <1>2, <1>3, <1>4, <1>5, <1>6, <1>7, <1>8, <1>9, <1>10, <1>11, <1>12, <1>13 DEF Next

(* The type invariant holds, for any number of sessions and chunks.        *)
THEOREM TypeCorrect == Spec => []TypeOK
  BY TypeInit, TypeStep, PTL DEF Spec

(* An open file channel belongs to a session in the map, also when the     *)
(* session was destroyed while it connected, and a transfer at work is     *)
(* known to one: kill(), cleanup() and the close of a socket reach all     *)
(* there is to end.                                                        *)
THEOREM NothingOutOfReach == Spec => []Reachable
<1>1. Init => Reachable
  BY DEF Init, Reachable
<1> QED BY <1>1, TypeInit, TypeStep, ReachStep, PTL DEF Spec

-----------------------------------------------------------------------------
(* The order of the output.                                                *)

(* Before the socket is there nothing has been printed.                    *)
FreshTerminal ==
  sock = "none" => made = 0 /\ shown = << >> /\ buffer = << >> /\ taken = << >>

OutputInv == OutputInOrder /\ FreshTerminal

LEMMA IncreasingPrefix ==
  ASSUME NEW s \in Seq(Chunks), NEW u \in Seq(Chunks), Increasing(s \o u)
  PROVE  Increasing(s)
<1>1. /\ Len(s) \in Nat /\ DOMAIN s = 1 .. Len(s)
      /\ Len(u) \in Nat
      /\ s \o u \in Seq(Chunks) /\ Len(s \o u) = Len(s) + Len(u)
      /\ \A i \in 1 .. Len(s) + Len(u) : (s \o u)[i] = IF i <= Len(s) THEN s[i] ELSE u[i - Len(s)]
  BY ConcatProperties, LenProperties
<1>2. DOMAIN (s \o u) = 1 .. Len(s) + Len(u)
  BY <1>1, LenProperties
<1> QED BY <1>1, <1>2 DEF Increasing

(* A chunk that is younger than all others goes to the end.                *)
LEMMA IncreasingAppend ==
  ASSUME NEW s \in Seq(Chunks), NEW m \in Nat, m + 1 \in Chunks,
         Increasing(s), Range(s) \subseteq 1 .. m
  PROVE  Increasing(Append(s, m + 1))
<1> DEFINE k == Append(s, m + 1)
<1>1. /\ k \in Seq(Chunks) /\ Len(k) = Len(s) + 1 /\ Len(s) \in Nat
      /\ \A i \in 1 .. Len(s) : k[i] = s[i]
      /\ k[Len(s) + 1] = m + 1
  BY AppendProperties, LenProperties
<1>2. DOMAIN k = 1 .. Len(s) + 1 /\ DOMAIN s = 1 .. Len(s)
  BY <1>1, LenProperties
<1>3. \A i \in 1 .. Len(s) : s[i] \in 1 .. m
  BY <1>2 DEF Range
<1> SUFFICES ASSUME NEW i \in DOMAIN k, NEW j \in DOMAIN k, i < j PROVE k[i] < k[j]
  BY DEF Increasing
<1>4. i \in 1 .. Len(s)
  BY <1>1, <1>2
<1>5. CASE j = Len(s) + 1
  BY <1>1, <1>3, <1>4, <1>5
<1>6. CASE j \in 1 .. Len(s)
  BY <1>1, <1>2, <1>4, <1>6 DEF Increasing
<1> QED BY <1>1, <1>2, <1>5, <1>6

LEMMA RangeAppend ==
  ASSUME NEW s \in Seq(Chunks), NEW c \in Chunks
  PROVE  Range(Append(s, c)) = Range(s) \cup {c}
<1>1. <<c>> \in Seq(Chunks) /\ Append(s, c) = s \o <<c>>
  BY ChunkSequences, AppendIsConcat
<1>2. Range(<<c>>) = {c}
  BY DEF Range
<1>3. Range(s \o <<c>>) = Range(s) \cup Range(<<c>>)
  BY <1>1, RangeConcatenation
<1> QED BY <1>1, <1>2, <1>3

LEMMA RangeEmpty == Range(<< >>) = {}
  BY DEF Range

(* Whatever the size of the chunk, it comes after all that was printed.    *)
LEMMA PrintsKeepsOrder == TypeOK /\ OutputInv /\ Prints => OutputInv'
<1> SUFFICES ASSUME TypeOK, OutputInv, Prints PROVE OutputInv'
  OBVIOUS
<1> DEFINE c == made + 1
<1>1. /\ sock = "open" /\ sock' = "open" /\ made' = c /\ made \in Nat /\ c \in Chunks
      /\ 1 .. c = (1 .. made) \cup {c}
      /\ shown \in Seq(Chunks) /\ buffer \in Seq(Chunks) /\ taken \in Seq(Chunks)
  BY OutputAssumption DEF Prints, TypeOK, Chunks
<1>2. /\ Increasing(shown \o buffer)
      /\ Range(shown) \cup Range(buffer) \cup Range(taken) = 1 .. made
  BY <1>1 DEF OutputInv, OutputInOrder
<1>3. /\ shown \o buffer \in Seq(Chunks)
      /\ Range(shown \o buffer) \subseteq 1 .. made
  BY <1>1, <1>2, ConcatProperties, RangeConcatenation
<1>4. /\ shown \o Append(buffer, c) = Append(shown \o buffer, c)
      /\ Append(buffer, c) \in Seq(Chunks)
      /\ Range(Append(buffer, c)) = Range(buffer) \cup {c}
  <2>1. <<c>> \in Seq(Chunks) /\ Append(buffer, c) \in Seq(Chunks)
    BY <1>1, ChunkSequences
  <2>2. Append(buffer, c) = buffer \o <<c>> /\ Append(shown \o buffer, c) = (shown \o buffer) \o <<c>>
    BY <1>1, <1>3, AppendIsConcat
  <2>3. (shown \o buffer) \o <<c>> = shown \o (buffer \o <<c>>)
    BY <1>1, <2>1, ConcatAssociative
  <2> QED BY <1>1, <2>1, <2>2, <2>3, RangeAppend
<1>5. Increasing(shown \o Append(buffer, c))
  BY <1>1, <1>2, <1>3, <1>4, IncreasingAppend
<1>6. CASE inband
  <2>1. shown' = shown /\ buffer' = buffer /\ taken' = taken \o <<c>>
    BY <1>6 DEF Prints, Pass
  <2>2. Range(taken') = Range(taken) \cup {c}
    <3>1. taken \o <<c>> = Append(taken, c)
      BY <1>1, AppendIsConcat
    <3> QED BY <1>1, <2>1, <3>1, RangeAppend
  <2> QED BY <1>1, <1>2, <2>1, <2>2 DEF OutputInv, OutputInOrder, FreshTerminal
<1>7. CASE ~inband /\ PassLarge(c)
  <2>1. shown' = shown \o Append(buffer, c) /\ buffer' = << >> /\ taken' = taken
    BY <1>7 DEF PassLarge, Pass
  <2>2. shown' \in Seq(Chunks) /\ shown' \o buffer' = shown' /\ Range(shown') = Range(shown) \cup Range(buffer) \cup {c}
    <3>1. shown' \in Seq(Chunks)
      BY <1>1, <1>4, <2>1, ConcatProperties
    <3>2. shown' \o << >> = shown'
      BY <3>1, ConcatEmptySeq
    <3>3. Range(shown \o Append(buffer, c)) = Range(shown) \cup Range(Append(buffer, c))
      BY <1>1, <1>4, RangeConcatenation
    <3> QED BY <1>4, <2>1, <3>1, <3>2, <3>3
  <2>3. Range(shown') \cup Range(buffer') \cup Range(taken') = 1 .. made'
    BY <1>1, <1>2, <2>1, <2>2, RangeEmpty
  <2> QED BY <1>1, <1>5, <2>1, <2>2, <2>3 DEF OutputInv, OutputInOrder, FreshTerminal
<1>8. CASE ~inband /\ buffer' = Append(buffer, c) /\ UNCHANGED <<shown, taken>>
  BY <1>1, <1>2, <1>4, <1>5, <1>8 DEF OutputInv, OutputInOrder, FreshTerminal
<1> QED BY <1>6, <1>7, <1>8 DEF Prints

LEMMA FlushKeepsOrder == TypeOK /\ OutputInv /\ FlushTimer => OutputInv'
<1> SUFFICES ASSUME TypeOK, OutputInv, FlushTimer PROVE OutputInv'
  OBVIOUS
<1>1. /\ shown \in Seq(Chunks) /\ buffer \in Seq(Chunks) /\ taken \in Seq(Chunks)
      /\ buffer' = << >> /\ made' = made /\ sock' = sock /\ sock # "none"
  BY DEF FlushTimer, TypeOK, OutputInv, FreshTerminal
<1>2. CASE inband
  <2>1. shown' = shown /\ taken' = taken \o buffer
    BY <1>2 DEF FlushTimer, Pass
  <2>2. Increasing(shown') /\ shown' \o buffer' = shown'
    BY <1>1, <2>1, IncreasingPrefix, ConcatEmptySeq DEF OutputInv, OutputInOrder
  <2>3. Range(shown') \cup Range(buffer') \cup Range(taken') = Range(shown) \cup Range(buffer) \cup Range(taken)
    BY <1>1, <2>1, RangeConcatenation, RangeEmpty
  <2> QED BY <1>1, <2>2, <2>3 DEF OutputInv, OutputInOrder, FreshTerminal
<1>3. CASE ~inband
  <2>1. shown' = shown \o buffer /\ taken' = taken
    BY <1>3 DEF FlushTimer, Pass
  <2>2. Increasing(shown') /\ shown' \o buffer' = shown'
    BY <1>1, <2>1, ConcatProperties, ConcatEmptySeq DEF OutputInv, OutputInOrder
  <2>3. Range(shown') \cup Range(buffer') \cup Range(taken') = Range(shown) \cup Range(buffer) \cup Range(taken)
    BY <1>1, <2>1, RangeConcatenation, RangeEmpty
  <2> QED BY <1>1, <2>2, <2>3 DEF OutputInv, OutputInOrder, FreshTerminal
<1> QED BY <1>2, <1>3

LEMMA OrderStep == TypeOK /\ OutputInv /\ [Next]_vars => OutputInv'
<1> SUFFICES ASSUME TypeOK, OutputInv, [Next]_vars PROVE OutputInv'
  OBVIOUS
<1>1. ASSUME UNCHANGED <<made, buffer, shown, taken>>, sock' = sock \/ (sock' = "closed" /\ sock # "none") PROVE OutputInv'
  BY <1>1 DEF OutputInv, OutputInOrder, FreshTerminal
<1>2. CASE Prints
  BY <1>2, PrintsKeepsOrder
<1>3. CASE FlushTimer
  BY <1>3, FlushKeepsOrder
<1>4. CASE TerminalJoins
  <2>1. UNCHANGED output /\ made = 0 /\ shown = << >> /\ buffer = << >> /\ taken = << >>
    BY <1>4 DEF TerminalJoins, OutputInv, FreshTerminal
  <2>2. Range(shown) \cup Range(buffer) \cup Range(taken) = 1 .. made
    BY <2>1, RangeEmpty
  <2>3. CASE sock' = "open"
    BY <2>1, <2>2, <2>3 DEF OutputInv, OutputInOrder, FreshTerminal, output
  <2>4. CASE sock' = sock
    BY <2>1, <2>4, <1>1 DEF output
  <2> QED BY <1>4, <2>3, <2>4 DEF TerminalJoins
<1>5. CASE TerminalCloses
  <2>1. /\ shown \in Seq(Chunks) /\ buffer \in Seq(Chunks) /\ buffer' = << >>
        /\ shown' = shown /\ sock' = "closed"
    BY <1>5 DEF TerminalCloses, TypeOK
  <2> QED BY <2>1, IncreasingPrefix, ConcatEmptySeq DEF OutputInv, OutputInOrder, FreshTerminal
<1>6. CASE InBand
  BY <1>6, <1>1 DEF InBand
<1>7. CASE Exits \/ Crashes
  BY <1>7, <1>1 DEF Exits, Crashes, Exit, output
<1>8. CASE Listens \/ ServerProcessEnds \/ Uncaught \/ Disconnected \/ IdleTimeout \/ CreateTerminal
  BY <1>8, <1>1 DEF Listens, ServerProcessEnds, Uncaught, Disconnected, IdleTimeout, CreateTerminal, terminal, output
<1>9. ASSUME NEW f \in Files,
             FileNew(f) \/ FileCall(f) \/ Connected(f) \/ Answered(f) \/ FileDestroy(f) \/ FileCloses(f)
      PROVE  OutputInv'
  BY <1>9, <1>1 DEF FileNew, FileCall, Connected, Answered, FileDestroy, FileCloses, terminal, output
<1>10. ASSUME NEW t \in Transfers,
              TransferNew(t) \/ TransferCall(t) \/ TransferDestroy(t) \/ TransferEnds(t) \/ TransferCloses(t)
       PROVE  OutputInv'
  BY <1>10, <1>1 DEF TransferNew, TransferCall, TransferDestroy, TransferEnds, TransferCloses, Uncaught, terminal, output
<1>11. CASE UNCHANGED vars
  BY <1>11, <1>1 DEF vars, terminal, output
<1> QED
  BY <1>2, <1>3, <1>4, <1>5, <1>6, <1>7, <1>8, <1>9, <1>10, <1>11 DEF Next

(* The tab is shown its terminal's output in order, and while its socket   *)
(* is open none of it is missing, for any number of chunks, large or       *)
(* small, and any work of the 10 ms timer.                                 *)
THEOREM OutputKeepsOrder == Spec => []OutputInOrder
<1>1. Init => OutputInv
  <2> SUFFICES ASSUME Init PROVE OutputInv
    OBVIOUS
  <2>1. shown \o buffer = << >>
    BY ChunkSequences, ConcatEmptySeq DEF Init
  <2>2. Increasing(<< >>)
    BY DEF Increasing
  <2> QED BY <2>1, <2>2 DEF Init, OutputInv, OutputInOrder, FreshTerminal
<1>2. OutputInv => OutputInOrder
  BY DEF OutputInv
<1> QED BY <1>1, <1>2, TypeInit, TypeStep, OrderStep, PTL DEF Spec

-----------------------------------------------------------------------------
(* The life of the process.                                                *)

(* cleanup() and exit are the arrows of SessionChild; the terminal's       *)
(* socket counts as a connection only while the process serves.            *)
LEMMA LifeStep == [Next]_vars => [Child!Next]_(Child!vars)
<1> SUFFICES ASSUME [Next]_vars PROVE [Child!Next]_(Child!vars)
  OBVIOUS
<1> USE DEF Child!Next, Child!vars, Child!Arrows, process, Alive, Serving
<1>1. ASSUME UNCHANGED process PROVE [Child!Next]_(Child!vars)
  BY <1>1
<1>2. ASSUME Uncaught PROVE [Child!Next]_(Child!vars)
  BY <1>2 DEF Uncaught, Cleanup
<1>3. CASE Listens \/ ServerProcessEnds
  BY <1>3 DEF Listens, ServerProcessEnds
<1>4. CASE Disconnected \/ IdleTimeout
  BY <1>4, <1>2 DEF Disconnected, IdleTimeout
<1>5. CASE Exits \/ Crashes
  BY <1>5 DEF Exits, Crashes, Exit
<1>6. CASE TerminalJoins
  BY <1>6 DEF TerminalJoins
<1>7. CASE TerminalCloses
  BY <1>7 DEF TerminalCloses, Cleanup
<1>8. CASE CreateTerminal \/ Prints \/ FlushTimer \/ InBand
  BY <1>8, <1>1 DEF CreateTerminal, Prints, FlushTimer, InBand
<1>9. ASSUME NEW f \in Files,
             FileNew(f) \/ FileCall(f) \/ Connected(f) \/ Answered(f) \/ FileDestroy(f) \/ FileCloses(f)
      PROVE  [Child!Next]_(Child!vars)
  BY <1>9, <1>1 DEF FileNew, FileCall, Connected, Answered, FileDestroy, FileCloses
<1>10. ASSUME NEW t \in Transfers,
              TransferNew(t) \/ TransferCall(t) \/ TransferDestroy(t) \/ TransferEnds(t) \/ TransferCloses(t)
       PROVE  [Child!Next]_(Child!vars)
  BY <1>10, <1>1, <1>2 DEF TransferNew, TransferCall, TransferDestroy, TransferEnds, TransferCloses
<1>11. CASE UNCHANGED vars
  BY <1>11, <1>1 DEF vars
<1> QED
  BY <1>2, <1>3, <1>4, <1>5, <1>6, <1>7, <1>8, <1>9, <1>10, <1>11 DEF Next

(* The safety part of ImplementsSessionChild: with any number of file      *)
(* sessions and transfers the process goes through the life that the       *)
(* registry counts on, once, and is joined only while it serves.           *)
THEOREM LivesAsSessionChild == Spec => Child!Init /\ [][Child!Next]_(Child!vars)
<1>1. Init => Child!Init
  BY DEF Init, Child!Init
<1> QED BY <1>1, LifeStep, PTL DEF Spec
=============================================================================
