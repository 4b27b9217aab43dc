---------------------------- MODULE SessionServer ----------------------------
(***************************************************************************)
(* A session process from inside (src/app/server/session-server.js with    *)
(* remote-common.js and global-state.js): the terminal of its tab and what *)
(* it prints, the file sessions opened beside it with their transfers, the *)
(* sockets they are reached by, and the ways the process comes to its end. *)
(* session-process.js sees it as a SessionChild.                           *)
(*                                                                         *)
(* Messages of one socket come in order, those of two sockets in any; a    *)
(* socket that was closed by this side still delivers what was under way.  *)
(***************************************************************************)
EXTENDS Integers, Sequences, Functions

CONSTANTS
  Files,     \* ids of file sessions (sftp or ftp)
  Slots,     \* transfers are named by their file session and a slot
  MaxOutput  \* chunks that the terminal prints: a bound of the model

ASSUME OutputAssumption == MaxOutput \in Nat

Transfers == Files \X Slots

VARIABLES
  life, joined, severed,      \* the process, as in SessionChild; joined is firstWsConnected
  tty,                        \* the terminal: "none", "stored" in the session map, "gone"
  sock,                       \* its socket: "none", "open", "closed"
  made,                       \* how many chunks it has printed
  buffer, due,                \* dataBuffer; whether sendTimeout is set
  inband,                     \* a zmodem, trzsz or xmodem session takes the data
  shown, taken,               \* chunks sent to the tab, and those taken in band
  stored,                     \* file sessions in the session map
  channel,                    \* what a file session holds: "none", "asked", "open", "ended"
  fsock,                      \* its socket: "none", "open", "closing", "closed"
  call,                       \* its last call: "none", "waiting", "unheard"
  listed,                     \* transfers that their session knows
  running,                    \* transfers at work
  tsock                       \* their sockets

process == <<life, joined, severed>>
output == <<made, buffer, due, inband, shown, taken>>
terminal == <<tty, sock, output>>
files == <<stored, channel, fsock, call>>
transfers == <<listed, running, tsock>>
vars == <<process, terminal, files, transfers>>

Chunks == 1 .. MaxOutput

(* Each variable has its type, and the timer is set while chunks wait.     *)
TypeOK ==
  /\ life \in {"starting", "up", "closing", "gone"} /\ joined \in BOOLEAN /\ severed \in BOOLEAN
  /\ tty \in {"none", "stored", "gone"} /\ sock \in {"none", "open", "closed"}
  /\ made \in 0 .. MaxOutput
  /\ buffer \in Seq(Chunks) /\ due = (buffer # << >>) /\ inband \in BOOLEAN
  /\ shown \in Seq(Chunks) /\ taken \in Seq(Chunks)
  /\ stored \subseteq Files
  /\ channel \in [Files -> {"none", "asked", "open", "ended"}]
  /\ fsock \in [Files -> {"none", "open", "closing", "closed"}]
  /\ call \in [Files -> {"none", "waiting", "unheard"}]
  /\ running \subseteq Transfers /\ listed \subseteq Transfers
  /\ tsock \in [Transfers -> {"none", "open", "closing", "closed"}]

Init ==
  /\ life = "starting" /\ joined = FALSE /\ severed = FALSE
  /\ tty = "none" /\ sock = "none"
  /\ made = 0 /\ buffer = << >> /\ due = FALSE /\ inband = FALSE
  /\ shown = << >> /\ taken = << >>
  /\ stored = {} /\ channel = [f \in Files |-> "none"]
  /\ fsock = [f \in Files |-> "none"] /\ call = [f \in Files |-> "none"]
  /\ listed = {} /\ running = {} /\ tsock = [t \in Transfers |-> "none"]

Alive == life \in {"starting", "up"}
Serving == life \in {"up", "closing"}

-----------------------------------------------------------------------------
(* kill() of file sessions: their transfers are destroyed, which closes    *)
(* their sockets, the channel is ended and the session leaves the map.     *)
Kill(fs) ==
  LET hit == fs \cap stored
      theirs == {t \in listed : t[1] \in hit}
  IN  /\ stored' = stored \ hit
      /\ channel' = [f \in Files |-> IF f \in hit /\ channel[f] = "open" THEN "ended" ELSE channel[f]]
      /\ listed' = listed \ theirs
      /\ running' = running \ theirs
      /\ tsock' = [t \in Transfers |-> IF t \in theirs /\ tsock[t] = "open" THEN "closing" ELSE tsock[t]]

(* cleanup(), once: every session in the map is killed.                    *)
Cleanup ==
  IF Alive
  THEN /\ life' = "closing"
       /\ tty' = IF tty = "stored" THEN "gone" ELSE tty
       /\ Kill(stored)
  ELSE UNCHANGED <<life, tty, stored, channel, transfers>>

(* An exception that nobody catches, wherever it is thrown.                *)
Uncaught == Alive /\ Cleanup /\ UNCHANGED <<joined, severed, sock, output, fsock, call>>

-----------------------------------------------------------------------------
(* The process.                                                            *)

Listens ==
  /\ life = "starting"
  /\ life' = "up"
  /\ UNCHANGED <<joined, severed, terminal, files, transfers>>

ServerProcessEnds ==
  /\ severed' = TRUE /\ ~severed
  /\ UNCHANGED <<life, joined, terminal, files, transfers>>

Disconnected == severed /\ Uncaught

\* mutant of Unused: a terminal that was created counts as used
Unused_created == ~joined /\ tty = "none"

Unused == ~joined

(* No session socket within two minutes; those of files do not count.      *)
IdleTimeout == Unused /\ Uncaught

(* Two seconds after cleanup(), or at once if the process is killed.       *)
Exit ==
  /\ life' = "gone"
  /\ sock' = IF sock = "open" THEN "closed" ELSE sock
  /\ fsock' = [f \in Files |-> IF fsock[f] = "none" THEN "none" ELSE "closed"]
  /\ tsock' = [t \in Transfers |-> IF tsock[t] = "none" THEN "none" ELSE "closed"]
  /\ channel' = [f \in Files |-> IF channel[f] = "open" THEN "ended" ELSE channel[f]]
  /\ stored' = {} /\ listed' = {} /\ running' = {}
  /\ tty' = IF tty = "stored" THEN "gone" ELSE tty
  /\ UNCHANGED <<joined, severed, output, call>>

Exits == life = "closing" /\ Exit
Crashes == Alive /\ Exit

-----------------------------------------------------------------------------
(* The terminal.                                                           *)

(* create-terminal over IPC.                                               *)
CreateTerminal ==
  /\ Serving /\ tty = "none"
  /\ tty' = "stored"
  /\ UNCHANGED <<process, sock, output, files, transfers>>

(* /terminals/:pid counts as a connection even if there is no terminal.    *)
TerminalJoins ==
  /\ Serving /\ sock = "none"
  /\ joined' = TRUE
  /\ sock' = IF tty = "stored" THEN "open" ELSE sock
  /\ UNCHANGED <<life, severed, tty, output, files, transfers>>

(* What flushBufferedData() does with the chunks it is given.              *)
Pass(chunks) ==
  IF inband
  THEN taken' = taken \o chunks /\ UNCHANGED shown
  ELSE shown' = shown \o chunks /\ UNCHANGED taken

\* mutant of PassLarge: a large chunk goes out before what waits
PassLarge_first(chunk) ==
  Pass(<<chunk>>) /\ UNCHANGED <<buffer, due>>

\* another mutant of PassLarge: the timer is not stopped
PassLarge_timerKept(chunk) ==
  Pass(Append(buffer, chunk)) /\ buffer' = << >> /\ UNCHANGED due

(* A chunk of more than 16384 bytes sends on what waits, and then itself.  *)
PassLarge(chunk) ==
  Pass(Append(buffer, chunk)) /\ buffer' = << >> /\ due' = FALSE

(* The 'data' event: an in-band session has it at once; else a small chunk *)
(* waits for the timer.                                                    *)
Prints ==
  /\ tty = "stored" /\ sock = "open" /\ made < MaxOutput
  /\ made' = made + 1
  /\ \/ inband /\ Pass(<<made + 1>>) /\ UNCHANGED <<buffer, due>>
     \/ ~inband /\ PassLarge(made + 1)
     \/ ~inband /\ buffer' = Append(buffer, made + 1) /\ due' = TRUE /\ UNCHANGED <<shown, taken>>
  /\ UNCHANGED <<process, tty, sock, inband, files, transfers>>

FlushTimer ==
  /\ due
  /\ Pass(buffer)
  /\ buffer' = << >> /\ due' = FALSE
  /\ UNCHANGED <<process, tty, sock, made, inband, files, transfers>>

(* The client starts an in-band session, and it ends.                      *)
InBand ==
  /\ sock = "open"
  /\ inband' = ~inband
  /\ UNCHANGED <<process, tty, sock, made, buffer, due, shown, taken, files, transfers>>

(* onClose(), for the terminal or its socket: what waits is dropped, and   *)
(* the process with all its sessions ends.                                 *)
TerminalCloses ==
  /\ sock = "open" /\ life # "gone"
  /\ sock' = "closed"
  /\ buffer' = << >> /\ due' = FALSE /\ inband' = FALSE
  /\ IF Alive THEN Cleanup
     ELSE tty' = "gone" /\ UNCHANGED <<life, stored, channel, transfers>>
  /\ UNCHANGED <<joined, severed, made, shown, taken, fsock, call>>

-----------------------------------------------------------------------------
(* File sessions.                                                          *)

(* A socket to /sftp/:id, and sftp-new.                                    *)
FileNew(f) ==
  /\ Serving /\ fsock[f] = "none"
  /\ fsock' = [fsock EXCEPT ![f] = "open"]
  /\ stored' = stored \cup {f}
  /\ UNCHANGED <<process, terminal, channel, call, transfers>>

(* sftp-func: connect, which the client calls first and once, or another   *)
(* one.  A session that is not in the map does not answer.                 *)
FileCall(f) ==
  /\ life # "gone" /\ fsock[f] \in {"open", "closing"} /\ call[f] = "none"
  /\ \/ /\ f \in stored
        /\ call' = [call EXCEPT ![f] = "waiting"]
        /\ channel' = [channel EXCEPT ![f] = IF @ = "none" THEN "asked" ELSE @]
     \/ /\ f \notin stored
        /\ call' = [call EXCEPT ![f] = "unheard"]
        /\ UNCHANGED channel
  /\ UNCHANGED <<process, terminal, stored, fsock, transfers>>

\* mutant of Remembered: connect() leaves the session map alone
Remembered_not(f) == UNCHANGED stored

(* The end of connect(): the session is put into the map, again.           *)
Remembered(f) == stored' = stored \cup {f}

(* The channel is there, or none could be had.                             *)
Connected(f) ==
  /\ life # "gone" /\ channel[f] = "asked"
  /\ \/ channel' = [channel EXCEPT ![f] = "open"] /\ Remembered(f)
     \/ channel' = [channel EXCEPT ![f] = "ended"] /\ UNCHANGED stored
  /\ call' = [call EXCEPT ![f] = "none"]
  /\ UNCHANGED <<process, terminal, fsock, transfers>>

Answered(f) ==
  /\ life # "gone" /\ channel[f] \in {"open", "ended"} /\ call[f] = "waiting"
  /\ call' = [call EXCEPT ![f] = "none"]
  /\ UNCHANGED <<process, terminal, stored, channel, fsock, transfers>>

\* mutant of Dismissed: the socket is left to the client
Dismissed_not(f) == UNCHANGED fsock

Dismissed(f) == fsock' = [fsock EXCEPT ![f] = "closing"]

(* sftp-destroy.                                                           *)
FileDestroy(f) ==
  /\ life # "gone" /\ fsock[f] = "open"
  /\ Dismissed(f)
  /\ Kill({f})
  /\ UNCHANGED <<process, terminal, call>>

(* The 'close' event of the socket.                                        *)
FileCloses(f) ==
  /\ life # "gone" /\ fsock[f] \in {"open", "closing"}
  /\ fsock' = [fsock EXCEPT ![f] = "closed"]
  /\ Kill({f})
  /\ UNCHANGED <<process, terminal, call>>

-----------------------------------------------------------------------------
(* Transfers.                                                              *)

(* onDestroyTransfer(): only a transfer that its session knows is          *)
(* destroyed, which closes its socket.                                     *)
Drop(t) ==
  /\ listed' = listed \ {t}
  /\ running' = IF t \in listed THEN running \ {t} ELSE running
  /\ tsock' = [tsock EXCEPT ![t] = IF @ = "open" /\ t \in listed THEN "closing" ELSE @]

(* A socket to /transfer/:id, and transfer-new, which throws if the file   *)
(* session has left the map.  The client connects first.                   *)
TransferNew(t) ==
  /\ Serving /\ tsock[t] = "none" /\ channel[t[1]] \in {"open", "ended"}
  /\ \/ /\ t[1] \in stored
        /\ tsock' = [tsock EXCEPT ![t] = "open"]
        /\ listed' = listed \cup {t}
        /\ running' = running \cup {t}
        /\ UNCHANGED <<process, terminal, files>>
     \/ t[1] \notin stored /\ Uncaught

(* transfer-func: pause or resume, which throws without the transfer; with *)
(* it, see TransferEngine.                                                 *)
TransferCall(t) ==
  /\ tsock[t] \in {"open", "closing"} /\ t \notin listed
  /\ Uncaught

(* transfer-func: destroy.                                                 *)
TransferDestroy(t) ==
  /\ life # "gone" /\ tsock[t] = "open"
  /\ Drop(t)
  /\ UNCHANGED <<process, terminal, files>>

(* The copy is over; the client will close the socket.                     *)
TransferEnds(t) ==
  /\ t \in running
  /\ running' = running \ {t}
  /\ UNCHANGED <<process, terminal, files, listed, tsock>>

TransferCloses(t) ==
  /\ life # "gone" /\ tsock[t] \in {"open", "closing"}
  /\ tsock' = [tsock EXCEPT ![t] = "closed"]
  /\ listed' = listed \ {t}
  /\ running' = IF t \in listed THEN running \ {t} ELSE running
  /\ UNCHANGED <<process, terminal, files>>

-----------------------------------------------------------------------------
Next ==
  \/ Listens \/ Uncaught \/ ServerProcessEnds \/ Disconnected \/ IdleTimeout \/ Exits \/ Crashes
  \/ CreateTerminal \/ TerminalJoins \/ Prints \/ FlushTimer \/ InBand \/ TerminalCloses
  \/ \E f \in Files :
       FileNew(f) \/ FileCall(f) \/ Connected(f) \/ Answered(f) \/ FileDestroy(f) \/ FileCloses(f)
  \/ \E t \in Transfers :
       TransferNew(t) \/ TransferCall(t) \/ TransferDestroy(t) \/ TransferEnds(t) \/ TransferCloses(t)

Spec == Init /\ [][Next]_vars

(* The process listens or fails to, its timers fire, a closed IPC channel  *)
(* is noticed, and a socket that this side has closed gets its close       *)
(* event.  Clients, servers and users owe nothing.                         *)
FairSpec ==
  /\ Spec
  /\ WF_vars(Listens) /\ WF_vars(Disconnected) /\ WF_vars(IdleTimeout) /\ WF_vars(Exits)
  /\ \A f \in Files : WF_vars(fsock[f] = "closing" /\ FileCloses(f))

-----------------------------------------------------------------------------
(* Nothing is lost from sight: a file channel that is open belongs to a    *)
(* session in the map, also one that came after its session was destroyed, *)
(* and a transfer at work is known to a session in the map, so that its    *)
(* socket, its session or the end of the process still reach it.           *)
Reachable ==
  /\ \A f \in Files : channel[f] = "open" => f \in stored
  /\ \A t \in running : t \in listed /\ t[1] \in stored /\ tsock[t] = "open"

Increasing(s) == \A i, j \in DOMAIN s : i < j => s[i] < s[j]

(* The tab is shown what its terminal printed in that order, whatever the  *)
(* sizes of the chunks and the timer; and as long as it is open every      *)
(* chunk was shown, was taken by an in-band session, or waits.             *)
OutputInOrder ==
  /\ Increasing(shown \o buffer)
  /\ sock = "open" => Range(shown) \cup Range(buffer) \cup Range(taken) = 1 .. made

Child == INSTANCE SessionChild

(* The process keeps the promise of a session process.                     *)
ImplementsSessionChild == Child!Spec

(* The process ends with its terminal; and a call on a file session that   *)
(* is gone, which is never answered, is at least on a socket that closes.  *)
EndsReachTheClient ==
  /\ sock = "closed" ~> life = "gone"
  /\ \A f \in Files : call[f] = "unheard" ~> fsock[f] = "closed"
=============================================================================
