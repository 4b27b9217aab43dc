------------------------------- MODULE Xmodem -------------------------------
(***************************************************************************)
(* XMODEM over a serial line (src/app/server/xmodem.js): one session of    *)
(* XmodemSession that sends a file to a device or receives one, the line,  *)
(* which loses and damages what it carries, and the device, which keeps to *)
(* the protocol.  Data is counted in units; a packet carries BlockSize of  *)
(* them (128 bytes in the code), the last one filled up with Pad, and ends *)
(* with a CRC or, one byte shorter, with a checksum.  What is damaged does *)
(* not pass either check.                                                  *)
(*                                                                         *)
(* Timers are long: electerm's ten seconds and the device's patience end   *)
(* when nothing is under way on the line.  Progress reports are left out.  *)
(***************************************************************************)
EXTENDS Integers, Sequences, SequencesExt

CONSTANTS
  Sizes,       \* sizes of files, in units
  BlockSize,   \* 128 bytes in the code
  Modulus,     \* block numbers are one byte, 256
  MaxRetries,  \* MAX_RETRIES, 10
  MaxTries,    \* how often the device asks or repeats before it gives up
  MaxFaults    \* how much the line loses or damages: a bound of the model

ASSUME SizesAssumption ==
  /\ Sizes \subseteq Nat
  /\ BlockSize \in Nat \ {0} /\ Modulus \in Nat \ {0, 1, 2}
  /\ MaxRetries \in Nat /\ MaxTries \in Nat /\ MaxFaults \in Nat

Pad == 0

VARIABLES
  mode,        \* what the user asked for: "send" or "receive"
  size,        \* size of the file that is to be copied
  state,       \* XMODEM_STATE; waiting_save_path and waiting_files are never set
  given,       \* pendingFiles or savePath: "no", its message is "coming", "yes"
  timer,       \* "receive", "send" or "none"
  retries,
  useCrc,      \* packets end with a CRC, else with a checksum
  block,       \* sendBlock or expectedBlock
  sentBytes,
  buffered,    \* receiveBuffer holds what may be the beginning of a packet
  saved,       \* the blocks written to the file that is received
  outcome,     \* the event the client was sent
  toDevice, toElecterm, faults,
  dev,         \* the device: its state, its check, its block, repetitions and file
  slips        \* a history variable: what is known to go wrong has happened

session == <<state, given, timer, retries, useCrc, block, sentBytes, buffered, saved, outcome,
             slips>>
vars == <<mode, size, session, toDevice, toElecterm, faults, dev>>

Blocks == (size + BlockSize - 1) \div BlockSize

(* The units of a packet that is read at an offset of the file.            *)
Data(offset) == [i \in 1 .. BlockSize |-> IF offset + i <= size THEN offset + i ELSE Pad]

Whole == [b \in 1 .. Blocks |-> Data((b - 1) * BlockSize)]

Byte(kind) == [kind |-> kind]
Packet(crc, number, data) ==
  [kind |-> "packet", crc |-> crc, number |-> number % Modulus, data |-> data]

DataBlocks == [1 .. BlockSize -> 0 .. size]

(* A damaged packet that has its length, one that has lost its first byte  *)
(* and one that has lost another are different to who listens.             *)
Packets == [kind : {"packet"}, crc : BOOLEAN, number : 0 .. Modulus - 1, data : DataBlocks]
ForDevice == Packets \cup [kind : {"damaged", "EOT", "ACK", "NAK", "CAN"}]
ForElecterm ==
  Packets \cup [kind : {"damaged", "headless", "short", "C", "EOT", "ACK", "NAK", "CAN"}]

TypeOK ==
  /\ mode \in {"send", "receive"} /\ size \in Sizes
  /\ state \in {"idle", "waiting_remote", "receiving", "sending"}
  /\ given \in {"no", "coming", "yes"}
  /\ timer \in {"none", "receive", "send"}
  /\ retries \in 0 .. MaxRetries /\ useCrc \in BOOLEAN /\ buffered \in BOOLEAN
  /\ block \in 1 .. Blocks + 1 /\ sentBytes \in 0 .. size
  /\ saved \in Seq(DataBlocks)
  /\ outcome \in {"none", "complete", "error", "ended"}
  /\ toDevice \in Seq(ForDevice) /\ toElecterm \in Seq(ForElecterm)
  /\ faults \in 0 .. MaxFaults
  /\ dev \in [state : {"off", "on", "done", "aborted"}, crc : BOOLEAN,
              block : 1 .. Blocks + 1, tries : 0 .. MaxTries, file : Seq(DataBlocks)]
  /\ slips \subseteq {"rewound", "doubled", "early", "unsaved", "misread"}

Init ==
  /\ mode \in {"send", "receive"} /\ size \in Sizes
  /\ state = "idle" /\ given = "no" /\ timer = "none" /\ retries = 0 /\ useCrc = TRUE
  /\ block = 1 /\ sentBytes = 0 /\ buffered = FALSE /\ saved = << >> /\ outcome = "none"
  /\ toDevice = << >> /\ toElecterm = << >> /\ faults = 0
  /\ \E crc \in BOOLEAN :
       dev = [state |-> "off", crc |-> crc, block |-> 1, tries |-> 0, file |-> << >>]
  /\ slips = {}

-----------------------------------------------------------------------------
Write(kind) == toDevice' = Append(toDevice, Byte(kind))

(* endSession() and resetState(): the client is told how it went.          *)
End(how) ==
  /\ state' = "idle" /\ timer' = "none" /\ retries' = 0
  /\ given' = IF given = "yes" THEN "no" ELSE given
  /\ block' = 1 /\ sentBytes' = 0 /\ buffered' = FALSE /\ outcome' = how
  /\ UNCHANGED saved

Quiet == toDevice = << >> /\ toElecterm = << >>

\* mutant of Exhausted: the limit is passed by one
Exhausted_offByOne == retries > MaxRetries

Exhausted == retries >= MaxRetries

others == <<mode, size, faults, dev>>
fixed == <<useCrc, others>>

(* startSend() and startReceive(): the session listens.                    *)
Start ==
  /\ state = "idle" /\ outcome = "none"
  /\ state' = "waiting_remote" /\ given' = "coming" /\ timer' = "receive"
  /\ useCrc' = (useCrc \/ mode = "receive")
  /\ UNCHANGED <<retries, block, sentBytes, buffered, saved, outcome, slips>>
  /\ UNCHANGED <<toDevice, toElecterm, others>>

(* setSendFiles() and setSavePath(): the client's next message.  The line  *)
(* may be heard before it.  A path makes the session wait again, also one  *)
(* that receives already or has ended, unless a packet is half received.   *)
Give ==
  /\ given = "coming"
  /\ given' = "yes"
  /\ state' = IF mode = "receive" /\ ~buffered THEN "waiting_remote" ELSE state
  /\ timer' = IF state' = "waiting_remote" THEN "receive" ELSE timer
  /\ UNCHANGED <<retries, block, sentBytes, buffered, saved, outcome, slips>>
  /\ UNCHANGED <<toDevice, toElecterm, fixed>>

(* cancel() by the user; destroy() says nothing to the device.             *)
Cancel ==
  /\ state # "idle"
  /\ \/ Write("CAN")
     \/ UNCHANGED toDevice
  /\ End("ended")
  /\ UNCHANGED <<slips, toElecterm, fixed>>

-----------------------------------------------------------------------------
(* Sending.                                                                *)

Least(a, b) == IF a < b THEN a ELSE b

(* sendNextPacket(): the packet at an offset, or EOT after the last one,   *)
(* at which the session is over; or the file cannot be opened or read.     *)
SendNext(crc, offset, number, tries) ==
  \/ /\ offset < size
     /\ toDevice' = Append(toDevice, Packet(crc, number, Data(offset)))
     /\ state' = "sending" /\ timer' = "send" /\ retries' = tries /\ block' = number
     /\ sentBytes' = Least(offset + BlockSize, size)
     /\ UNCHANGED <<given, buffered, saved, outcome>>
  \/ offset >= size /\ Write("EOT") /\ End("complete")
  \/ Write("CAN") /\ End("ended")

\* mutant of Rewound: the packet that was sent is taken for received
Rewound_not(offset) == offset

(* One packet back, whatever the size of the last one was.                 *)
Rewound(offset) == IF offset < BlockSize THEN 0 ELSE offset - BlockSize

Rewinds(offset) == IF offset > BlockSize /\ offset % BlockSize # 0 THEN {"rewound"} ELSE {}

(* A packet is sent again while it, or the device's word that it has taken *)
(* it, is under way.                                                       *)
Doubles ==
  LET answers(line) == \E i \in DOMAIN line : line[i].kind = "ACK"
      packets(line) == \E i \in DOMAIN line : line[i].kind \in {"packet", "damaged"}
  IN  IF answers(toElecterm') \/ packets(toDevice) THEN {"doubled"} ELSE {}

(* The bytes of the given kinds in a chunk of k, and the first of them.    *)
Heard(k, kinds) == {i \in 1 .. k : toElecterm[i].kind \in kinds}

First(kind, heard) == \E i \in heard : toElecterm[i].kind = kind /\ \A j \in heard : i <= j

(* handleSendWaitData(): the first request in a chunk starts the file and  *)
(* tells how its packets end.  Before the files are given, the bytes are   *)
(* skipped.                                                                *)
HearRequest(k) ==
  /\ mode = "send" /\ state = "waiting_remote"
  /\ toElecterm' = SubSeq(toElecterm, k + 1, Len(toElecterm))
  /\ LET requests == Heard(k, {"NAK", "C"})
         crc == First("C", requests)
     IN  IF given = "yes" /\ requests # {}
         THEN SendNext(crc, 0, 1, 0) /\ useCrc' = crc
         ELSE UNCHANGED <<state, given, timer, retries, useCrc, block, sentBytes, buffered, saved,
                          outcome, toDevice>>
  /\ UNCHANGED <<slips, others>>

(* handleSendResponse(): the first answer in a chunk counts, the rest of   *)
(* the chunk is dropped; without an answer the timer is stopped all the    *)
(* same.  A second request for the file is taken for a refusal.            *)
HearReply(k) ==
  /\ mode = "send" /\ state = "sending"
  /\ toElecterm' = SubSeq(toElecterm, k + 1, Len(toElecterm))
  /\ LET answers == Heard(k, {"ACK", "NAK", "CAN"})
     IN  \/ /\ answers = {}
            /\ timer' = "none"
            /\ UNCHANGED <<state, given, retries, block, sentBytes, buffered, saved, outcome, slips,
                           toDevice>>
         \/ /\ First("ACK", answers)
            /\ SendNext(useCrc, sentBytes, block + 1, 0)
            /\ UNCHANGED slips
         \/ /\ First("NAK", answers) /\ Exhausted
            /\ Write("CAN") /\ End("ended")
            /\ UNCHANGED slips
         \/ /\ First("NAK", answers) /\ ~Exhausted
            /\ SendNext(useCrc, Rewound(sentBytes), block, retries + 1)
            /\ slips' = slips \cup Rewinds(sentBytes) \cup Doubles
         \/ /\ First("CAN", answers)
            /\ End("error")
            /\ UNCHANGED <<slips, toDevice>>
  /\ UNCHANGED fixed

(* The timer of resetSendTimeout(): when all packets are sent it sends     *)
(* EOT, be the last one acknowledged or not.                               *)
SendTimeout ==
  /\ timer = "send" /\ Quiet
  /\ \/ /\ Exhausted
        /\ End("error")
        /\ UNCHANGED <<slips, toDevice>>
     \/ /\ ~Exhausted /\ sentBytes >= size
        /\ Write("EOT")
        /\ retries' = retries + 1
        /\ slips' = slips \cup {"early"}
        /\ UNCHANGED <<state, given, timer, block, sentBytes, buffered, saved, outcome>>
     \/ /\ ~Exhausted /\ sentBytes < size
        /\ SendNext(useCrc, Rewound(sentBytes), block, retries + 1)
        /\ slips' = slips \cup Rewinds(sentBytes)
  /\ UNCHANGED <<toElecterm, fixed>>

-----------------------------------------------------------------------------
(* Receiving.                                                              *)

\* mutant of Listen: the next packet is awaited without a timer
Listen_unguarded == state' = "receiving" /\ timer' = "none"

Listen == state' = "receiving" /\ timer' = "receive"

(* sendNak(), which leaves what is left in the buffer to be read on.       *)
Refuse(rest) ==
  \/ /\ Exhausted
     /\ Write("CAN") /\ End("ended")
  \/ /\ ~Exhausted
     /\ Write("NAK") /\ Listen
     /\ retries' = retries + 1 /\ buffered' = rest
     /\ UNCHANGED <<given, block, sentBytes, saved, outcome>>

\* mutant of IsNext: a repetition is taken for a new block
IsNext_repeated(m) == m.number \in {block % Modulus, (block - 1) % Modulus}

IsNext(m) == m.number = block % Modulus

(* processReceivedPacket() of a packet whose CRC is right.  Without a path *)
(* there is no file to write to, and the block is acknowledged.            *)
Take(m) ==
  \/ /\ IsNext(m)
     /\ saved' = IF given = "yes" THEN Append(saved, m.data) ELSE saved
     /\ slips' = IF given = "yes" THEN slips ELSE slips \cup {"unsaved"}
     /\ block' = block + 1 /\ retries' = 0
     /\ Write("ACK") /\ Listen
     /\ UNCHANGED <<given, sentBytes, buffered, outcome>>
  \/ /\ ~IsNext(m) /\ m.number = (block - 1) % Modulus
     /\ Write("ACK") /\ Listen
     /\ UNCHANGED <<given, retries, block, sentBytes, buffered, saved, outcome, slips>>
  \/ /\ ~IsNext(m) /\ m.number # (block - 1) % Modulus
     /\ Write("CAN") /\ End("ended")
     /\ UNCHANGED slips

(* handleReceiveComplete(), or the remote side cancels.                    *)
Complete == Write("ACK") /\ End("complete")
Remote == UNCHANGED toDevice /\ End("error")

(* Data read for control characters passes for the end; a packet that was  *)
(* made of what was buffered is refused before.                            *)
Misread ==
  /\ slips' = slips \cup {"misread"}
  /\ LET refusal == IF buffered THEN <<Byte("NAK")>> ELSE << >>
     IN  \/ toDevice' = toDevice \o refusal \o <<Byte("ACK")>> /\ End("complete")
         \/ toDevice' = toDevice \o refusal /\ End("error")

(* What may be the beginning of a packet is kept until more bytes come.    *)
Keep ==
  /\ Listen /\ buffered' = TRUE
  /\ UNCHANGED <<given, retries, block, sentBytes, saved, outcome, toDevice>>

Skip ==
  UNCHANGED <<state, given, timer, retries, block, sentBytes, buffered, saved, outcome, toDevice>>

(* handleReceiveWaitData() and handleReceiveData().  Only a packet ends    *)
(* the wait.  A packet that ends with a checksum is too short, what is     *)
(* short is completed by what comes next, and the rest of that, like a     *)
(* packet without its first byte, is read for control characters.          *)
HearPacket ==
  /\ mode = "receive" /\ state \in {"waiting_remote", "receiving"}
  /\ toElecterm # << >>
  /\ toElecterm' = Tail(toElecterm)
  /\ LET m == Head(toElecterm)
         receiving == state = "receiving"
         fits == m.kind = "packet" /\ m.crc = useCrc
     IN  \/ /\ ~buffered
            /\ \/ fits /\ Take(m)
               \/ m.kind = "damaged" /\ Refuse(FALSE) /\ UNCHANGED slips
               \/ m.kind = "EOT" /\ receiving /\ Complete /\ UNCHANGED slips
               \/ m.kind = "CAN" /\ receiving /\ Remote /\ UNCHANGED slips
               \/ m.kind \in {"EOT", "CAN"} /\ ~receiving /\ Skip /\ UNCHANGED slips
               \/ m.kind \in {"packet", "short", "headless"} /\ ~fits /\ Keep /\ UNCHANGED slips
               \/ m.kind = "headless" /\ Skip /\ UNCHANGED slips
               \/ m.kind = "headless" /\ receiving /\ Misread
         \/ /\ buffered
            /\ \/ Keep /\ UNCHANGED slips
               \/ \E rest \in BOOLEAN : Refuse(rest) /\ UNCHANGED slips
               \/ Misread
  /\ UNCHANGED fixed

(* The timer of resetReceiveTimeout(), which also guards the wait for the  *)
(* first request of a device that is to receive.                           *)
ReceiveTimeout ==
  /\ timer = "receive" /\ Quiet
  /\ \/ state = "receiving" /\ Refuse(buffered)
     \/ /\ state = "waiting_remote" /\ Exhausted
        /\ End("error")
        /\ UNCHANGED toDevice
     \/ /\ state = "waiting_remote" /\ ~Exhausted
        /\ retries' = retries + 1
        /\ IF mode = "receive" \/ given # "yes" THEN Write("NAK") ELSE UNCHANGED toDevice
        /\ UNCHANGED <<state, given, timer, block, sentBytes, buffered, saved, outcome>>
  /\ UNCHANGED <<slips, toElecterm, fixed>>

(* Without a session the bytes go to the terminal.                         *)
HearNothing ==
  /\ state = "idle" /\ toElecterm # << >>
  /\ toElecterm' = Tail(toElecterm)
  /\ UNCHANGED <<session, toDevice, others>>

-----------------------------------------------------------------------------
(* The line loses a message or damages a packet, of which it may lose a    *)
(* byte.                                                                   *)
Damaged(line, i, kinds) ==
  {RemoveAt(line, i)} \cup
    (IF line[i].kind = "packet" THEN {ReplaceAt(line, i, Byte(k)) : k \in kinds} ELSE {})

LineFails ==
  /\ faults < MaxFaults
  /\ faults' = faults + 1
  /\ \/ /\ \E i \in DOMAIN toDevice : toDevice' \in Damaged(toDevice, i, {"damaged"})
        /\ UNCHANGED toElecterm
     \/ /\ \E i \in DOMAIN toElecterm :
             toElecterm' \in Damaged(toElecterm, i, {"damaged", "headless", "short"})
        /\ UNCHANGED toDevice
  /\ UNCHANGED <<mode, size, session, dev>>

-----------------------------------------------------------------------------
(* The device.                                                             *)

Say(message) == toElecterm' = Append(toElecterm, message)

Repeats == dev.tries < MaxTries

(* It asks for a file, more than once if need be, with "C" for packets     *)
(* that end with a CRC or, from the first or later, with NAK for a         *)
(* checksum.  What it waits for it asks for again, or gives up.            *)
DeviceAsks ==
  /\ mode = "send"
  /\ \/ /\ dev.state = "off"
        /\ Repeats
        /\ \E crc \in {dev.crc, FALSE} :
             /\ dev' = [dev EXCEPT !.tries = @ + 1, !.crc = crc]
             /\ Say(Byte(IF crc THEN "C" ELSE "NAK"))
     \/ /\ dev.state = "on" /\ Quiet
        /\ Repeats
        /\ dev' = [dev EXCEPT !.tries = @ + 1]
        /\ Say(Byte("NAK"))
     \/ /\ dev.state = "off" \/ (dev.state = "on" /\ Quiet)
        /\ dev.tries = MaxTries
        /\ dev' = [dev EXCEPT !.state = "aborted"]
        /\ Say(Byte("CAN"))
  /\ UNCHANGED <<mode, size, session, toDevice, faults>>

(* It takes the packet it waits for, acknowledges the one before, asks for *)
(* one that does not pass its check again and gives up if another number   *)
(* comes.                                                                  *)
DeviceTakes ==
  /\ mode = "send" /\ toDevice # << >>
  /\ toDevice' = Tail(toDevice)
  /\ LET m == Head(toDevice)
         on == dev.state \in {"off", "on"}
         fits == m.kind = "packet" /\ m.crc = dev.crc
     IN  \/ /\ on /\ fits /\ m.number = dev.block % Modulus
            /\ dev' = [dev EXCEPT !.state = "on", !.block = @ + 1, !.tries = 0,
                                  !.file = Append(@, m.data)]
            /\ Say(Byte("ACK"))
         \/ /\ on /\ fits /\ m.number = (dev.block - 1) % Modulus
            /\ Say(Byte("ACK"))
            /\ UNCHANGED dev
         \/ /\ on /\ fits
            /\ m.number \notin {dev.block % Modulus, (dev.block - 1) % Modulus}
            /\ dev' = [dev EXCEPT !.state = "aborted"] /\ Say(Byte("CAN"))
         \/ on /\ m.kind \in {"packet", "damaged"} /\ ~fits /\ Say(Byte("NAK")) /\ UNCHANGED dev
         \/ on /\ m.kind = "EOT" /\ dev' = [dev EXCEPT !.state = "done"] /\ Say(Byte("ACK"))
         \/ on /\ m.kind = "CAN" /\ dev' = [dev EXCEPT !.state = "aborted"] /\ UNCHANGED toElecterm
         \/ dev.state = "done" /\ m.kind = "EOT" /\ Say(Byte("ACK")) /\ UNCHANGED dev
         \/ /\ (on => m.kind = "NAK") /\ (dev.state = "done" => m.kind # "EOT")
            /\ UNCHANGED <<dev, toElecterm>>
  /\ UNCHANGED <<mode, size, session, faults>>

(* What a device that sends has to say now.  Asked by a NAK it ends its    *)
(* packets with a checksum, unless it knows nothing but CRC.               *)
Turn(b) == IF b <= Blocks THEN Packet(dev.crc, b, Whole[b]) ELSE Byte("EOT")

(* It may begin unasked, and repeats itself or gives up without an answer. *)
DeviceSends ==
  /\ mode = "receive" /\ dev.state \in {"off", "on"} /\ Quiet
  /\ \/ dev.state = "off" /\ dev' = [dev EXCEPT !.state = "on"] /\ Say(Turn(dev.block))
     \/ /\ dev.state = "on" /\ Repeats
        /\ dev' = [dev EXCEPT !.tries = @ + 1]
        /\ Say(Turn(dev.block))
     \/ /\ dev.state = "on" /\ dev.tries = MaxTries
        /\ dev' = [dev EXCEPT !.state = "aborted"]
        /\ Say(Byte("CAN"))
  /\ UNCHANGED <<mode, size, session, toDevice, faults>>

DeviceHears ==
  /\ mode = "receive" /\ toDevice # << >>
  /\ toDevice' = Tail(toDevice)
  /\ LET m == Head(toDevice)
         on == dev.state = "on"
     IN  \/ /\ on /\ m.kind = "ACK" /\ dev.block <= Blocks
            /\ dev' = [dev EXCEPT !.block = @ + 1, !.tries = 0]
            /\ Say(Turn(dev.block + 1))
         \/ /\ on /\ m.kind = "ACK" /\ dev.block > Blocks
            /\ dev' = [dev EXCEPT !.state = "done"]
            /\ UNCHANGED toElecterm
         \/ dev.state \in {"off", "on"} /\ m.kind = "NAK" /\ Say(Turn(dev.block))
            /\ dev' = [dev EXCEPT !.state = "on"]
         \/ on /\ m.kind = "CAN" /\ dev' = [dev EXCEPT !.state = "aborted"] /\ UNCHANGED toElecterm
         \/ /\ dev.state \in {"done", "aborted"} \/ (dev.state = "off" /\ m.kind # "NAK")
            /\ UNCHANGED <<dev, toElecterm>>
  /\ UNCHANGED <<mode, size, session, faults>>

(* It is switched off.                                                     *)
DeviceDies ==
  /\ dev' = [dev EXCEPT !.state = "aborted"]
  /\ UNCHANGED <<mode, size, session, toDevice, toElecterm, faults>>

-----------------------------------------------------------------------------
Hear ==
  \/ \E k \in DOMAIN toElecterm : HearRequest(k) \/ HearReply(k)
  \/ HearPacket \/ HearNothing

Next ==
  \/ Start \/ Give \/ Cancel \/ Hear \/ SendTimeout \/ ReceiveTimeout
  \/ LineFails \/ DeviceAsks \/ DeviceTakes \/ DeviceSends \/ DeviceHears \/ DeviceDies

Spec == Init /\ [][Next]_vars

(* Bytes arrive on both sides and electerm's timers fire.  The device, the *)
(* line's quality and the user owe nothing.                                *)
FairSpec ==
  /\ Spec
  /\ WF_vars(Hear) /\ WF_vars(DeviceTakes \/ DeviceHears)
  /\ WF_vars(SendTimeout) /\ WF_vars(ReceiveTimeout)

-----------------------------------------------------------------------------
(* What the device has stored is the file from its beginning, block by     *)
(* block, whatever was lost, damaged, repeated or acknowledged twice; and  *)
(* it is whole when the device was told the end.  Excepted is the last     *)
(* block where the code is known to resend other bytes under its number,   *)
(* to announce the end before it was acknowledged, or to take a second     *)
(* request for a refusal, so that all later answers come one too early.    *)
DeviceHasTheFile ==
  mode = "send" =>
    /\ \A b \in DOMAIN dev.file :
         dev.file[b] = Whole[b] \/ (b = Blocks /\ "rewound" \in slips)
    /\ dev.state = "done" => Len(dev.file) = Blocks \/ slips \cap {"early", "doubled"} # {}

(* What is sent again is the block that was sent before, as the code says: *)
(* a packet carries the data of its number.                                *)
ResendsTheBlock ==
  mode = "send" =>
    \A i \in DOMAIN toDevice : toDevice[i].kind = "packet" =>
      \E b \in 1 .. Blocks : toDevice[i] = Packet(toDevice[i].crc, b, Whole[b])

(* What electerm has saved is the file from its beginning, and it is whole *)
(* when the client is told so.  Excepted are blocks that came before the   *)
(* path was known, and data that was read for control characters.          *)
SavedIsTheFile ==
  mode = "receive" /\ slips \cap {"unsaved", "misread"} = {} =>
    /\ IsPrefix(saved, Whole)
    /\ outcome = "complete" => saved = Whole

(* A session ends by electerm's own timers, with a device that is silent,  *)
(* repeats itself or was never there, so that the terminal is usable       *)
(* again; unless a stray byte stopped the timer for an acknowledgement.    *)
SessionEnds ==
  state # "idle" ~> (state = "idle" \/ (state = "sending" /\ timer = "none"))
=============================================================================
