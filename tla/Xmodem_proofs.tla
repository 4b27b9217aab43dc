---------------------------- MODULE Xmodem_proofs ----------------------------
(***************************************************************************)
(* Proofs about Xmodem: for files and blocks of every size and any number  *)
(* of retries, repetitions and faults, what one side stores is the other   *)
(* side's file from its beginning, but for the slips that the properties   *)
(* name.  The argument is that one packet or word about it at most is      *)
(* under way, so that an answer is always about the block that was sent    *)
(* last; that two neighbouring blocks have different numbers; and, for the *)
(* types, that blocks are never sent out of order.                         *)
(***************************************************************************)
EXTENDS Xmodem, SequenceTheorems, TLAPS

(* What is on a line.                                                      *)
Holds(line, kinds) == \E i \in DOMAIN line : line[i].kind \in kinds
Only(line, kinds) == \A i \in DOMAIN line : line[i].kind \in kinds
Once(line, kinds) ==
  \A i, j \in DOMAIN line : line[i].kind \in kinds /\ line[j].kind \in kinds => i = j

\* the packets are those of the blocks low to high, one after the other
InOrder(line, low, high) ==
  \E n \in [DOMAIN line -> Nat] : \A i \in DOMAIN line : line[i].kind = "packet" =>
    /\ line[i].number = n[i] % Modulus /\ low <= n[i] /\ n[i] <= high
    /\ \A j \in DOMAIN line : i < j /\ line[j].kind = "packet" => n[i] <= n[j]

Carried == {"packet", "damaged"}
Sent == {"packet", "damaged", "EOT", "CAN", "NAK"}
Asked == {"C", "ACK", "NAK", "CAN"}
Spoken == {"packet", "damaged", "headless", "short", "EOT", "CAN"}
Answering == {"ACK", "NAK", "CAN"}

(* Each side says what belongs to its part.                                *)
Parts ==
  /\ mode = "send" =>
       /\ state # "receiving"
       /\ Only(toElecterm, Asked) /\ Only(toDevice, Sent)
  /\ mode = "receive" =>
       /\ state # "sending"
       /\ Only(toElecterm, Spoken) /\ Only(toDevice, Answering)
  /\ timer = "send" => state = "sending"

-----------------------------------------------------------------------------
(* Sending: the device listens and waits for electerm's block or, when its *)
(* answer is under way or lost, for the next one.  After a packet was sent *)
(* once too often electerm may be ahead of the device, and only the order  *)
(* of the blocks is left.                                                  *)

On == dev.state \in {"off", "on"}
Clear == "doubled" \notin slips

Position(b, bytes) == Least(b * BlockSize, bytes)

\* the bytes may be those that are resent for a last block that is not full
Good(n, data, whole, slipped) ==
  /\ n \in DOMAIN whole
  /\ data = whole[n] \/ (n = Len(whole) /\ "rewound" \in slipped)

Unsent ==
  state = "waiting_remote" \/ (state = "idle" /\ outcome = "none") =>
    /\ dev.state \in {"off", "aborted"} /\ dev.block = 1
    /\ ~Holds(toDevice, Carried) /\ ~Holds(toDevice, {"EOT"})
    /\ On => ~Holds(toElecterm, {"ACK"})

AtBlock ==
  state = "sending" =>
    /\ block \in 1 .. Blocks /\ sentBytes = Position(block, size)
    /\ dev.block <= block + 1

Latest == IF state = "sending" THEN block ELSE Blocks

Queued == InOrder(toDevice, dev.block - 1, Latest)

InStep == state = "sending" /\ On => dev.block \in {block, block + 1}

OneAtATime ==
  state = "sending" /\ On =>
    /\ Once(toElecterm, {"ACK"}) /\ Once(toDevice, Carried)
    /\ ~(Holds(toElecterm, {"ACK"}) /\ Holds(toDevice, Carried))
    /\ Holds(toElecterm, {"ACK"}) => dev.block = block + 1

OnTheLine ==
  On =>
    /\ Once(toDevice, {"packet"})
    /\ \A i \in DOMAIN toDevice : toDevice[i].kind = "packet" =>
         \E n \in {dev.block, dev.block - 1} :
              /\ toDevice[i].number = n % Modulus /\ Good(n, toDevice[i].data, Whole, slips)
              /\ state = "sending" => n = block
    /\ Holds(toDevice, {"EOT"}) => dev.block = Blocks + 1 \/ "early" \in slips

Stored ==
  /\ Len(dev.file) = dev.block - 1
  /\ \A b \in DOMAIN dev.file : Good(b, dev.file[b], Whole, slips)
  /\ dev.state = "done" => Len(dev.file) = Blocks \/ "early" \in slips

SendInv == Unsent /\ AtBlock /\ Queued /\ (Clear => InStep /\ OneAtATime /\ OnTheLine /\ Stored)

-----------------------------------------------------------------------------
(* Receiving: electerm waits for the block that the device sends or, when  *)
(* its answer is under way or lost, for the next one.                      *)

OneWord ==
  /\ Once(toElecterm, Spoken) /\ Once(toDevice, {"ACK", "NAK"})
  /\ ~(Holds(toElecterm, Spoken) /\ Holds(toDevice, {"ACK", "NAK"}))

FromDevice ==
  \A i \in DOMAIN toElecterm :
    toElecterm[i].kind \in {"packet", "EOT"} => toElecterm[i] = Turn(dev.block)

\* the last block that the device has sent
Newest == IF dev.block <= Blocks THEN dev.block ELSE Blocks

Behind == block <= dev.block + 1 /\ InOrder(toElecterm, block - 1, Newest)

\* a session at work, or one that its path may still begin
Open == state # "idle" \/ given = "coming" \/ outcome = "none"

Synced ==
  /\ block \in {dev.block, dev.block + 1}
  /\ Holds(toDevice, {"ACK"}) => block = dev.block + 1 \/ dev.block = Blocks + 1

Taken ==
  /\ Len(saved) <= Blocks
  /\ \A b \in DOMAIN saved : saved[b] = Whole[b]
  /\ Open => Len(saved) = block - 1 /\ Synced
  /\ Open /\ given # "yes" => block = 1
  /\ outcome = "complete" => Len(saved) = Blocks

Path ==
  /\ state # "idle" => given # "no"
  /\ state # "idle" /\ given = "coming" => outcome = "none"
  /\ state = "idle" /\ outcome = "none" => given = "no"

Straight == slips \cap {"unsaved", "misread"} = {}

ReceiveInv == Path /\ Behind /\ (Straight => OneWord /\ FromDevice /\ Taken)

FileInv ==
  /\ TypeOK /\ Parts
  /\ mode = "send" => SendInv
  /\ mode = "receive" => ReceiveInv

USE SizesAssumption

-----------------------------------------------------------------------------
(* Blocks and their numbers.                                               *)

LEMMA TimesOrder ==
  ASSUME NEW b \in Nat \ {0}, NEW j \in Int, NEW k \in Int
  PROVE  j <= k <=> j * b <= k * b
<1>1. ASSUME j <= k PROVE j * b <= k * b
  <2>1. PICK d \in Nat : k = j + d
    <3>1. k - j \in Nat /\ k = j + (k - j)
      BY <1>1
    <3> QED BY <3>1
  <2>2. k * b = j * b + d * b
    BY <2>1
  <2>3. d * b >= 0 /\ j * b \in Int /\ d * b \in Int
    OBVIOUS
  <2> QED BY <2>2, <2>3
<1>2. ASSUME ~(j <= k) PROVE ~(j * b <= k * b)
  <2>1. PICK d \in Nat : j = k + 1 + d
    <3>1. j - k - 1 \in Nat /\ j = k + 1 + (j - k - 1)
      BY <1>2
    <3> QED BY <3>1
  <2>2. j * b = k * b + b + d * b
    BY <2>1
  <2>3. d * b >= 0 /\ k * b \in Int /\ d * b \in Int
    OBVIOUS
  <2> QED BY <2>2, <2>3
<1> QED BY <1>1, <1>2

LEMMA DivBounds ==
  ASSUME NEW b \in Nat \ {0}, NEW n \in Nat, NEW q, q = n \div b
  PROVE  q \in Nat /\ q * b <= n /\ n < q * b + b
OBVIOUS

(* A block begins within the file, and the next one too when more is left. *)
LEMMA BlocksFacts ==
  ASSUME size \in Nat
  PROVE  /\ Blocks \in Nat
         /\ \A k \in Nat : k * BlockSize < size <=> k < Blocks
         /\ Blocks = 0 <=> size = 0
<1>1. PICK q : q = Blocks
  OBVIOUS
<1>2. /\ q \in Nat /\ q * BlockSize <= size + BlockSize - 1
      /\ size + BlockSize - 1 < q * BlockSize + BlockSize
  <2>1. PICK n \in Nat : n = size + BlockSize - 1
    OBVIOUS
  <2>2. q = n \div BlockSize
    BY <1>1, <2>1 DEF Blocks
  <2> QED BY <2>1, <2>2, DivBounds
<1>3. ASSUME NEW k \in Nat
      PROVE  k * BlockSize < size <=> k < q
  <2>1. k * BlockSize \in Int /\ q * BlockSize \in Int
    BY <1>2
  <2>2. ASSUME k < q PROVE k * BlockSize < size
    <3>1. k + 1 \in Int /\ k + 1 <= q
      BY <1>2, <2>2
    <3>2. (k + 1) * BlockSize <= q * BlockSize
      BY <1>2, <3>1, TimesOrder
    <3>3. (k + 1) * BlockSize = k * BlockSize + BlockSize
      OBVIOUS
    <3> QED BY <1>2, <2>1, <3>2, <3>3
  <2>3. ASSUME ~(k < q) PROVE ~(k * BlockSize < size)
    <3>1. q <= k
      BY <1>2, <2>3
    <3>2. q * BlockSize <= k * BlockSize
      BY <1>2, <3>1, TimesOrder
    <3> QED BY <1>2, <2>1, <3>2
  <2> QED BY <2>2, <2>3
<1>4. 0 * BlockSize = 0
  OBVIOUS
<1>5. q = 0 <=> size = 0
  <2>1. 0 < size <=> 0 < q
    BY <1>3, <1>4
  <2> QED BY <1>2, <2>1
<1> QED BY <1>1, <1>2, <1>3, <1>5

LEMMA DataTyped ==
  ASSUME size \in Nat, NEW offset \in Nat
  PROVE  Data(offset) \in DataBlocks
BY DEF Data, DataBlocks, Pad

LEMMA WholeTyped ==
  ASSUME size \in Nat
  PROVE  /\ \A b \in 1 .. Blocks : Whole[b] = Data((b - 1) * BlockSize) /\ Whole[b] \in DataBlocks
         /\ DOMAIN Whole = 1 .. Blocks /\ Whole \in Seq(DataBlocks) /\ Len(Whole) = Blocks
<1>1. Blocks \in Nat
  BY BlocksFacts
<1>2. ASSUME NEW b \in 1 .. Blocks
      PROVE  Whole[b] = Data((b - 1) * BlockSize) /\ Whole[b] \in DataBlocks
  <2>1. (b - 1) * BlockSize \in Nat
    BY <1>1
  <2>2. Whole[b] = Data((b - 1) * BlockSize)
    BY DEF Whole
  <2> QED BY <2>1, <2>2, DataTyped
<1>3. DOMAIN Whole = 1 .. Blocks
  BY DEF Whole
<1>4. Whole \in [1 .. Blocks -> DataBlocks]
  <2>1. Whole = [b \in 1 .. Blocks |-> Whole[b]]
    BY DEF Whole
  <2> QED BY <1>2, <2>1
<1>5. Whole \in Seq(DataBlocks)
  BY <1>1, <1>4
<1>6. Len(Whole) = Blocks
  BY <1>1, <1>3, <1>5, LenProperties
<1> QED BY <1>2, <1>3, <1>5, <1>6

(* The first packet, the one after a block, and the one that goes back     *)
(* over a block that was sent.                                             *)
LEMMA FirstBlock ==
  ASSUME size \in Nat, 0 < size
  PROVE  /\ 1 \in 1 .. Blocks /\ Data(0) = Whole[1]
         /\ Least(0 + BlockSize, size) = Position(1, size)
<1>1. Blocks \in Nat /\ 0 < Blocks
  <2>1. 0 * BlockSize = 0
    OBVIOUS
  <2> QED BY <2>1, BlocksFacts
<1>2. Whole[1] = Data((1 - 1) * BlockSize)
  BY <1>1, WholeTyped
<1>3. (1 - 1) * BlockSize = 0 /\ 1 * BlockSize = 0 + BlockSize
  OBVIOUS
<1> QED BY <1>1, <1>2, <1>3 DEF Position

LEMMA NextBlock ==
  ASSUME size \in Nat, NEW b \in 1 .. Blocks, NEW o, o = Position(b, size)
  PROVE  /\ o \in 0 .. size
         /\ o < size => /\ b + 1 \in 1 .. Blocks /\ Data(o) = Whole[b + 1]
                        /\ Least(o + BlockSize, size) = Position(b + 1, size)
         /\ o >= size => b = Blocks
<1>1. Blocks \in Nat /\ b \in Nat /\ b * BlockSize \in Nat
  BY BlocksFacts
<1>2. b * BlockSize < size <=> b < Blocks
  BY <1>1, BlocksFacts
<1>3. o = IF b * BlockSize < size THEN b * BlockSize ELSE size
  BY DEF Position, Least
<1>4. o \in 0 .. size
  BY <1>1, <1>3
<1>5. ASSUME o < size
      PROVE  /\ b + 1 \in 1 .. Blocks /\ Data(o) = Whole[b + 1]
             /\ Least(o + BlockSize, size) = Position(b + 1, size)
  <2>1. o = b * BlockSize /\ b < Blocks
    BY <1>1, <1>2, <1>3, <1>5
  <2>2. b + 1 \in 1 .. Blocks /\ b + 1 - 1 = b
    BY <1>1, <2>1
  <2>3. Whole[b + 1] = Data((b + 1 - 1) * BlockSize)
    BY <2>2, WholeTyped
  <2>4. (b + 1) * BlockSize = b * BlockSize + BlockSize
    BY <1>1
  <2> QED BY <2>1, <2>2, <2>3, <2>4 DEF Position
<1>6. ASSUME o >= size PROVE b = Blocks
  BY <1>1, <1>2, <1>3, <1>6
<1> QED BY <1>4, <1>5, <1>6

LEMMA BackOver ==
  ASSUME size \in Nat, NEW b \in 1 .. Blocks, NEW o, o = Position(b, size),
         NEW r, r = Rewound(o)
  PROVE  /\ r \in Nat /\ r < size
         /\ Least(r + BlockSize, size) = Position(b, size)
         /\ \/ Data(r) = Whole[b]
            \/ b = Blocks /\ o > BlockSize /\ o % BlockSize # 0
<1>1. /\ Blocks \in Nat /\ b \in Nat /\ b - 1 \in Nat
      /\ b * BlockSize \in Nat /\ (b - 1) * BlockSize \in Nat
  BY BlocksFacts
<1>2. /\ b * BlockSize < size <=> b < Blocks
      /\ (b - 1) * BlockSize < size
  <2>1. (b - 1) * BlockSize < size <=> b - 1 < Blocks
    BY <1>1, BlocksFacts
  <2> QED BY <1>1, <2>1, BlocksFacts
<1>3. o = IF b * BlockSize < size THEN b * BlockSize ELSE size
  BY DEF Position, Least
<1>4. b * BlockSize = (b - 1) * BlockSize + BlockSize
  BY <1>1
<1>5. r = IF o < BlockSize THEN 0 ELSE o - BlockSize
  BY DEF Rewound
<1>6. Whole[b] = Data((b - 1) * BlockSize)
  BY WholeTyped
<1>7. CASE b * BlockSize <= size
  <2>1. o = b * BlockSize /\ r = (b - 1) * BlockSize
    BY <1>1, <1>3, <1>4, <1>5, <1>7
  <2>2. Least(r + BlockSize, size) = Position(b, size)
    BY <1>4, <2>1 DEF Position
  <2> QED BY <1>1, <1>2, <1>6, <2>1, <2>2
<1>8. CASE ~(b * BlockSize <= size)
  <2>1. o = size /\ b = Blocks
    BY <1>1, <1>2, <1>3, <1>8
  <2>2. CASE size < BlockSize
    <3>1. r = 0
      BY <1>5, <2>1, <2>2
    <3>2. b - 1 = 0
      <4>1. ~(1 <= b - 1)
        <5>1. ~(1 * BlockSize <= (b - 1) * BlockSize)
          BY <1>1, <1>2, <2>2
        <5> QED BY <1>1, <5>1, TimesOrder
      <4> QED BY <1>1, <4>1
    <3>3. (b - 1) * BlockSize = 0
      BY <3>2
    <3>4. Least(r + BlockSize, size) = size /\ Position(b, size) = size
      BY <1>1, <1>3, <2>1, <2>2, <3>1 DEF Least
    <3> QED BY <1>2, <1>6, <3>1, <3>3, <3>4
  <2>3. CASE ~(size < BlockSize)
    <3>1. r = size - BlockSize /\ r \in Nat /\ r < size
      BY <1>5, <2>1, <2>3
    <3>2. Least(r + BlockSize, size) = size /\ Position(b, size) = size
      BY <2>1, <3>1 DEF Least
    <3>3. size % BlockSize # 0
      <4>1. SUFFICES ASSUME size % BlockSize = 0 PROVE FALSE
        OBVIOUS
      <4>2. PICK q \in Nat : size = q * BlockSize
        <5>1. PICK q : q = size \div BlockSize
          OBVIOUS
        <5>2. q \in Nat /\ size = q * BlockSize
          BY <4>1, <5>1
        <5> QED BY <5>2
      <4>3. ~(q <= b - 1)
        BY <1>1, <1>2, <4>2, TimesOrder
      <4>4. ~(b <= q)
        BY <1>1, <1>8, <4>2, TimesOrder
      <4> QED BY <1>1, <4>3, <4>4
    <3>4. size # BlockSize
      BY <3>3
    <3> QED BY <2>1, <2>3, <3>1, <3>2, <3>3, <3>4
  <2> QED BY <2>2, <2>3
<1> QED BY <1>7, <1>8

LEMMA Remainder ==
  ASSUME NEW m \in Nat \ {0}, NEW q \in Int, NEW r \in 0 .. m - 1, NEW n,
         n = q * m + r
  PROVE  n % m = r
OBVIOUS

(* Neighbours have different numbers, and so have the second block and the *)
(* two before it.                                                          *)
LEMMA NumbersDiffer ==
  ASSUME NEW d \in Nat
  PROVE  /\ d % Modulus # (d + 1) % Modulus
         /\ d % Modulus \in 0 .. Modulus - 1
         /\ 0 % Modulus = 0 /\ 1 % Modulus = 1 /\ 2 % Modulus = 2
<1>1. PICK q \in Int, r \in 0 .. Modulus - 1 : d = q * Modulus + r /\ r = d % Modulus
  <2>1. PICK q, r : q = d \div Modulus /\ r = d % Modulus
    OBVIOUS
  <2>2. q \in Int /\ r \in 0 .. Modulus - 1 /\ d = q * Modulus + r
    BY <2>1
  <2> QED BY <2>1, <2>2
<1>2. PICK a \in Int : a = q * Modulus
  OBVIOUS
<1>3. d = a + r
  BY <1>1, <1>2
<1>4. CASE r < Modulus - 1
  <2>1. PICK r1 \in 0 .. Modulus - 1 : r1 = r + 1
    BY <1>4
  <2>2. d + 1 = q * Modulus + r1
    BY <1>2, <1>3, <2>1
  <2>3. (d + 1) % Modulus = r1
    BY <2>2, Remainder
  <2> QED BY <1>1, <2>1, <2>3
<1>5. CASE r = Modulus - 1
  <2>1. PICK q1 \in Int : q1 = q + 1
    OBVIOUS
  <2>2. q1 * Modulus = q * Modulus + Modulus
    BY <2>1
  <2>3. PICK r1 \in 0 .. Modulus - 1 : r1 = 0
    OBVIOUS
  <2>4. d + 1 = q1 * Modulus + r1
    <3>1. PICK c \in Int : c = q1 * Modulus
      OBVIOUS
    <3>2. c = a + Modulus
      BY <1>2, <2>2, <3>1
    <3>3. d + 1 = c + r1
      BY <1>3, <1>5, <2>3, <3>2
    <3> QED BY <3>1, <3>3
  <2>5. (d + 1) % Modulus = r1
    BY <2>4, Remainder
  <2> QED BY <1>1, <1>5, <2>3, <2>5
<1>6. 0 % Modulus = 0 /\ 1 % Modulus = 1 /\ 2 % Modulus = 2
  OBVIOUS
<1>7. d % Modulus # (d + 1) % Modulus
  BY <1>1, <1>4, <1>5
<1> QED BY <1>1, <1>6, <1>7

-----------------------------------------------------------------------------
(* What happens to a line: a message is added at its end, and others are   *)
(* taken from it, or damaged.                                              *)

Grown(u, s, m, S) ==
  /\ u \in Seq(S)
  /\ \A K : Holds(u, K) <=> Holds(s, K) \/ m.kind \in K
  /\ \A K : Only(s, K) /\ m.kind \in K => Only(u, K)
  /\ \A K : Once(s, K) /\ (m.kind \notin K \/ ~Holds(s, K)) => Once(u, K)
  /\ \A i \in DOMAIN u : u[i] = m \/ \E j \in DOMAIN s : u[i] = s[j]

LEMMA LineGrows ==
  ASSUME NEW S, NEW s \in Seq(S), NEW m \in S
  PROVE  Grown(Append(s, m), s, m, S)
<1> DEFINE u == Append(s, m)
<1>1. /\ u \in Seq(S) /\ Len(s) \in Nat /\ DOMAIN s = 1 .. Len(s)
      /\ DOMAIN u = 1 .. Len(s) + 1 /\ u[Len(s) + 1] = m
      /\ \A i \in 1 .. Len(s) : u[i] = s[i]
  BY AppendProperties, LenProperties
<1> HIDE DEF u
<1>2. PICK n : n = Len(s) + 1
  OBVIOUS
<1>3. /\ n \in DOMAIN u /\ u[n] = m /\ n \notin DOMAIN s
      /\ \A i \in DOMAIN s : i \in DOMAIN u /\ u[i] = s[i]
      /\ \A i \in DOMAIN u : i = n \/ i \in DOMAIN s
  BY <1>1, <1>2
<1>4. \A K : Holds(u, K) <=> Holds(s, K) \/ m.kind \in K
  BY <1>3 DEF Holds
<1>5. \A K : Only(s, K) /\ m.kind \in K => Only(u, K)
  BY <1>3 DEF Only
<1>6. \A K : Once(s, K) /\ (m.kind \notin K \/ ~Holds(s, K)) => Once(u, K)
  BY <1>3 DEF Once, Holds
<1>7. \A i \in DOMAIN u : u[i] = m \/ \E j \in DOMAIN s : u[i] = s[j]
  BY <1>3
<1>8. Grown(u, s, m, S)
  BY <1>1, <1>4, <1>5, <1>6, <1>7 DEF Grown
<1> QED BY <1>8 DEF u

\* every message of u is one of s, or a packet of s damaged to one of kinds
Thins(u, s, kinds) ==
  \E f \in [DOMAIN u -> DOMAIN s] : \A i \in DOMAIN u :
    /\ u[i] = s[f[i]] \/ (s[f[i]].kind = "packet" /\ \E k \in kinds : u[i] = Byte(k))
    /\ \A j \in DOMAIN u : (f[i] = f[j] => i = j) /\ (i < j => f[i] < f[j])

LEMMA LineThins ==
  ASSUME NEW u, NEW s, NEW kinds, Thins(u, s, kinds)
  PROVE  /\ \A K : (kinds \cap K = {} \/ "packet" \in K) =>
                      /\ Holds(u, K) => Holds(s, K)
                      /\ Once(s, K) => Once(u, K)
         /\ \A K : kinds \subseteq K \/ "packet" \notin K =>
                      (Only(s, K) => Only(u, K))
         /\ \A i \in DOMAIN u : \/ \E j \in DOMAIN s : u[i] = s[j]
                                \/ \E k \in kinds : u[i] = Byte(k)
<1>1. PICK f \in [DOMAIN u -> DOMAIN s] : \A i \in DOMAIN u :
        /\ u[i] = s[f[i]] \/ (s[f[i]].kind = "packet" /\ \E k \in kinds : u[i] = Byte(k))
        /\ \A j \in DOMAIN u : (f[i] = f[j] => i = j) /\ (i < j => f[i] < f[j])
  BY DEF Thins
<1>2. \A k : Byte(k).kind = k
  BY DEF Byte
<1>3. ASSUME NEW K, kinds \cap K = {} \/ "packet" \in K
      PROVE  /\ \A i \in DOMAIN u : u[i].kind \in K => s[f[i]].kind \in K
             /\ Holds(u, K) => Holds(s, K)
             /\ Once(s, K) => Once(u, K)
  <2>1. \A i \in DOMAIN u : u[i].kind \in K => s[f[i]].kind \in K
    <3> TAKE i \in DOMAIN u
    <3>1. CASE u[i] = s[f[i]]
      BY <3>1
    <3>2. CASE s[f[i]].kind = "packet" /\ \E k \in kinds : u[i] = Byte(k)
      <4>1. PICK k \in kinds : u[i] = Byte(k)
        BY <3>2
      <4>2. u[i].kind = k
        BY <1>2, <4>1
      <4> QED BY <1>3, <3>2, <4>2
    <3> QED BY <1>1, <3>1, <3>2
  <2>2. Holds(u, K) => Holds(s, K)
    BY <2>1 DEF Holds
  <2>3. Once(s, K) => Once(u, K)
    <3>1. SUFFICES ASSUME Once(s, K), NEW i \in DOMAIN u, NEW j \in DOMAIN u,
                          u[i].kind \in K, u[j].kind \in K
                   PROVE  i = j
      BY DEF Once
    <3>2. f[i] = f[j]
      BY <2>1, <3>1 DEF Once
    <3> QED BY <1>1, <3>2
  <2> QED BY <2>1, <2>2, <2>3
<1>4. ASSUME NEW K, kinds \subseteq K \/ "packet" \notin K, Only(s, K)
      PROVE  Only(u, K)
  <2>1. SUFFICES ASSUME NEW i \in DOMAIN u PROVE u[i].kind \in K
    BY DEF Only
  <2>2. f[i] \in DOMAIN s /\ s[f[i]].kind \in K
    BY <1>4 DEF Only
  <2>3. CASE u[i] = s[f[i]]
    BY <2>2, <2>3
  <2>4. CASE s[f[i]].kind = "packet" /\ \E k \in kinds : u[i] = Byte(k)
    <3>1. PICK k \in kinds : u[i] = Byte(k)
      BY <2>4
    <3>2. u[i].kind = k
      BY <1>2, <3>1
    <3> QED BY <1>4, <2>2, <2>4, <3>2
  <2> QED BY <1>1, <2>3, <2>4
<1>5. \A i \in DOMAIN u : \/ \E j \in DOMAIN s : u[i] = s[j]
                          \/ \E k \in kinds : u[i] = Byte(k)
  BY <1>1
<1> QED BY <1>3, <1>4, <1>5

(* The first k messages are heard.                                         *)
LEMMA LineDrops ==
  ASSUME NEW S, NEW s \in Seq(S), NEW k \in DOMAIN s,
         NEW u, u = SubSeq(s, k + 1, Len(s))
  PROVE  /\ u \in Seq(S) /\ Thins(u, s, {})
         /\ \A K : \A i \in 1 .. k : Once(s, K) /\ s[i].kind \in K => ~Holds(u, K)
<1>1. /\ Len(s) \in Nat /\ DOMAIN s = 1 .. Len(s)
      /\ \A i \in DOMAIN s : s[i] \in S
  BY LenProperties, ElementOfSeq
<1>2. PICK n \in Nat : n = Len(s)
  BY <1>1
<1>3. k \in Nat /\ 1 <= k /\ k <= n
  BY <1>1, <1>2
<1>4. PICK m \in Nat : m = k + 1
  BY <1>3
<1>5. \A i \in m .. n : s[i] \in S
  BY <1>1, <1>2, <1>3, <1>4
<1>6. /\ SubSeq(s, m, n) \in Seq(S)
      /\ Len(SubSeq(s, m, n)) = (IF m <= n THEN n - m + 1 ELSE 0)
      /\ \A i \in 1 .. n - m + 1 : SubSeq(s, m, n)[i] = s[m + i - 1]
  BY <1>5, SubSeqProperties
<1>7. u = SubSeq(s, m, n)
  BY <1>2, <1>4
<1>8. u \in Seq(S) /\ Len(u) = n - k
  BY <1>3, <1>4, <1>6, <1>7
<1>9. DOMAIN u = 1 .. n - k
  BY <1>8, LenProperties
<1>10. \A i \in DOMAIN u : i + k \in DOMAIN s /\ u[i] = s[i + k]
  <2>1. SUFFICES ASSUME NEW i \in 1 .. n - k
                 PROVE  i + k \in DOMAIN s /\ u[i] = s[i + k]
    BY <1>9
  <2>2. i \in 1 .. n - m + 1 /\ m + i - 1 = i + k /\ i + k \in 1 .. n
    BY <1>3, <1>4
  <2> QED BY <1>1, <1>2, <1>6, <1>7, <2>2
<1>11. Thins(u, s, {})
  <2> DEFINE f == [i \in DOMAIN u |-> i + k]
  <2>1. f \in [DOMAIN u -> DOMAIN s]
    BY <1>10
  <2>2. \A i, j \in DOMAIN u : (f[i] = f[j] => i = j) /\ (i < j => f[i] < f[j])
    BY <1>3, <1>9
  <2>3. \A i \in DOMAIN u : u[i] = s[f[i]]
    BY <1>10
  <2> HIDE DEF f
  <2> QED BY <2>1, <2>2, <2>3 DEF Thins
<1>12. ASSUME NEW K, NEW i \in 1 .. k, Once(s, K), s[i].kind \in K, Holds(u, K)
       PROVE  FALSE
  <2>1. PICK j \in DOMAIN u : u[j].kind \in K
    BY <1>12 DEF Holds
  <2>2. s[j + k].kind \in K /\ j + k \in DOMAIN s /\ i \in DOMAIN s /\ i # j + k
    BY <1>1, <1>2, <1>3, <1>9, <1>10, <2>1
  <2> QED BY <1>12, <2>2 DEF Once
<1> QED BY <1>8, <1>11, <1>12

LEMMA LineHeard ==
  ASSUME NEW S, NEW s \in Seq(S), s # << >>
  PROVE  /\ Tail(s) \in Seq(S) /\ Thins(Tail(s), s, {})
         /\ Head(s) \in S /\ 1 \in DOMAIN s /\ Head(s) = s[1]
         /\ \A K : Head(s).kind \in K => Holds(s, K)
         /\ \A K : Once(s, K) /\ Head(s).kind \in K => ~Holds(Tail(s), K)
<1>1. Len(s) \in Nat /\ 1 \in DOMAIN s /\ Head(s) = s[1] /\ Head(s) \in S
  BY EmptySeq, LenProperties, HeadTailProperties
<1>2. PICK k \in DOMAIN s : k = 1
  BY <1>1
<1>3. Tail(s) = SubSeq(s, k + 1, Len(s))
  BY <1>2, TailIsSubSeq
<1>4. /\ Tail(s) \in Seq(S) /\ Thins(Tail(s), s, {})
      /\ \A K : \A i \in 1 .. k : Once(s, K) /\ s[i].kind \in K => ~Holds(Tail(s), K)
  BY <1>3, LineDrops
<1>5. 1 \in 1 .. k
  BY <1>2
<1>6. \A K : Head(s).kind \in K => Holds(s, K)
  BY <1>1 DEF Holds
<1>7. \A K : Once(s, K) /\ Head(s).kind \in K => ~Holds(Tail(s), K)
  BY <1>1, <1>4, <1>5
<1> QED BY <1>1, <1>4, <1>6, <1>7

LEMMA LineDamaged ==
  ASSUME NEW S, NEW s \in Seq(S), NEW n \in DOMAIN s, NEW kinds,
         \A k \in kinds : Byte(k) \in S,
         NEW u, u \in Damaged(s, n, kinds)
  PROVE  u \in Seq(S) /\ Thins(u, s, kinds)
<1>1. /\ Len(s) \in Nat /\ DOMAIN s = 1 .. Len(s)
      /\ \A i \in DOMAIN s : s[i] \in S
  BY LenProperties, ElementOfSeq
<1>2. CASE u = RemoveAt(s, n)
  <2>1. PICK l \in Nat : l = Len(s)
    BY <1>1
  <2>2. n \in Nat /\ 1 <= n /\ n <= l
    BY <1>1, <2>1
  <2> DEFINE a == SubSeq(s, 1, n - 1)
             b == SubSeq(s, n + 1, l)
  <2>3. u = a \o b
    BY <1>2, <2>1 DEF RemoveAt
  <2>4. /\ a \in Seq(S) /\ Len(a) = n - 1
        /\ \A i \in 1 .. n - 1 : a[i] = s[i]
    <3>1. PICK p \in Int : p = n - 1
      BY <2>2
    <3>2. PICK o \in Int : o = 1
      OBVIOUS
    <3>3. \A i \in o .. p : s[i] \in S
      BY <1>1, <2>1, <2>2, <3>1, <3>2
    <3>4. /\ SubSeq(s, o, p) \in Seq(S)
          /\ Len(SubSeq(s, o, p)) = (IF o <= p THEN p - o + 1 ELSE 0)
          /\ \A i \in 1 .. p - o + 1 : SubSeq(s, o, p)[i] = s[o + i - 1]
      BY <3>3, SubSeqProperties
    <3>5. a = SubSeq(s, o, p)
      BY <3>1, <3>2
    <3> HIDE DEF a
    <3>6. Len(a) = n - 1
      BY <2>2, <3>1, <3>2, <3>4, <3>5
    <3>7. ASSUME NEW i \in 1 .. n - 1 PROVE a[i] = s[i]
      <4>1. i \in 1 .. p - o + 1 /\ o + i - 1 = i
        BY <2>2, <3>1, <3>2
      <4> QED BY <3>4, <3>5, <4>1
    <3> QED BY <3>4, <3>5, <3>6, <3>7
  <2>5. /\ b \in Seq(S) /\ Len(b) = l - n
        /\ \A i \in 1 .. l - n : b[i] = s[i + n]
    <3>1. PICK o \in Int : o = n + 1
      BY <2>2
    <3>3. \A i \in o .. l : s[i] \in S
      BY <1>1, <2>1, <2>2, <3>1
    <3>4. /\ SubSeq(s, o, l) \in Seq(S)
          /\ Len(SubSeq(s, o, l)) = (IF o <= l THEN l - o + 1 ELSE 0)
          /\ \A i \in 1 .. l - o + 1 : SubSeq(s, o, l)[i] = s[o + i - 1]
      BY <3>3, SubSeqProperties
    <3>5. b = SubSeq(s, o, l)
      BY <3>1
    <3> HIDE DEF b
    <3>6. Len(b) = l - n
      BY <2>2, <3>1, <3>4, <3>5
    <3>7. ASSUME NEW i \in 1 .. l - n PROVE b[i] = s[i + n]
      <4>1. i \in 1 .. l - o + 1 /\ o + i - 1 = i + n
        BY <2>2, <3>1
      <4> QED BY <3>4, <3>5, <4>1
    <3> QED BY <3>4, <3>5, <3>6, <3>7
  <2> HIDE DEF a, b
  <2>6. /\ a \o b \in Seq(S)
        /\ Len(a \o b) = Len(a) + Len(b)
        /\ \A i \in 1 .. Len(a) + Len(b) :
             (a \o b)[i] = IF i <= Len(a) THEN a[i] ELSE b[i - Len(a)]
    BY <2>4, <2>5, ConcatProperties
  <2>7. u \in Seq(S) /\ Len(u) = l - 1
    BY <2>2, <2>3, <2>4, <2>5, <2>6
  <2>8. DOMAIN u = 1 .. l - 1
    BY <2>7, LenProperties
  <2> DEFINE f == [i \in DOMAIN u |-> IF i <= n - 1 THEN i ELSE i + 1]
  <2>9. \A i \in DOMAIN u : f[i] \in DOMAIN s /\ u[i] = s[f[i]]
    <3> TAKE i \in DOMAIN u
    <3>1. i \in 1 .. Len(a) + Len(b)
      BY <2>2, <2>4, <2>5, <2>8
    <3>2. CASE i <= n - 1
      <4>1. i \in 1 .. n - 1 /\ i \in DOMAIN s /\ f[i] = i
        BY <1>1, <2>1, <2>2, <2>8, <3>2
      <4>2. u[i] = a[i]
        BY <2>3, <2>4, <2>6, <3>1, <3>2
      <4> QED BY <2>4, <4>1, <4>2
    <3>3. CASE ~(i <= n - 1)
      <4>1. /\ i - (n - 1) \in 1 .. l - n /\ i - (n - 1) + n = i + 1
            /\ i + 1 \in DOMAIN s /\ f[i] = i + 1
        BY <1>1, <2>1, <2>2, <2>8, <3>3
      <4>2. u[i] = b[i - (n - 1)]
        BY <2>3, <2>4, <2>6, <3>1, <3>3
      <4> QED BY <2>5, <4>1, <4>2
    <3> QED BY <3>2, <3>3
  <2>10. \A i, j \in DOMAIN u : (f[i] = f[j] => i = j) /\ (i < j => f[i] < f[j])
    BY <2>2, <2>8
  <2>11. f \in [DOMAIN u -> DOMAIN s]
    BY <2>9
  <2> HIDE DEF f
  <2> QED BY <2>7, <2>9, <2>10, <2>11 DEF Thins
<1>3. CASE u # RemoveAt(s, n)
  <2>1. PICK k \in kinds : u = [s EXCEPT ![n] = Byte(k)] /\ s[n].kind = "packet"
    BY <1>3 DEF Damaged, ReplaceAt
  <2>2. PICK m \in S : m = Byte(k)
    BY <2>1
  <2>3. u \in Seq(S) /\ Len(u) = Len(s)
    BY <1>1, <2>1, <2>2, ExceptSeq
  <2>4. DOMAIN u = DOMAIN s
    BY <2>1
  <2>5. \A i \in DOMAIN u : u[i] = s[i] \/ (s[i].kind = "packet" /\ u[i] = Byte(k))
    BY <2>1
  <2> DEFINE f == [i \in DOMAIN u |-> i]
  <2>6. f \in [DOMAIN u -> DOMAIN s] /\ \A i \in DOMAIN u : f[i] = i
    BY <2>4
  <2> HIDE DEF f
  <2> QED BY <2>3, <2>5, <2>6 DEF Thins
<1> QED BY <1>2, <1>3

-----------------------------------------------------------------------------
(* The order of the packets on a line.                                     *)

Follows(u, s) == \A low, high : InOrder(s, low, high) => InOrder(u, low, high)

LEMMA ThinsFollow ==
  ASSUME NEW u, NEW s, NEW kinds, Thins(u, s, kinds), "packet" \notin kinds
  PROVE  Follows(u, s)
<1>1. PICK f \in [DOMAIN u -> DOMAIN s] : \A i \in DOMAIN u :
        /\ u[i] = s[f[i]] \/ (s[f[i]].kind = "packet" /\ \E k \in kinds : u[i] = Byte(k))
        /\ \A j \in DOMAIN u : (f[i] = f[j] => i = j) /\ (i < j => f[i] < f[j])
  BY DEF Thins
<1>2. \A i \in DOMAIN u : u[i].kind = "packet" => u[i] = s[f[i]]
  BY <1>1 DEF Byte
<1>3. SUFFICES ASSUME NEW low, NEW high, InOrder(s, low, high)
               PROVE  InOrder(u, low, high)
  BY DEF Follows
<1>4. PICK n \in [DOMAIN s -> Nat] : \A i \in DOMAIN s : s[i].kind = "packet" =>
        /\ s[i].number = n[i] % Modulus /\ low <= n[i] /\ n[i] <= high
        /\ \A j \in DOMAIN s : i < j /\ s[j].kind = "packet" => n[i] <= n[j]
  BY <1>3 DEF InOrder
<1> DEFINE l == [i \in DOMAIN u |-> n[f[i]]]
<1>5. l \in [DOMAIN u -> Nat] /\ \A i \in DOMAIN u : l[i] = n[f[i]] /\ f[i] \in DOMAIN s
  OBVIOUS
<1> HIDE DEF l
<1>6. ASSUME NEW i \in DOMAIN u, u[i].kind = "packet"
      PROVE  /\ u[i].number = l[i] % Modulus /\ low <= l[i] /\ l[i] <= high
             /\ \A j \in DOMAIN u : i < j /\ u[j].kind = "packet" => l[i] <= l[j]
  <2>1. u[i] = s[f[i]] /\ f[i] \in DOMAIN s /\ s[f[i]].kind = "packet" /\ l[i] = n[f[i]]
    BY <1>2, <1>5, <1>6
  <2>2. ASSUME NEW j \in DOMAIN u, i < j, u[j].kind = "packet" PROVE l[i] <= l[j]
    <3>1. f[i] < f[j] /\ f[j] \in DOMAIN s /\ s[f[j]].kind = "packet" /\ l[j] = n[f[j]]
      BY <1>1, <1>2, <1>5, <2>2
    <3> QED BY <1>4, <2>1, <3>1
  <2> QED BY <1>4, <2>1, <2>2
<1> QED BY <1>5, <1>6 DEF InOrder

LEMMA WordFollows ==
  ASSUME NEW S, NEW s \in Seq(S), NEW m, m.kind # "packet"
  PROVE  Follows(Append(s, m), s)
<1>1. PICK u : u = Append(s, m)
  OBVIOUS
<1>2. /\ Len(s) \in Nat /\ DOMAIN s = 1 .. Len(s) /\ DOMAIN u = 1 .. Len(s) + 1
      /\ u[Len(s) + 1] = m /\ \A i \in 1 .. Len(s) : u[i] = s[i]
  BY <1>1, AppendProperties, LenProperties
<1>3. \A i \in DOMAIN u : u[i].kind = "packet" => i \in DOMAIN s /\ u[i] = s[i]
  BY <1>2
<1>4. SUFFICES ASSUME NEW low, NEW high, InOrder(s, low, high)
               PROVE  InOrder(u, low, high)
  BY <1>1 DEF Follows
<1>5. PICK n \in [DOMAIN s -> Nat] : \A i \in DOMAIN s : s[i].kind = "packet" =>
        /\ s[i].number = n[i] % Modulus /\ low <= n[i] /\ n[i] <= high
        /\ \A j \in DOMAIN s : i < j /\ s[j].kind = "packet" => n[i] <= n[j]
  BY <1>4 DEF InOrder
<1> DEFINE l == [i \in DOMAIN u |-> IF i \in DOMAIN s THEN n[i] ELSE 0]
<1>6. l \in [DOMAIN u -> Nat] /\ \A i \in DOMAIN u : i \in DOMAIN s => l[i] = n[i]
  OBVIOUS
<1> HIDE DEF l
<1>7. ASSUME NEW i \in DOMAIN u, u[i].kind = "packet"
      PROVE  /\ u[i].number = l[i] % Modulus /\ low <= l[i] /\ l[i] <= high
             /\ \A j \in DOMAIN u : i < j /\ u[j].kind = "packet" => l[i] <= l[j]
  BY <1>3, <1>5, <1>6, <1>7
<1> QED BY <1>6, <1>7 DEF InOrder

LEMMA PacketFollows ==
  ASSUME NEW S, NEW s \in Seq(S), NEW m, NEW k \in Nat, m.number = k % Modulus,
         NEW low \in Int, NEW high \in Int, InOrder(s, low, high), low <= k, high <= k
  PROVE  InOrder(Append(s, m), low, k)
<1>1. PICK u : u = Append(s, m)
  OBVIOUS
<1>2. /\ Len(s) \in Nat /\ DOMAIN s = 1 .. Len(s) /\ DOMAIN u = 1 .. Len(s) + 1
      /\ u[Len(s) + 1] = m /\ \A i \in 1 .. Len(s) : u[i] = s[i]
  BY <1>1, AppendProperties, LenProperties
<1>3. PICK e \in Nat : e = Len(s) + 1
  BY <1>2
<1>4. /\ \A i \in DOMAIN u : i \in Nat /\ i <= e /\ (i = e \/ i \in DOMAIN s)
      /\ \A i \in DOMAIN s : u[i] = s[i] /\ i < e
      /\ u[e] = m /\ e \notin DOMAIN s
  BY <1>2, <1>3
<1>5. PICK n \in [DOMAIN s -> Nat] : \A i \in DOMAIN s : s[i].kind = "packet" =>
        /\ s[i].number = n[i] % Modulus /\ low <= n[i] /\ n[i] <= high
        /\ \A j \in DOMAIN s : i < j /\ s[j].kind = "packet" => n[i] <= n[j]
  BY DEF InOrder
<1> DEFINE l == [i \in DOMAIN u |-> IF i \in DOMAIN s THEN n[i] ELSE k]
<1>6. /\ l \in [DOMAIN u -> Nat]
      /\ \A i \in DOMAIN u : l[i] = IF i \in DOMAIN s THEN n[i] ELSE k
  OBVIOUS
<1> HIDE DEF l
<1>7. ASSUME NEW i \in DOMAIN u, u[i].kind = "packet"
      PROVE  /\ u[i].number = l[i] % Modulus /\ low <= l[i] /\ l[i] <= k
             /\ \A j \in DOMAIN u : i < j /\ u[j].kind = "packet" => l[i] <= l[j]
  <2>1. CASE i = e
    <3>1. l[i] = k /\ u[i] = m /\ \A j \in DOMAIN u : ~(i < j)
      BY <1>4, <1>6, <2>1
    <3> QED BY <3>1
  <2>2. CASE i # e
    <3>1. i \in DOMAIN s /\ u[i] = s[i] /\ l[i] = n[i] /\ n[i] \in Nat
      BY <1>4, <1>6, <2>2
    <3>2. s[i].number = n[i] % Modulus /\ low <= n[i] /\ n[i] <= k
      BY <1>5, <1>7, <3>1
    <3>3. ASSUME NEW j \in DOMAIN u, i < j, u[j].kind = "packet" PROVE l[i] <= l[j]
      <4>1. CASE j = e
        BY <1>4, <1>6, <3>1, <3>2, <4>1
      <4>2. CASE j # e
        <5>1. j \in DOMAIN s /\ u[j] = s[j] /\ l[j] = n[j]
          BY <1>4, <1>6, <4>2
        <5> QED BY <1>5, <1>7, <3>1, <3>3, <5>1
      <4> QED BY <4>1, <4>2
    <3> QED BY <3>1, <3>2, <3>3
  <2> QED BY <2>1, <2>2
<1>8. InOrder(u, low, k)
  BY <1>6, <1>7 DEF InOrder
<1> QED BY <1>1, <1>8

LEMMA HeadInOrder ==
  ASSUME NEW S, NEW s \in Seq(S), s # << >>, Head(s).kind = "packet",
         NEW low \in Int, NEW high \in Int, InOrder(s, low, high)
  PROVE  \E k \in Nat : /\ low <= k /\ k <= high /\ Head(s).number = k % Modulus
                        /\ InOrder(Tail(s), k, high)
<1>1. PICK u : u = Tail(s)
  OBVIOUS
<1>2. /\ Len(s) \in Nat /\ DOMAIN s = 1 .. Len(s) /\ 1 \in DOMAIN s /\ Head(s) = s[1]
      /\ u \in Seq(S) /\ Len(u) = Len(s) - 1 /\ \A i \in 1 .. Len(u) : u[i] = s[i + 1]
  BY <1>1, EmptySeq, LenProperties, HeadTailProperties
<1>3. /\ DOMAIN u = 1 .. Len(s) - 1
      /\ \A i \in DOMAIN u : i \in Nat /\ 1 < i + 1 /\ i + 1 \in DOMAIN s /\ u[i] = s[i + 1]
      /\ \A i, j \in DOMAIN u : i < j => i + 1 < j + 1
  <2>1. DOMAIN u = 1 .. Len(s) - 1
    BY <1>2, LenProperties
  <2> QED BY <1>2, <2>1
<1>4. PICK n \in [DOMAIN s -> Nat] : \A i \in DOMAIN s : s[i].kind = "packet" =>
        /\ s[i].number = n[i] % Modulus /\ low <= n[i] /\ n[i] <= high
        /\ \A j \in DOMAIN s : i < j /\ s[j].kind = "packet" => n[i] <= n[j]
  BY DEF InOrder
<1>5. PICK k \in Nat : k = n[1]
  BY <1>2
<1>6. low <= k /\ k <= high /\ Head(s).number = k % Modulus
  BY <1>2, <1>4, <1>5
<1> DEFINE l == [i \in DOMAIN u |-> n[i + 1]]
<1>7. l \in [DOMAIN u -> Nat] /\ \A i \in DOMAIN u : l[i] = n[i + 1]
  BY <1>3
<1> HIDE DEF l
<1>8. ASSUME NEW i \in DOMAIN u, u[i].kind = "packet"
      PROVE  /\ u[i].number = l[i] % Modulus /\ k <= l[i] /\ l[i] <= high
             /\ \A j \in DOMAIN u : i < j /\ u[j].kind = "packet" => l[i] <= l[j]
  <2>1. i + 1 \in DOMAIN s /\ s[i + 1].kind = "packet" /\ u[i] = s[i + 1] /\ l[i] = n[i + 1]
    BY <1>3, <1>7, <1>8
  <2>2. u[i].number = l[i] % Modulus /\ l[i] <= high
    BY <1>4, <2>1
  <2>3. k <= l[i]
    <3>1. 1 < i + 1 /\ s[1].kind = "packet" /\ 1 \in DOMAIN s
      BY <1>2, <1>3
    <3> QED BY <1>4, <1>5, <2>1, <3>1
  <2>4. ASSUME NEW j \in DOMAIN u, i < j, u[j].kind = "packet" PROVE l[i] <= l[j]
    <3>1. /\ j + 1 \in DOMAIN s /\ s[j + 1].kind = "packet" /\ l[j] = n[j + 1]
          /\ i + 1 < j + 1
      BY <1>3, <1>7, <2>4
    <3> QED BY <1>4, <2>1, <3>1
  <2> QED BY <2>2, <2>3, <2>4
<1>9. InOrder(u, k, high)
  BY <1>7, <1>8 DEF InOrder
<1> QED BY <1>1, <1>6, <1>9

LEMMA OrderWidens ==
  ASSUME NEW s, NEW low \in Int, NEW high \in Int, InOrder(s, low, high),
         NEW l \in Int, NEW h \in Int, l <= low, high <= h
  PROVE  InOrder(s, l, h)
<1>1. PICK n \in [DOMAIN s -> Nat] : \A i \in DOMAIN s : s[i].kind = "packet" =>
        /\ s[i].number = n[i] % Modulus /\ low <= n[i] /\ n[i] <= high
        /\ \A j \in DOMAIN s : i < j /\ s[j].kind = "packet" => n[i] <= n[j]
  BY DEF InOrder
<1>2. \A i \in DOMAIN s : s[i].kind = "packet" => n[i] \in Nat /\ l <= n[i] /\ n[i] <= h
  BY <1>1
<1> QED BY <1>1, <1>2 DEF InOrder

(* A block that is not before the one that was waited for, and has its     *)
(* number, is not before it.                                               *)
LEMMA NotBefore ==
  ASSUME NEW b \in Nat \ {0}, NEW k \in Nat, b - 1 <= k, k % Modulus = b % Modulus
  PROVE  b <= k
<1>1. PICK d \in Nat : b = d + 1
  <2>1. b - 1 \in Nat /\ b = b - 1 + 1
    OBVIOUS
  <2> QED BY <2>1
<1>2. d % Modulus # (d + 1) % Modulus
  BY NumbersDiffer
<1>3. k # d
  BY <1>1, <1>2
<1> QED BY <1>1, <1>3

-----------------------------------------------------------------------------
(* What stays as it is when the file is the same.                          *)

DeviceRecord ==
  [state : {"off", "on", "done", "aborted"}, crc : BOOLEAN, block : 1 .. Blocks + 1,
   tries : 0 .. MaxTries, file : Seq(DataBlocks)]

AllSlips == {"rewound", "doubled", "early", "unsaved", "misread"}

LEMMA SameFile ==
  ASSUME size' = size
  PROVE  /\ Blocks' = Blocks /\ Whole' = Whole /\ DataBlocks' = DataBlocks
         /\ ForDevice' = ForDevice /\ ForElecterm' = ForElecterm
<1>1. Blocks' = Blocks /\ DataBlocks' = DataBlocks
  BY DEF Blocks, DataBlocks
<1>2. \A o : Data(o)' = Data(o)
  BY DEF Data
<1>3. Whole' = Whole
  BY <1>1, <1>2 DEF Whole
<1>4. ForDevice' = ForDevice /\ ForElecterm' = ForElecterm
  BY <1>1 DEF ForDevice, ForElecterm, Packets
<1> QED BY <1>1, <1>3, <1>4

LEMMA GoodStays ==
  ASSUME NEW n, NEW data, NEW w, NEW s, NEW t, s \subseteq t, Good(n, data, w, s)
  PROVE  Good(n, data, w, t)
BY DEF Good

LEMMA SizeIsNat ==
  ASSUME TypeOK
  PROVE  size \in Nat /\ Blocks \in Nat
<1>1. size \in Nat
  BY DEF TypeOK
<1> QED BY <1>1, BlocksFacts

LEMMA WordsTyped ==
  /\ \A k \in {"damaged", "EOT", "ACK", "NAK", "CAN"} : Byte(k) \in ForDevice
  /\ \A k \in {"damaged", "headless", "short", "C", "EOT", "ACK", "NAK", "CAN"} :
       Byte(k) \in ForElecterm
  /\ \A k : Byte(k).kind = k
BY DEF Byte, ForDevice, ForElecterm

LEMMA PacketTyped ==
  ASSUME NEW c \in BOOLEAN, NEW n \in Nat, NEW data \in DataBlocks
  PROVE  /\ Packet(c, n, data) \in ForDevice /\ Packet(c, n, data) \in ForElecterm
         /\ Packet(c, n, data).kind = "packet" /\ Packet(c, n, data).data = data
         /\ Packet(c, n, data).number = n % Modulus
<1>1. n % Modulus \in 0 .. Modulus - 1
  BY NumbersDiffer
<1>2. Packet(c, n, data) \in Packets
  BY <1>1 DEF Packet, Packets
<1> QED BY <1>2 DEF Packet, ForDevice, ForElecterm

LEMMA MessageFields ==
  ASSUME NEW m, m \in ForDevice \/ m \in ForElecterm, m.kind = "packet"
  PROVE  m.number \in 0 .. Modulus - 1 /\ m.data \in DataBlocks
BY DEF ForDevice, ForElecterm, Packets

-----------------------------------------------------------------------------
(* Sending: what the session does.                                         *)

SendOK == TypeOK /\ Parts /\ mode = "send" /\ SendInv

\* the session's part of the types
SessionTypes ==
  /\ state \in {"idle", "waiting_remote", "receiving", "sending"}
  /\ given \in {"no", "coming", "yes"}
  /\ timer \in {"none", "receive", "send"}
  /\ retries \in 0 .. MaxRetries /\ useCrc \in BOOLEAN /\ buffered \in BOOLEAN
  /\ block \in 1 .. Blocks + 1 /\ sentBytes \in 0 .. size
  /\ saved \in Seq(DataBlocks)
  /\ outcome \in {"none", "complete", "error", "ended"}
  /\ slips \subseteq AllSlips

LEMMA TypesKept ==
  ASSUME TypeOK, mode' = mode, size' = size, faults' \in 0 .. MaxFaults,
         SessionTypes', toDevice' \in Seq(ForDevice), toElecterm' \in Seq(ForElecterm),
         dev' \in DeviceRecord
  PROVE  TypeOK'
<1>1. Blocks' = Blocks /\ DataBlocks' = DataBlocks
      /\ ForDevice' = ForDevice /\ ForElecterm' = ForElecterm
  BY SameFile
<1> QED BY <1>1 DEF TypeOK, SessionTypes, DeviceRecord, AllSlips

(* The session is over.                                                    *)
LEMMA EndTyped ==
  ASSUME TypeOK, size' = size, NEW how \in {"complete", "error", "ended"}, End(how),
         useCrc' \in BOOLEAN, slips' \subseteq AllSlips
  PROVE  /\ SessionTypes'
         /\ state' = "idle" /\ timer' = "none" /\ block' = 1 /\ outcome' = how
         /\ saved' = saved
<1>1. Blocks' = Blocks /\ DataBlocks' = DataBlocks
  BY SameFile
<1>2. Blocks \in Nat /\ size \in Nat
  BY SizeIsNat
<1>3. 1 \in 1 .. Blocks + 1 /\ 0 \in 0 .. size /\ 0 \in 0 .. MaxRetries
  BY <1>2
<1>4. given' \in {"no", "coming", "yes"}
  BY DEF End, TypeOK
<1>5. /\ state' = "idle" /\ timer' = "none" /\ block' = 1 /\ outcome' = how
      /\ saved' = saved /\ retries' = 0 /\ sentBytes' = 0 /\ buffered' = FALSE
  BY DEF End
<1> QED BY <1>1, <1>3, <1>4, <1>5 DEF SessionTypes, TypeOK, AllSlips

-----------------------------------------------------------------------------
(* What a step may do to the lines while electerm sends: on the one to the *)
(* device nothing is added but words that carry nothing.                   *)

Fewer(u, s, K) == (Holds(u, K) => Holds(s, K)) /\ (Once(s, K) => Once(u, K))

Origin(u, s) ==
  \A i \in DOMAIN u : u[i].kind = "packet" => \E j \in DOMAIN s : u[i] = s[j]

Announces(u, s) ==
  Origin(u, s) /\ Follows(u, s) /\ Fewer(u, s, Carried) /\ Fewer(u, s, {"packet"})

Settles(u, s) == Announces(u, s) /\ Fewer(u, s, {"EOT"})

Answers(u, s) == Fewer(u, s, {"ACK"})

LEMMA SameLine ==
  ASSUME NEW s
  PROVE  Settles(s, s) /\ Answers(s, s)
BY DEF Settles, Announces, Answers, Fewer, Origin, Follows

LEMMA ThinLine ==
  ASSUME NEW u, NEW s, NEW kinds, Thins(u, s, kinds)
  PROVE  /\ kinds \subseteq {"damaged"} => Settles(u, s)
         /\ kinds \subseteq {"damaged", "headless", "short"} => Answers(u, s)
         /\ \A K : "packet" \notin K /\ Only(s, K) => Only(u, K)
         /\ kinds \subseteq {"damaged"} /\ Only(s, Sent) => Only(u, Sent)
<1>1. /\ \A K : (kinds \cap K = {} \/ "packet" \in K) => Fewer(u, s, K)
      /\ \A K : kinds \subseteq K \/ "packet" \notin K => (Only(s, K) => Only(u, K))
      /\ \A i \in DOMAIN u : \/ \E j \in DOMAIN s : u[i] = s[j]
                             \/ \E k \in kinds : u[i] = Byte(k)
  BY LineThins DEF Fewer
<1>2. ASSUME kinds \subseteq {"damaged"} PROVE Settles(u, s)
  <2>1. Origin(u, s)
    <3>1. SUFFICES ASSUME NEW i \in DOMAIN u, u[i].kind = "packet"
                   PROVE  \E j \in DOMAIN s : u[i] = s[j]
      BY DEF Origin
    <3>2. \A k \in kinds : u[i] # Byte(k)
      BY <1>2, <3>1 DEF Byte
    <3> QED BY <1>1, <3>2
  <2>2. Fewer(u, s, Carried)
    BY <1>1 DEF Carried
  <2>3. Fewer(u, s, {"packet"})
    BY <1>1
  <2>4. Fewer(u, s, {"EOT"})
    <3>1. kinds \cap {"EOT"} = {}
      BY <1>2
    <3> QED BY <1>1, <3>1
  <2>5. Follows(u, s)
    <3>1. "packet" \notin kinds
      BY <1>2
    <3> QED BY <3>1, ThinsFollow
  <2> QED BY <2>1, <2>2, <2>3, <2>4, <2>5 DEF Settles, Announces
<1>3. ASSUME kinds \subseteq {"damaged", "headless", "short"} PROVE Answers(u, s)
  <2>1. kinds \cap {"ACK"} = {}
    BY <1>3
  <2> QED BY <1>1, <2>1 DEF Answers
<1>4. ASSUME kinds \subseteq {"damaged"}, Only(s, Sent) PROVE Only(u, Sent)
  <2>1. kinds \subseteq Sent
    BY <1>4 DEF Sent
  <2> QED BY <1>1, <1>4, <2>1
<1> QED BY <1>1, <1>2, <1>3, <1>4

LEMMA ThinsMore ==
  ASSUME NEW u, NEW s, NEW kinds, Thins(u, s, {})
  PROVE  Thins(u, s, kinds)
BY DEF Thins

(* A word for the device.                                                  *)
LEMMA WordSaid ==
  ASSUME NEW s \in Seq(ForDevice), NEW k \in {"NAK", "CAN", "EOT"},
         NEW u, u = Append(s, Byte(k))
  PROVE  /\ u \in Seq(ForDevice)
         /\ Only(s, Sent) => Only(u, Sent)
         /\ Announces(u, s)
         /\ k # "EOT" => Settles(u, s)
<1>1. PICK m \in ForDevice : m = Byte(k) /\ m.kind = k
  BY WordsTyped
<1>2. /\ u \in Seq(ForDevice)
      /\ \A K : Holds(u, K) <=> Holds(s, K) \/ m.kind \in K
      /\ \A K : Only(s, K) /\ m.kind \in K => Only(u, K)
      /\ \A K : Once(s, K) /\ (m.kind \notin K \/ ~Holds(s, K)) => Once(u, K)
      /\ \A i \in DOMAIN u : u[i] = m \/ \E j \in DOMAIN s : u[i] = s[j]
  <2>1. u = Append(s, m)
    BY <1>1
  <2>2. Grown(Append(s, m), s, m, ForDevice)
    BY <1>1, LineGrows
  <2> QED BY <2>1, <2>2 DEF Grown
<1>3. \A K : k \notin K => Fewer(u, s, K)
  BY <1>1, <1>2 DEF Fewer
<1>4. Announces(u, s)
  <2>1. Origin(u, s)
    BY <1>1, <1>2 DEF Origin
  <2>2. Follows(u, s)
    BY <1>1, WordFollows
  <2>3. k \notin Carried /\ k \notin {"packet"}
    BY DEF Carried
  <2> QED BY <1>3, <2>1, <2>2, <2>3 DEF Announces
<1>5. Only(s, Sent) => Only(u, Sent)
  BY <1>1, <1>2 DEF Sent
<1>6. ASSUME k # "EOT" PROVE Settles(u, s)
  BY <1>3, <1>4, <1>6 DEF Settles
<1> QED BY <1>2, <1>4, <1>5, <1>6

(* Steps of the session that send no packet: it is over, it goes on, or it *)
(* has not begun to send.  EOT is announced when the device has it all, or *)
(* after a timeout.                                                        *)
LEMMA SessionSteps ==
  ASSUME SendOK, TypeOK', Parts', UNCHANGED <<mode, size, dev>>, slips \subseteq slips',
         \/ state' = "idle" /\ outcome' # "none"
         \/ state = "sending" /\ state' = "sending" /\ UNCHANGED <<block, sentBytes>>
         \/ /\ state = "waiting_remote" \/ (state = "idle" /\ outcome = "none")
            /\ state' # "sending",
         Announces(toDevice', toDevice),
         \/ Fewer(toDevice', toDevice, {"EOT"})
         \/ /\ state' = "sending" \/ (state' = "idle" /\ outcome' # "none")
            /\ On /\ Clear' => dev.block = Blocks + 1 \/ "early" \in slips',
         Answers(toElecterm', toElecterm)
  PROVE  SendOK'
<1>1. Blocks' = Blocks /\ Whole' = Whole
  BY SameFile
<1>2. /\ Unsent /\ AtBlock /\ Queued /\ mode = "send" /\ TypeOK
      /\ Clear => InStep /\ OneAtATime /\ OnTheLine /\ Stored
  BY DEF SendOK, SendInv
<1>3. On' = On /\ dev' = dev /\ (Clear' => Clear)
  BY DEF On, Clear
<1>4. Unsent'
  <2>1. SUFFICES ASSUME state' = "waiting_remote" \/ (state' = "idle" /\ outcome' = "none")
                 PROVE  /\ dev.state \in {"off", "aborted"} /\ dev.block = 1
                        /\ ~Holds(toDevice', Carried) /\ ~Holds(toDevice', {"EOT"})
                        /\ On => ~Holds(toElecterm', {"ACK"})
    BY <1>3 DEF Unsent
  <2>2. state = "waiting_remote" \/ (state = "idle" /\ outcome = "none")
    BY <2>1
  <2>3. Fewer(toDevice', toDevice, {"EOT"}) /\ Fewer(toDevice', toDevice, Carried)
    BY <2>1 DEF Announces
  <2>4. dev.state \in {"off", "aborted"} /\ dev.block = 1
    BY <1>2, <2>2 DEF Unsent
  <2>5. ~Holds(toDevice', Carried) /\ ~Holds(toDevice', {"EOT"})
    BY <1>2, <2>2, <2>3 DEF Unsent, Fewer
  <2>6. On => ~Holds(toElecterm', {"ACK"})
    BY <1>2, <2>2 DEF Unsent, Answers, Fewer
  <2> QED BY <2>4, <2>5, <2>6
<1>5. AtBlock'
  <2> SUFFICES ASSUME state' = "sending" PROVE AtBlock'
    BY DEF AtBlock
  <2>1. state = "sending" /\ UNCHANGED <<block, sentBytes>>
    OBVIOUS
  <2> QED BY <1>1, <1>2, <1>3, <2>1 DEF AtBlock
<1>6. Queued'
  <2>1. Blocks \in Nat /\ block \in Int /\ dev.block \in Int
    BY <1>2, SizeIsNat DEF TypeOK
  <2>2. Latest \in Int /\ Latest' \in Int /\ Latest <= Latest'
    BY <1>1, <1>2, <2>1 DEF Latest, AtBlock
  <2>3. InOrder(toDevice', dev.block - 1, Latest)
    BY <1>2 DEF Announces, Follows, Queued
  <2>4. PICK l \in Int, h \in Int, h2 \in Int :
          l = dev.block - 1 /\ h = Latest /\ h2 = Latest'
    BY <2>1, <2>2
  <2>5. \A s : InOrder(s, l, h) => InOrder(s, l, h2)
    BY <2>2, <2>4, OrderWidens
  <2> QED BY <1>3, <2>3, <2>4, <2>5 DEF Queued
<1> SUFFICES ASSUME Clear' PROVE InStep' /\ OneAtATime' /\ OnTheLine' /\ Stored'
  BY <1>2, <1>4, <1>5, <1>6 DEF SendOK, SendInv
<1>7. InStep /\ OneAtATime /\ OnTheLine /\ Stored
  BY <1>2, <1>3
<1>8. InStep' /\ OneAtATime'
  <2> SUFFICES ASSUME state' = "sending", On PROVE InStep' /\ OneAtATime'
    BY <1>3 DEF InStep, OneAtATime
  <2>1. state = "sending" \/ state = "waiting_remote" \/ (state = "idle" /\ outcome = "none")
    OBVIOUS
  <2>2. state = "sending" /\ UNCHANGED <<block, sentBytes>>
    OBVIOUS
  <2>3. InStep'
    BY <1>3, <1>7, <2>2 DEF InStep
  <2>4. OneAtATime'
    BY <1>3, <1>7, <2>2 DEF OneAtATime, Announces, Answers, Fewer
  <2> QED BY <2>3, <2>4
<1>9. OnTheLine'
  <2> SUFFICES ASSUME On PROVE OnTheLine'
    BY <1>3 DEF OnTheLine
  <2>1. Once(toDevice', {"packet"})
    BY <1>7 DEF OnTheLine, Announces, Fewer
  <2>2. ASSUME NEW i \in DOMAIN toDevice', toDevice'[i].kind = "packet"
        PROVE  \E n \in {dev.block, dev.block - 1} :
                 /\ toDevice'[i].number = n % Modulus
                 /\ Good(n, toDevice'[i].data, Whole, slips')
                 /\ state' = "sending" => n = block'
    <3>1. PICK j \in DOMAIN toDevice : toDevice'[i] = toDevice[j]
      BY <2>2 DEF Announces, Origin
    <3>2. PICK n \in {dev.block, dev.block - 1} :
             /\ toDevice[j].number = n % Modulus /\ Good(n, toDevice[j].data, Whole, slips)
             /\ state = "sending" => n = block
      BY <1>7, <2>2, <3>1 DEF OnTheLine
    <3>3. Good(n, toDevice[j].data, Whole, slips')
      BY <3>2, GoodStays
    <3>4. state' = "sending" => n = block'
      BY <3>2
    <3> QED BY <3>1, <3>2, <3>3, <3>4
  <2>3. Holds(toDevice', {"EOT"}) => dev.block = Blocks + 1 \/ "early" \in slips'
    BY <1>7 DEF OnTheLine, Fewer
  <2> QED BY <1>1, <1>3, <2>1, <2>2, <2>3 DEF OnTheLine
<1>10. Stored'
  <2>1. \A b \in DOMAIN dev.file : Good(b, dev.file[b], Whole, slips')
    BY <1>7, GoodStays DEF Stored
  <2> QED BY <1>1, <1>7, <2>1 DEF Stored
<1> QED BY <1>8, <1>9, <1>10

(* A packet is sent when nothing is under way for the device, nor an       *)
(* answer of its; or once too often.                                       *)
LEMMA PacketSent ==
  ASSUME SendOK, TypeOK', Parts', UNCHANGED <<mode, size, dev>>, slips \subseteq slips',
         NEW c \in BOOLEAN, NEW n \in 1 .. Blocks, NEW data \in DataBlocks,
         Good(n, data, Whole, slips'),
         state' = "sending", block' = n, sentBytes' = Position(n, size),
         toDevice' = Append(toDevice, Packet(c, n, data)),
         dev.block <= n + 1, InOrder(toDevice, dev.block - 1, n),
         On /\ Clear' => /\ dev.block \in {n, n + 1}
                         /\ ~Holds(toDevice, Carried) /\ ~Holds(toElecterm', {"ACK"})
  PROVE  SendOK'
<1>1. Blocks' = Blocks /\ Whole' = Whole
  BY SameFile
<1>2. /\ Unsent /\ AtBlock /\ Queued /\ mode = "send" /\ TypeOK
      /\ Clear => InStep /\ OneAtATime /\ OnTheLine /\ Stored
  BY DEF SendOK, SendInv
<1>3. On' = On /\ dev' = dev /\ (Clear' => Clear)
  BY DEF On, Clear
<1>4. Blocks \in Nat /\ size \in Nat /\ n \in Nat /\ dev.block \in Nat
  <2>1. Blocks \in Nat /\ size \in Nat
    BY <1>2, SizeIsNat
  <2>2. dev.block \in 1 .. Blocks + 1
    BY <1>2 DEF TypeOK
  <2> QED BY <2>1, <2>2
<1>5. PICK m \in ForDevice : /\ m = Packet(c, n, data) /\ m.kind = "packet"
                             /\ m.data = data /\ m.number = n % Modulus
  BY <1>4, PacketTyped
<1>6. PICK s \in Seq(ForDevice) : s = toDevice
  BY <1>2 DEF TypeOK
<1>7. PICK u : u = toDevice'
  OBVIOUS
<1>8. /\ \A K : Holds(u, K) <=> Holds(s, K) \/ m.kind \in K
      /\ \A K : Once(s, K) /\ (m.kind \notin K \/ ~Holds(s, K)) => Once(u, K)
      /\ \A i \in DOMAIN u : u[i] = m \/ \E j \in DOMAIN s : u[i] = s[j]
  <2>1. u = Append(s, m)
    BY <1>5, <1>6, <1>7
  <2>2. Grown(Append(s, m), s, m, ForDevice)
    BY <1>5, <1>6, LineGrows
  <2> QED BY <2>1, <2>2 DEF Grown
<1>9. Unsent'
  BY DEF Unsent
<1>10. AtBlock'
  BY <1>1, <1>3 DEF AtBlock
<1>11. Queued'
  <2>1. PICK l \in Int, h \in Int, k \in Nat : l = dev.block - 1 /\ h = n /\ k = n
    BY <1>4
  <2>2. InOrder(s, l, h) /\ l <= k /\ h <= k /\ m.number = k % Modulus
    BY <1>4, <1>5, <1>6, <2>1
  <2>3. InOrder(Append(s, m), l, k)
    BY <1>6, <2>2, PacketFollows
  <2>4. toDevice' = Append(s, m) /\ Latest' = k /\ dev'.block - 1 = l
    BY <1>3, <1>5, <1>6, <2>1 DEF Latest
  <2> QED BY <2>3, <2>4 DEF Queued
<1> SUFFICES ASSUME Clear' PROVE InStep' /\ OneAtATime' /\ OnTheLine' /\ Stored'
  BY <1>2, <1>9, <1>10, <1>11 DEF SendOK, SendInv
<1>12. ASSUME On
       PROVE  /\ Once(u, Carried) /\ Once(u, {"packet"})
              /\ \A i \in DOMAIN u : u[i].kind = "packet" => u[i] = m
              /\ Holds(u, {"EOT"}) => Holds(toDevice, {"EOT"})
  <2>1. ~Holds(s, Carried)
    BY <1>6, <1>12
  <2>2. ~Holds(s, {"packet"}) /\ Once(s, Carried) /\ Once(s, {"packet"})
    BY <2>1 DEF Holds, Once, Carried
  <2>3. Holds(u, {"EOT"}) => Holds(s, {"EOT"})
    BY <1>5, <1>8
  <2>4. \A i \in DOMAIN u : u[i].kind = "packet" => u[i] = m
    BY <1>8, <2>2 DEF Holds
  <2> QED BY <1>6, <1>8, <2>1, <2>2, <2>3, <2>4
<1>13. InStep' /\ OneAtATime'
  <2> SUFFICES ASSUME On PROVE InStep' /\ OneAtATime'
    BY <1>3 DEF OneAtATime, InStep
  <2>1. Once(toElecterm', {"ACK"}) /\ ~Holds(toElecterm', {"ACK"})
    BY DEF Holds, Once
  <2>2. InStep'
    BY <1>3 DEF InStep
  <2> QED BY <1>7, <1>12, <2>1, <2>2 DEF OneAtATime
<1>14. OnTheLine'
  <2> SUFFICES ASSUME On PROVE OnTheLine'
    BY <1>3 DEF OnTheLine
  <2>1. n \in {dev.block, dev.block - 1}
    BY <1>4
  <2>2. \A i \in DOMAIN u : u[i].kind = "packet" =>
          \E l \in {dev.block, dev.block - 1} :
            /\ u[i].number = l % Modulus /\ Good(l, u[i].data, Whole, slips')
            /\ state' = "sending" => l = block'
    BY <1>5, <1>12, <2>1
  <2>3. Holds(u, {"EOT"}) => dev.block = Blocks + 1 \/ "early" \in slips'
    BY <1>2, <1>3, <1>12 DEF OnTheLine
  <2> QED BY <1>1, <1>3, <1>7, <1>12, <2>2, <2>3 DEF OnTheLine
<1>15. Stored'
  <2>1. \A b \in DOMAIN dev.file : Good(b, dev.file[b], Whole, slips')
    BY <1>2, <1>3, GoodStays DEF Stored
  <2> QED BY <1>1, <1>2, <1>3, <2>1 DEF Stored
<1> QED BY <1>13, <1>14, <1>15

-----------------------------------------------------------------------------
(* The session's actions.                                                  *)

LEMMA SendFacts ==
  ASSUME SendOK
  PROVE  /\ TypeOK /\ Parts /\ mode = "send"
         /\ Unsent /\ AtBlock /\ Queued
         /\ Clear => InStep /\ OneAtATime /\ OnTheLine /\ Stored
         /\ state # "receiving" /\ (timer = "send" => state = "sending")
         /\ Only(toElecterm, Asked)
         /\ Only(toDevice, Sent)
         /\ toDevice \in Seq(ForDevice) /\ toElecterm \in Seq(ForElecterm)
         /\ retries \in 0 .. MaxRetries /\ slips \subseteq AllSlips
         /\ size \in Nat /\ Blocks \in Nat
BY SizeIsNat DEF SendOK, SendInv, Parts, TypeOK, AllSlips

LEMMA SendTypes ==
  ASSUME SendOK, UNCHANGED <<mode, size, dev>>, faults' \in 0 .. MaxFaults, SessionTypes',
         toDevice' \in Seq(ForDevice), toElecterm' \in Seq(ForElecterm)
  PROVE  TypeOK'
<1>1. TypeOK
  BY SendFacts
<1>2. dev' \in DeviceRecord
  BY <1>1 DEF TypeOK, DeviceRecord
<1> QED BY <1>1, <1>2, TypesKept

LEMMA SendParts ==
  ASSUME SendOK, mode' = mode, state' # "receiving", timer' = "send" => state' = "sending",
         Only(toElecterm', Asked),
         Only(toDevice', Sent)
  PROVE  Parts'
BY SendFacts DEF Parts

\* what the session has heard: nothing was added
HeardOf(u) ==
  /\ u \in Seq(ForElecterm) /\ Only(u, Asked) /\ Answers(u, toElecterm)

LEMMA SessionOver ==
  ASSUME SendOK, NEW how \in {"complete", "error", "ended"}, End(how),
         UNCHANGED others, useCrc' \in BOOLEAN,
         slips \subseteq slips', slips' \subseteq AllSlips,
         HeardOf(toElecterm'),
         \/ toDevice' = toDevice
         \/ Write("CAN")
         \/ Write("EOT") /\ (On /\ Clear' => dev.block = Blocks + 1)
  PROVE  SendOK'
<1>1. /\ mode' = mode /\ size' = size /\ faults' = faults /\ dev' = dev
      /\ faults \in 0 .. MaxFaults
  BY SendFacts DEF others, TypeOK
<1>2. SessionTypes' /\ state' = "idle" /\ timer' = "none" /\ outcome' = how
  BY <1>1, SendFacts, EndTyped
<1>3. /\ toDevice' \in Seq(ForDevice)
      /\ Only(toDevice', Sent)
      /\ \/ Settles(toDevice', toDevice)
         \/ /\ Announces(toDevice', toDevice)
            /\ On /\ Clear' => dev.block = Blocks + 1
  <2>1. PICK s \in Seq(ForDevice) : s = toDevice /\ Only(s, Sent)
    BY SendFacts
  <2>2. CASE toDevice' = toDevice
    BY <2>1, <2>2, SameLine
  <2>3. ASSUME NEW k \in {"CAN", "EOT"}, Write(k), k = "EOT" => (On /\ Clear' => dev.block = Blocks + 1)
        PROVE  <1>3!1 /\ <1>3!2 /\ <1>3!3
    <3>1. PICK l \in {"NAK", "CAN", "EOT"} : l = k
      OBVIOUS
    <3>2. PICK u : u = toDevice' /\ u = Append(s, Byte(l))
      BY <2>1, <2>3, <3>1 DEF Write
    <3>3. /\ u \in Seq(ForDevice)
          /\ Only(s, Sent) => Only(u, Sent)
          /\ Announces(u, s)
          /\ l # "EOT" => Settles(u, s)
      BY <3>1, <3>2, WordSaid
    <3> QED BY <2>1, <2>3, <3>1, <3>2, <3>3
  <2> QED BY <2>2, <2>3
<1>4. TypeOK'
  BY <1>1, <1>2, <1>3, SendTypes DEF HeardOf
<1>5. Parts'
  BY <1>1, <1>2, <1>3, SendParts DEF HeardOf
<1>6. /\ Announces(toDevice', toDevice)
      /\ \/ Fewer(toDevice', toDevice, {"EOT"})
         \/ On /\ Clear' => dev.block = Blocks + 1
  BY <1>3 DEF Settles
<1>7. Answers(toElecterm', toElecterm) /\ state' = "idle" /\ outcome' # "none"
  BY <1>2 DEF HeardOf
<1> QED BY <1>1, <1>4, <1>5, <1>6, <1>7, SessionSteps

LEMMA SendNextKeeps ==
  ASSUME SendOK, NEW crc \in BOOLEAN, NEW offset \in Nat, NEW number \in Nat,
         NEW tries \in 0 .. MaxRetries,
         SendNext(crc, offset, number, tries), UNCHANGED others, useCrc' \in BOOLEAN,
         slips \subseteq slips', slips' \subseteq AllSlips, HeardOf(toElecterm'),
         offset < size => /\ number \in 1 .. Blocks
                          /\ Good(number, Data(offset), Whole, slips')
                          /\ Least(offset + BlockSize, size) = Position(number, size)
                          /\ dev.block <= number + 1
                          /\ InOrder(toDevice, dev.block - 1, number),
         On /\ Clear' => /\ offset < size => dev.block \in {number, number + 1}
                         /\ offset >= size => dev.block = Blocks + 1
                         /\ ~Holds(toDevice, Carried) /\ ~Holds(toElecterm', {"ACK"})
  PROVE  SendOK'
<1>1. CASE /\ offset < size
           /\ toDevice' = Append(toDevice, Packet(crc, number, Data(offset)))
           /\ state' = "sending" /\ timer' = "send" /\ retries' = tries /\ block' = number
           /\ sentBytes' = Least(offset + BlockSize, size)
           /\ UNCHANGED <<given, buffered, saved, outcome>>
  <2>1. /\ TypeOK /\ size \in Nat /\ Blocks \in Nat /\ number \in 1 .. Blocks
        /\ mode' = mode /\ size' = size /\ dev' = dev /\ faults' = faults
        /\ faults \in 0 .. MaxFaults /\ state' = "sending"
    BY <1>1, SendFacts DEF others, TypeOK
  <2>2. Blocks' = Blocks /\ DataBlocks' = DataBlocks
    BY <2>1, SameFile
  <2>3. PICK data \in DataBlocks : data = Data(offset)
    BY <2>1, DataTyped
  <2>4. PICK m \in ForDevice : m = Packet(crc, number, data) /\ m.kind = "packet"
    BY <2>3, PacketTyped
  <2>5. toDevice' = Append(toDevice, m)
    BY <1>1, <2>3, <2>4
  <2>6. Grown(Append(toDevice, m), toDevice, m, ForDevice)
    <3>1. toDevice \in Seq(ForDevice)
      BY SendFacts
    <3> QED BY <2>4, <3>1, LineGrows
  <2>7. toDevice' \in Seq(ForDevice) /\ Only(toDevice', Sent)
    <3>1. m.kind \in Sent
      BY <2>4 DEF Sent
    <3>2. Only(toDevice, Sent)
      BY SendFacts
    <3> QED BY <2>5, <2>6, <3>1, <3>2 DEF Grown
  <2>8. sentBytes' \in 0 .. size
    BY <1>1, <2>1 DEF Least
  <2>9. SessionTypes'
    <3>1. /\ given \in {"no", "coming", "yes"} /\ saved \in Seq(DataBlocks)
          /\ buffered \in BOOLEAN
          /\ outcome \in {"none", "complete", "error", "ended"}
      BY <2>1 DEF TypeOK
    <3>2. number \in 1 .. Blocks + 1
      BY <2>1
    <3> QED BY <1>1, <2>1, <2>2, <2>8, <3>1, <3>2 DEF SessionTypes, AllSlips
  <2>10. TypeOK'
    BY <2>1, <2>7, <2>9, SendTypes DEF HeardOf
  <2>11. Parts'
    BY <2>1, <2>7, SendParts DEF HeardOf
  <2>12. sentBytes' = Position(number, size) /\ Good(number, data, Whole, slips')
    BY <1>1, <2>3
  <2>13. toDevice' = Append(toDevice, Packet(crc, number, data)) /\ block' = number
    BY <1>1, <2>3
  <2>14. On /\ Clear' => /\ dev.block \in {number, number + 1}
                         /\ ~Holds(toDevice, Carried) /\ ~Holds(toElecterm', {"ACK"})
    BY <1>1
  <2>15. dev.block <= number + 1 /\ InOrder(toDevice, dev.block - 1, number)
    BY <1>1
  <2> QED BY <2>1, <2>3, <2>10, <2>11, <2>12, <2>13, <2>14, <2>15, PacketSent
<1>2. CASE offset >= size /\ Write("EOT") /\ End("complete")
  BY <1>2, SessionOver
<1>3. CASE Write("CAN") /\ End("ended")
  BY <1>3, SessionOver
<1> QED BY <1>1, <1>2, <1>3 DEF SendNext

LEMMA SendQuiet ==
  ASSUME SendOK, UNCHANGED <<mode, size, dev, slips, block, sentBytes, buffered, saved, outcome>>,
         useCrc' \in BOOLEAN,
         faults' \in 0 .. MaxFaults, given' \in {"no", "coming", "yes"},
         timer' \in {"none", "receive", timer}, retries' \in 0 .. MaxRetries,
         state' = state \/ (state = "idle" /\ outcome = "none" /\ state' = "waiting_remote"),
         timer' = "send" => state' = state,
         toDevice' \in Seq(ForDevice), Only(toDevice', Sent),
         Settles(toDevice', toDevice), HeardOf(toElecterm')
  PROVE  SendOK'
<1>1. Blocks' = Blocks /\ DataBlocks' = DataBlocks
  BY SameFile
<1>2. SessionTypes'
  BY <1>1, SendFacts DEF SessionTypes, TypeOK, AllSlips
<1>3. TypeOK'
  BY <1>2, SendTypes DEF HeardOf
<1>4. Parts'
  <2>1. state' # "receiving" /\ (timer' = "send" => state' = "sending")
    BY SendFacts
  <2> QED BY <2>1, SendParts DEF HeardOf
<1>5. Answers(toElecterm', toElecterm)
  BY DEF HeardOf
<1>6. state' \in {"idle", "waiting_remote", "sending"} /\ state' \in {state, "waiting_remote"}
  BY SendFacts DEF TypeOK
<1>7. \/ state' = "idle" /\ outcome' # "none"
      \/ state = "sending" /\ state' = "sending" /\ UNCHANGED <<block, sentBytes>>
      \/ /\ state = "waiting_remote" \/ (state = "idle" /\ outcome = "none")
         /\ state' # "sending"
  BY <1>6
<1>8. Announces(toDevice', toDevice) /\ Fewer(toDevice', toDevice, {"EOT"})
  BY DEF Settles
<1> QED BY <1>3, <1>4, <1>5, <1>7, <1>8, SessionSteps

LEMMA SameLines ==
  ASSUME SendOK
  PROVE  /\ toDevice \in Seq(ForDevice) /\ Only(toDevice, Sent)
         /\ Settles(toDevice, toDevice) /\ HeardOf(toElecterm)
BY SendFacts, SameLine DEF HeardOf

LEMMA NakSaid ==
  ASSUME SendOK, Write("NAK")
  PROVE  /\ toDevice' \in Seq(ForDevice) /\ Only(toDevice', Sent)
         /\ Settles(toDevice', toDevice)
<1>1. PICK s \in Seq(ForDevice) : s = toDevice /\ Only(s, Sent)
  BY SendFacts
<1>2. PICK k \in {"NAK", "CAN", "EOT"} : k = "NAK"
  OBVIOUS
<1>3. PICK u : u = toDevice' /\ u = Append(s, Byte(k))
  BY <1>1, <1>2 DEF Write
<1>4. /\ u \in Seq(ForDevice)
      /\ Only(s, Sent) => Only(u, Sent)
      /\ k # "EOT" => Settles(u, s)
  BY <1>3, WordSaid
<1> QED BY <1>1, <1>2, <1>3, <1>4

LEMMA ThinHeard ==
  ASSUME SendOK, NEW u \in Seq(ForElecterm), NEW kinds \in SUBSET {"damaged", "headless", "short"},
         Thins(u, toElecterm, kinds)
  PROVE  HeardOf(u)
<1>1. Answers(u, toElecterm)
  BY ThinLine
<1>2. "packet" \notin Asked
  BY DEF Asked
<1>3. Only(u, Asked)
  BY <1>2, SendFacts, ThinLine
<1> QED BY <1>1, <1>3 DEF HeardOf

LEMMA StartSends ==
  ASSUME SendOK, Start
  PROVE  SendOK'
<1>1. /\ state = "idle" /\ outcome = "none" /\ state' = "waiting_remote"
      /\ given' = "coming" /\ timer' = "receive"
      /\ UNCHANGED <<retries, block, sentBytes, buffered, saved, outcome, slips>>
      /\ UNCHANGED <<toDevice, toElecterm, mode, size, faults, dev>>
  BY DEF Start, others
<1>2. faults \in 0 .. MaxFaults /\ retries \in 0 .. MaxRetries /\ useCrc' \in BOOLEAN
  BY SendFacts DEF Start, TypeOK
<1> QED BY <1>1, <1>2, SameLines, SendQuiet

LEMMA GiveSends ==
  ASSUME SendOK, Give
  PROVE  SendOK'
<1>1. /\ given' = "yes" /\ state' = state
      /\ timer' = IF state = "waiting_remote" THEN "receive" ELSE timer
      /\ UNCHANGED <<retries, useCrc, block, sentBytes, buffered, saved, outcome, slips>>
      /\ UNCHANGED <<toDevice, toElecterm, mode, size, faults, dev>>
  BY SendFacts DEF Give, fixed, others
<1>2. faults \in 0 .. MaxFaults /\ retries \in 0 .. MaxRetries /\ useCrc \in BOOLEAN
  BY SendFacts DEF TypeOK
<1> QED BY <1>1, <1>2, SameLines, SendQuiet

LEMMA CancelSends ==
  ASSUME SendOK, Cancel
  PROVE  SendOK'
<1>1. /\ End("ended") /\ slips' = slips /\ toElecterm' = toElecterm /\ UNCHANGED fixed
      /\ Write("CAN") \/ toDevice' = toDevice
  BY DEF Cancel
<1>2. /\ slips \subseteq slips' /\ slips' \subseteq AllSlips
      /\ UNCHANGED others /\ useCrc' \in BOOLEAN
  BY <1>1, SendFacts DEF fixed, TypeOK
<1>3. HeardOf(toElecterm')
  BY <1>1, SameLines
<1> QED BY <1>1, <1>2, <1>3, SessionOver

LEMMA HearNothingSends ==
  ASSUME SendOK, HearNothing
  PROVE  SendOK'
<1>1. /\ toElecterm # << >> /\ toElecterm' = Tail(toElecterm)
      /\ UNCHANGED <<state, given, timer, retries, useCrc, block, sentBytes, buffered, saved, outcome,
                   slips>>
      /\ UNCHANGED <<toDevice, mode, size, faults, dev>>
  BY DEF HearNothing, session, others
<1>2. HeardOf(toElecterm')
  <2>1. Tail(toElecterm) \in Seq(ForElecterm) /\ Thins(Tail(toElecterm), toElecterm, {})
    BY <1>1, SendFacts, LineHeard
  <2> QED BY <1>1, <2>1, ThinHeard
<1>3. /\ faults \in 0 .. MaxFaults /\ retries \in 0 .. MaxRetries
      /\ given \in {"no", "coming", "yes"} /\ useCrc \in BOOLEAN
  BY SendFacts DEF TypeOK
<1> QED BY <1>1, <1>2, <1>3, SameLines, SendQuiet

LEMMA LineFailsSends ==
  ASSUME SendOK, LineFails
  PROVE  SendOK'
<1>1. /\ faults' \in 0 .. MaxFaults
      /\ UNCHANGED <<state, given, timer, retries, useCrc, block, sentBytes, buffered, saved, outcome,
                   slips>>
      /\ UNCHANGED <<mode, size, dev>>
  <2>1. faults \in 0 .. MaxFaults /\ MaxFaults \in Nat
    BY SendFacts DEF TypeOK
  <2>2. faults < MaxFaults /\ faults' = faults + 1
    BY DEF LineFails
  <2>3. faults' \in 0 .. MaxFaults
    BY <2>1, <2>2
  <2> QED BY <2>3 DEF LineFails, session
<1>2. retries \in 0 .. MaxRetries /\ given \in {"no", "coming", "yes"} /\ useCrc \in BOOLEAN
  BY SendFacts DEF TypeOK
<1>3. CASE (\E i \in DOMAIN toDevice : toDevice' \in Damaged(toDevice, i, {"damaged"}))
           /\ UNCHANGED toElecterm
  <2>1. PICK i \in DOMAIN toDevice : toDevice' \in Damaged(toDevice, i, {"damaged"})
    BY <1>3
  <2>2. PICK u : u = toDevice'
    OBVIOUS
  <2>3. PICK kinds : kinds = {"damaged"}
    OBVIOUS
  <2>4. u \in Seq(ForDevice) /\ Thins(u, toDevice, kinds)
    <3>1. \A k \in kinds : Byte(k) \in ForDevice
      BY <2>3, WordsTyped
    <3>2. u \in Damaged(toDevice, i, kinds) /\ toDevice \in Seq(ForDevice)
      BY <2>1, <2>2, <2>3, SendFacts
    <3> QED BY <3>1, <3>2, LineDamaged
  <2>5. Settles(u, toDevice) /\ Only(u, Sent)
    BY <2>3, <2>4, SendFacts, ThinLine
  <2>6. HeardOf(toElecterm')
    BY <1>3, SameLines
  <2> QED BY <1>1, <1>2, <2>2, <2>4, <2>5, <2>6, SendQuiet
<1>4. CASE (\E i \in DOMAIN toElecterm :
             toElecterm' \in Damaged(toElecterm, i, {"damaged", "headless", "short"}))
           /\ UNCHANGED toDevice
  <2>1. PICK i \in DOMAIN toElecterm :
          toElecterm' \in Damaged(toElecterm, i, {"damaged", "headless", "short"})
    BY <1>4
  <2>2. PICK u : u = toElecterm'
    OBVIOUS
  <2>3. PICK kinds : kinds = {"damaged", "headless", "short"}
    OBVIOUS
  <2>4. u \in Seq(ForElecterm) /\ Thins(u, toElecterm, kinds)
    <3>1. \A k \in kinds : Byte(k) \in ForElecterm
      BY <2>3, WordsTyped
    <3>2. u \in Damaged(toElecterm, i, kinds) /\ toElecterm \in Seq(ForElecterm)
      BY <2>1, <2>2, <2>3, SendFacts
    <3> QED BY <3>1, <3>2, LineDamaged
  <2>5. HeardOf(toElecterm')
    BY <2>2, <2>3, <2>4, ThinHeard
  <2> QED BY <1>1, <1>2, <1>4, <2>5, SameLines, SendQuiet
<1> QED BY <1>3, <1>4 DEF LineFails

LEMMA ReceiveTimeoutSends ==
  ASSUME SendOK, ReceiveTimeout
  PROVE  SendOK'
<1>1. /\ slips' = slips /\ toElecterm' = toElecterm /\ UNCHANGED fixed
      /\ slips \subseteq AllSlips /\ state # "receiving" /\ timer = "receive"
      /\ UNCHANGED others /\ useCrc' = useCrc /\ useCrc \in BOOLEAN
  BY SendFacts DEF ReceiveTimeout, fixed, TypeOK
<1>2. HeardOf(toElecterm')
  BY <1>1, SameLines
<1>3. CASE state = "waiting_remote" /\ Exhausted /\ End("error") /\ UNCHANGED toDevice
  BY <1>1, <1>2, <1>3, SessionOver
<1>4. CASE /\ state = "waiting_remote" /\ ~Exhausted
           /\ retries' = retries + 1
           /\ IF mode = "receive" \/ given # "yes" THEN Write("NAK") ELSE UNCHANGED toDevice
           /\ UNCHANGED <<state, given, timer, block, sentBytes, buffered, saved, outcome>>
  <2>1. retries' \in 0 .. MaxRetries
    BY <1>4, SendFacts DEF Exhausted
  <2>2. faults' \in 0 .. MaxFaults /\ given' \in {"no", "coming", "yes"}
        /\ UNCHANGED <<mode, size, dev>>
    BY <1>1, <1>4, SendFacts DEF TypeOK, others
  <2>3. /\ toDevice' \in Seq(ForDevice) /\ Only(toDevice', Sent)
        /\ Settles(toDevice', toDevice)
    <3>1. CASE Write("NAK")
      BY <3>1, NakSaid
    <3>2. CASE UNCHANGED toDevice
      BY <3>2, SameLines
    <3> QED BY <1>4, <3>1, <3>2
  <2> QED BY <1>1, <1>2, <1>4, <2>1, <2>2, <2>3, SendQuiet
<1> QED BY <1>1, <1>3, <1>4 DEF ReceiveTimeout

LEMMA HearRequestKeeps ==
  ASSUME SendOK, NEW k \in DOMAIN toElecterm, HearRequest(k)
  PROVE  SendOK'
<1> DEFINE requests == Heard(k, {"NAK", "C"})
           crc == First("C", requests)
<1>1. /\ state = "waiting_remote" /\ slips' = slips /\ UNCHANGED others
      /\ slips \subseteq slips' /\ slips' \subseteq AllSlips
      /\ size \in Nat /\ Blocks \in Nat
  BY SendFacts DEF HearRequest
<1>2. HeardOf(toElecterm')
  <2>1. PICK u : u = toElecterm' /\ u = SubSeq(toElecterm, k + 1, Len(toElecterm))
    BY DEF HearRequest
  <2>2. u \in Seq(ForElecterm) /\ Thins(u, toElecterm, {})
    BY <2>1, SendFacts, LineDrops
  <2> QED BY <2>1, <2>2, ThinHeard
<1>3. CASE SendNext(crc, 0, 1, 0) /\ useCrc' = crc
  <2>1. PICK o \in Nat, n \in Nat, tries \in 0 .. MaxRetries : o = 0 /\ n = 1 /\ tries = 0
    OBVIOUS
  <2>2. PICK c \in BOOLEAN : c = crc
    BY DEF First
  <2>3. dev.block = 1 /\ ~Holds(toDevice, Carried) /\ (On => ~Holds(toElecterm, {"ACK"}))
    BY <1>1, SendFacts DEF Unsent
  <2>4. o < size => /\ n \in 1 .. Blocks
                    /\ Good(n, Data(o), Whole, slips')
                    /\ Least(o + BlockSize, size) = Position(n, size)
                    /\ dev.block <= n + 1
                    /\ InOrder(toDevice, dev.block - 1, n)
    <3>1. SUFFICES ASSUME 0 < size
                   PROVE  /\ 1 \in 1 .. Blocks /\ Good(1, Data(0), Whole, slips')
                          /\ Least(0 + BlockSize, size) = Position(1, size)
                          /\ dev.block <= 2 /\ InOrder(toDevice, dev.block - 1, 1)
      BY <2>1
    <3>2. /\ 1 \in 1 .. Blocks /\ Data(0) = Whole[1]
          /\ Least(0 + BlockSize, size) = Position(1, size)
      BY <1>1, <3>1, FirstBlock
    <3>3. DOMAIN Whole = 1 .. Blocks
      BY <1>1, WholeTyped
    <3>4. Good(1, Data(0), Whole, slips')
      BY <3>2, <3>3 DEF Good
    <3>5. InOrder(toDevice, dev.block - 1, 1)
      <4>1. \A i \in DOMAIN toDevice : toDevice[i].kind # "packet"
        BY <2>3 DEF Holds, Carried
      <4>2. [i \in DOMAIN toDevice |-> 0] \in [DOMAIN toDevice -> Nat]
        OBVIOUS
      <4> QED BY <4>1, <4>2 DEF InOrder
    <3> QED BY <2>3, <3>2, <3>4, <3>5
  <2>5. On /\ Clear' => /\ o < size => dev.block \in {n, n + 1}
                        /\ o >= size => dev.block = Blocks + 1
                        /\ ~Holds(toDevice, Carried) /\ ~Holds(toElecterm', {"ACK"})
    <3>1. o >= size => Blocks = 0
      BY <1>1, <2>1, BlocksFacts
    <3>2. On => ~Holds(toElecterm', {"ACK"})
      BY <1>2, <2>3 DEF HeardOf, Answers, Fewer
    <3> QED BY <2>1, <2>3, <3>1, <3>2
  <2>6. SendNext(c, o, n, tries) /\ useCrc' \in BOOLEAN
    BY <1>3, <2>1, <2>2
  <2> QED BY <1>1, <1>2, <2>4, <2>5, <2>6, SendNextKeeps
<1>4. CASE UNCHANGED <<state, given, timer, retries, useCrc, block, sentBytes, buffered, saved,
                       outcome, toDevice>>
  <2>1. /\ faults \in 0 .. MaxFaults /\ retries \in 0 .. MaxRetries
        /\ useCrc \in BOOLEAN
        /\ given \in {"no", "coming", "yes"} /\ UNCHANGED <<mode, size, dev, faults>>
    BY <1>1, SendFacts DEF TypeOK, others
  <2> QED BY <1>1, <1>2, <1>4, <2>1, SameLines, SendQuiet
<1> HIDE DEF crc, requests
<1>5. \/ SendNext(crc, 0, 1, 0) /\ useCrc' = crc
      \/ UNCHANGED <<state, given, timer, retries, useCrc, block, sentBytes, buffered, saved,
                     outcome, toDevice>>
  BY DEF HearRequest, requests, crc
<1> QED BY <1>3, <1>4, <1>5

(* The packet that was sent last is sent again.                            *)
LEMMA SentAgain ==
  ASSUME SendOK, state = "sending", ~Exhausted, UNCHANGED fixed, HeardOf(toElecterm'),
         SendNext(useCrc, Rewound(sentBytes), block, retries + 1),
         NEW X \in SUBSET {"doubled"}, slips' = slips \cup Rewinds(sentBytes) \cup X,
         On /\ Clear' => ~Holds(toDevice, Carried) /\ ~Holds(toElecterm', {"ACK"})
  PROVE  SendOK'
<1>1. /\ block \in 1 .. Blocks /\ sentBytes = Position(block, size)
      /\ size \in Nat /\ Blocks \in Nat /\ slips \subseteq AllSlips
      /\ dev.block <= block + 1 /\ InOrder(toDevice, dev.block - 1, block)
      /\ On /\ Clear' => dev.block \in {block, block + 1}
  <2>1. AtBlock /\ Queued /\ (Clear => InStep)
    BY SendFacts
  <2>2. Clear' => Clear
    BY DEF Clear
  <2> QED BY <2>1, <2>2, SendFacts DEF AtBlock, Queued, Latest, InStep
<1>2. PICK b \in 1 .. Blocks : b = block
  BY <1>1
<1>3. PICK o : o = sentBytes
  OBVIOUS
<1>4. PICK r : r = Rewound(o)
  OBVIOUS
<1>5. /\ r \in Nat /\ r < size /\ Least(r + BlockSize, size) = Position(b, size)
      /\ Data(r) = Whole[b] \/ (b = Blocks /\ o > BlockSize /\ o % BlockSize # 0)
  BY <1>1, <1>2, <1>3, <1>4, BackOver
<1>6. /\ slips \subseteq slips' /\ slips' \subseteq AllSlips
      /\ o > BlockSize /\ o % BlockSize # 0 => "rewound" \in slips'
  BY <1>1, <1>3 DEF Rewinds, AllSlips
<1>7. Good(b, Data(r), Whole, slips')
  <2>1. DOMAIN Whole = 1 .. Blocks /\ Len(Whole) = Blocks
    BY <1>1, WholeTyped
  <2> QED BY <1>5, <1>6, <2>1 DEF Good
<1>8. PICK tries \in 0 .. MaxRetries : tries = retries + 1
  <2>1. retries + 1 \in 0 .. MaxRetries
    BY SendFacts DEF Exhausted
  <2> QED BY <2>1
<1>9. PICK c \in BOOLEAN : c = useCrc
  BY SendFacts DEF TypeOK
<1>10. SendNext(c, r, b, tries) /\ useCrc' \in BOOLEAN /\ UNCHANGED others
  <2>1. useCrc' = useCrc /\ UNCHANGED others
    BY DEF fixed
  <2> QED BY <1>2, <1>3, <1>4, <1>8, <1>9, <2>1
<1>11. On /\ Clear' => /\ r < size => dev.block \in {b, b + 1}
                       /\ r >= size => dev.block = Blocks + 1
                       /\ ~Holds(toDevice, Carried) /\ ~Holds(toElecterm', {"ACK"})
  BY <1>1, <1>2, <1>5
<1>12. r < size => /\ b \in 1 .. Blocks /\ Good(b, Data(r), Whole, slips')
                   /\ Least(r + BlockSize, size) = Position(b, size)
                   /\ dev.block <= b + 1 /\ InOrder(toDevice, dev.block - 1, b)
  BY <1>1, <1>2, <1>5, <1>7
<1>13. b \in Nat
  BY <1>1
<1> QED BY <1>5, <1>6, <1>10, <1>11, <1>12, <1>13, SendNextKeeps

LEMMA HearReplyKeeps ==
  ASSUME SendOK, NEW k \in DOMAIN toElecterm, HearReply(k)
  PROVE  SendOK'
<1> DEFINE answers == Heard(k, {"ACK", "NAK", "CAN"})
<1>1. /\ state = "sending" /\ UNCHANGED fixed /\ UNCHANGED others /\ slips \subseteq AllSlips
      /\ useCrc \in BOOLEAN /\ useCrc' \in BOOLEAN /\ size \in Nat /\ Blocks \in Nat
  BY SendFacts DEF HearReply, fixed, TypeOK
<1>2. PICK u : u = toElecterm' /\ u = SubSeq(toElecterm, k + 1, Len(toElecterm))
  BY DEF HearReply
<1>3. /\ u \in Seq(ForElecterm) /\ Thins(u, toElecterm, {})
      /\ \A K : \A i \in 1 .. k : Once(toElecterm, K) /\ toElecterm[i].kind \in K => ~Holds(u, K)
  <2>1. toElecterm \in Seq(ForElecterm)
    BY SendFacts
  <2> QED BY <1>2, <2>1, LineDrops
<1>4. HeardOf(toElecterm')
  BY <1>2, <1>3, ThinHeard
<1>5. ASSUME First("ACK", answers), On, Clear
      PROVE  /\ ~Holds(toDevice, Carried) /\ ~Holds(toElecterm', {"ACK"})
             /\ dev.block = block + 1
  <2>1. PICK i \in 1 .. k : toElecterm[i].kind = "ACK"
    BY <1>5 DEF Heard, First
  <2>2. i \in DOMAIN toElecterm
    <3>1. PICK s \in Seq(ForElecterm) : s = toElecterm
      BY SendFacts
    <3>2. DOMAIN s = 1 .. Len(s) /\ Len(s) \in Nat
      BY LenProperties
    <3> QED BY <3>1, <3>2
  <2>3. Holds(toElecterm, {"ACK"})
    BY <2>1, <2>2 DEF Holds
  <2>4. Once(toElecterm, {"ACK"}) /\ ~Holds(toDevice, Carried) /\ dev.block = block + 1
    BY <1>1, <1>5, <2>3, SendFacts DEF OneAtATime
  <2>5. ~Holds(toElecterm', {"ACK"})
    BY <1>2, <1>3, <2>1, <2>4
  <2> QED BY <2>4, <2>5
<1>6. CASE /\ answers = {}
           /\ timer' = "none"
           /\ UNCHANGED <<state, given, retries, block, sentBytes, buffered, saved, outcome, slips,
                          toDevice>>
  <2>1. /\ faults \in 0 .. MaxFaults /\ retries \in 0 .. MaxRetries
        /\ given \in {"no", "coming", "yes"} /\ UNCHANGED <<mode, size, dev, faults>>
    BY <1>1, SendFacts DEF TypeOK, others
  <2> QED BY <1>1, <1>4, <1>6, <2>1, SameLines, SendQuiet
<1>7. CASE First("ACK", answers) /\ SendNext(useCrc, sentBytes, block + 1, 0) /\ UNCHANGED slips
  <2>1. /\ block \in 1 .. Blocks /\ sentBytes = Position(block, size)
        /\ dev.block <= block + 1 /\ InOrder(toDevice, dev.block - 1, block)
        /\ dev.block \in Nat
    BY <1>1, SendFacts DEF AtBlock, Queued, Latest, TypeOK
  <2>2. PICK b \in 1 .. Blocks, o \in 0 .. size, tries \in 0 .. MaxRetries :
          b = block /\ o = sentBytes /\ tries = 0
    BY <2>1, SendFacts DEF TypeOK
  <2>3. PICK c \in BOOLEAN : c = useCrc
    BY <1>1
  <2>4. /\ o \in 0 .. size
        /\ o < size => /\ b + 1 \in 1 .. Blocks /\ Data(o) = Whole[b + 1]
                       /\ Least(o + BlockSize, size) = Position(b + 1, size)
        /\ o >= size => b = Blocks
    BY <1>1, <2>1, <2>2, NextBlock
  <2>5. PICK n \in Nat : n = b + 1
    BY <1>1
  <2>6. o < size => /\ n \in 1 .. Blocks /\ Good(n, Data(o), Whole, slips')
                    /\ Least(o + BlockSize, size) = Position(n, size)
                    /\ dev.block <= n + 1 /\ InOrder(toDevice, dev.block - 1, n)
    <3>1. DOMAIN Whole = 1 .. Blocks
      BY <1>1, WholeTyped
    <3>2. dev.block <= n + 1
      BY <1>1, <2>1, <2>2, <2>5
    <3>3. PICK l \in Int, h \in Int, h2 \in Int : l = dev.block - 1 /\ h = b /\ h2 = n
      BY <1>1, <2>1
    <3>4. InOrder(toDevice, l, h2)
      <4>1. InOrder(toDevice, l, h) /\ h <= h2 /\ l <= l
        BY <1>1, <2>1, <2>2, <2>5, <3>3
      <4> QED BY <4>1, OrderWidens
    <3> QED BY <2>4, <2>5, <3>1, <3>2, <3>3, <3>4 DEF Good
  <2>7. On /\ Clear' => /\ o < size => dev.block \in {n, n + 1}
                        /\ o >= size => dev.block = Blocks + 1
                        /\ ~Holds(toDevice, Carried) /\ ~Holds(toElecterm', {"ACK"})
    <3>1. Clear' => Clear
      BY <1>7 DEF Clear
    <3>2. On /\ Clear' => /\ ~Holds(toDevice, Carried) /\ ~Holds(toElecterm', {"ACK"})
                          /\ dev.block = block + 1
      <4> HIDE DEF answers
      <4> QED BY <1>5, <1>7, <3>1
    <3> QED BY <2>2, <2>4, <2>5, <3>2
  <2>8. SendNext(c, o, n, tries) /\ o \in Nat
    BY <1>1, <1>7, <2>2, <2>4, <2>5, <2>3
  <2>9. slips \subseteq slips' /\ slips' \subseteq AllSlips
    BY <1>1, <1>7
  <2> QED BY <1>1, <1>4, <2>6, <2>7, <2>8, <2>9, SendNextKeeps
<1>8. CASE Exhausted /\ Write("CAN") /\ End("ended") /\ UNCHANGED slips
  BY <1>1, <1>4, <1>8, SessionOver
<1>9. CASE /\ ~Exhausted
           /\ SendNext(useCrc, Rewound(sentBytes), block, retries + 1)
           /\ slips' = slips \cup Rewinds(sentBytes) \cup Doubles
  <2>1. PICK X \in SUBSET {"doubled"} : X = Doubles
    BY DEF Doubles
  <2>2. Clear' => ~Holds(toDevice, Carried) /\ ~Holds(toElecterm', {"ACK"})
    <3>1. SUFFICES ASSUME Holds(toDevice, Carried) \/ Holds(toElecterm', {"ACK"}) PROVE ~Clear'
      OBVIOUS
    <3>2. \/ \E i \in DOMAIN toElecterm' : toElecterm'[i].kind = "ACK"
          \/ \E i \in DOMAIN toDevice : toDevice[i].kind \in {"packet", "damaged"}
      BY <3>1 DEF Holds, Carried
    <3>3. Doubles = {"doubled"}
      BY <3>2 DEF Doubles
    <3> QED BY <1>9, <3>3 DEF Clear
  <2> QED BY <1>1, <1>4, <1>9, <2>1, <2>2, SentAgain
<1>10. CASE End("error") /\ UNCHANGED <<slips, toDevice>>
  BY <1>1, <1>4, <1>10, SessionOver
<1> QED BY <1>6, <1>7, <1>8, <1>9, <1>10 DEF HearReply

LEMMA SendTimeoutKeeps ==
  ASSUME SendOK, SendTimeout
  PROVE  SendOK'
<1>1. /\ state = "sending" /\ UNCHANGED fixed /\ UNCHANGED others /\ toElecterm' = toElecterm
      /\ toDevice = << >> /\ toElecterm = << >> /\ slips \subseteq AllSlips
      /\ useCrc \in BOOLEAN /\ useCrc' = useCrc /\ size \in Nat /\ Blocks \in Nat
  BY SendFacts DEF SendTimeout, Quiet, fixed, TypeOK
<1>2. \A K : ~Holds(toDevice, K) /\ ~Holds(toElecterm, K)
  BY <1>1 DEF Holds
<1>3. HeardOf(toElecterm')
  BY <1>1, SameLines
<1>4. CASE Exhausted /\ End("error") /\ UNCHANGED <<slips, toDevice>>
  BY <1>1, <1>3, <1>4, SessionOver
<1>5. CASE /\ ~Exhausted /\ sentBytes >= size
           /\ Write("EOT")
           /\ retries' = retries + 1
           /\ slips' = slips \cup {"early"}
           /\ UNCHANGED <<state, given, timer, block, sentBytes, buffered, saved, outcome>>
  <2>1. PICK s \in Seq(ForDevice) : s = toDevice /\ Only(s, Sent)
    BY SendFacts
  <2>2. PICK k \in {"NAK", "CAN", "EOT"} : k = "EOT"
    OBVIOUS
  <2>3. PICK u : u = toDevice' /\ u = Append(s, Byte(k))
    BY <1>5, <2>1, <2>2 DEF Write
  <2>4. u \in Seq(ForDevice) /\ (Only(s, Sent) => Only(u, Sent)) /\ Announces(u, s)
    BY <2>3, WordSaid
  <2>5. /\ UNCHANGED <<mode, size, dev>> /\ faults' \in 0 .. MaxFaults
        /\ Blocks' = Blocks /\ DataBlocks' = DataBlocks
    BY <1>1, SendFacts, SameFile DEF others, TypeOK
  <2>6. retries' \in 0 .. MaxRetries
    BY <1>5, SendFacts DEF Exhausted
  <2>7. SessionTypes'
    BY <1>1, <1>5, <2>5, <2>6, SendFacts DEF SessionTypes, TypeOK, AllSlips
  <2>8. TypeOK'
    BY <1>3, <2>3, <2>4, <2>5, <2>7, SendTypes DEF HeardOf
  <2>9. Parts'
    BY <1>1, <1>3, <1>5, <2>1, <2>3, <2>4, <2>5, SendParts DEF HeardOf
  <2>10. Announces(toDevice', toDevice) /\ Answers(toElecterm', toElecterm)
    BY <1>3, <2>1, <2>3, <2>4 DEF HeardOf
  <2>11. state' = "sending" /\ UNCHANGED <<block, sentBytes>> /\ "early" \in slips'
         /\ slips \subseteq slips'
    BY <1>1, <1>5
  <2> QED BY <1>1, <2>5, <2>8, <2>9, <2>10, <2>11, SessionSteps
<1>6. CASE /\ ~Exhausted /\ sentBytes < size
           /\ SendNext(useCrc, Rewound(sentBytes), block, retries + 1)
           /\ slips' = slips \cup Rewinds(sentBytes)
  <2>1. ~Holds(toDevice, Carried) /\ ~Holds(toElecterm', {"ACK"})
    BY <1>1, <1>2
  <2>2. PICK X \in SUBSET {"doubled"} : X = {}
    OBVIOUS
  <2>3. slips' = slips \cup Rewinds(sentBytes) \cup X
    BY <1>6, <2>2
  <2> QED BY <1>1, <1>3, <1>6, <2>1, <2>3, SentAgain
<1> QED BY <1>4, <1>5, <1>6 DEF SendTimeout

-----------------------------------------------------------------------------
(* The device's steps.                                                     *)

LEMMA DevFacts ==
  ASSUME TypeOK
  PROVE  /\ dev \in DeviceRecord /\ dev.crc \in BOOLEAN
         /\ dev.state \in {"off", "on", "done", "aborted"} /\ dev.block \in 1 .. Blocks + 1
         /\ dev.tries \in 0 .. MaxTries /\ dev.file \in Seq(DataBlocks)
         /\ \A x : /\ [dev EXCEPT !.state = x].state = x
                   /\ [dev EXCEPT !.state = x].crc = dev.crc
                   /\ [dev EXCEPT !.state = x].block = dev.block
                   /\ [dev EXCEPT !.state = x].tries = dev.tries
                   /\ [dev EXCEPT !.state = x].file = dev.file
                   /\ [dev EXCEPT !.tries = x].state = dev.state
                   /\ [dev EXCEPT !.tries = x].crc = dev.crc
                   /\ [dev EXCEPT !.tries = x].block = dev.block
                   /\ [dev EXCEPT !.tries = x].tries = x
                   /\ [dev EXCEPT !.tries = x].file = dev.file
         /\ \A x \in {"off", "on", "done", "aborted"} :
              [dev EXCEPT !.state = x] \in DeviceRecord
         /\ \A x \in 0 .. MaxTries, c \in BOOLEAN :
              /\ [dev EXCEPT !.tries = x] \in DeviceRecord
              /\ [dev EXCEPT !.tries = x, !.crc = c] \in DeviceRecord
              /\ [dev EXCEPT !.tries = x, !.crc = c].state = dev.state
              /\ [dev EXCEPT !.tries = x, !.crc = c].block = dev.block
              /\ [dev EXCEPT !.tries = x, !.crc = c].file = dev.file
BY DEF TypeOK, DeviceRecord

LEMMA DeviceTypes ==
  ASSUME TypeOK, UNCHANGED <<mode, size, session, faults>>,
         toDevice' \in Seq(ForDevice), toElecterm' \in Seq(ForElecterm),
         dev' \in DeviceRecord
  PROVE  TypeOK'
<1>1. Blocks' = Blocks /\ DataBlocks' = DataBlocks
  BY SameFile
<1>2. /\ UNCHANGED <<state, given, timer, retries, useCrc, block, sentBytes, buffered, saved,
                     outcome, slips>>
      /\ UNCHANGED <<mode, size, faults>>
  BY DEF session
<1>3. SessionTypes'
  BY <1>1, <1>2 DEF SessionTypes, TypeOK, AllSlips
<1> QED BY <1>2, <1>3, TypesKept DEF TypeOK

\* a step of the device while electerm sends
DeviceStep ==
  /\ SendOK /\ UNCHANGED <<mode, size, session, faults>> /\ TypeOK'
  /\ Only(toDevice', Sent) /\ Only(toElecterm', Asked)
  /\ Settles(toDevice', toDevice)

LEMMA DeviceStepFacts ==
  ASSUME DeviceStep
  PROVE  /\ TypeOK /\ Parts /\ mode = "send" /\ mode' = mode
         /\ Unsent /\ AtBlock /\ Queued
         /\ Clear => InStep /\ OneAtATime /\ OnTheLine /\ Stored
         /\ UNCHANGED <<state, given, timer, retries, useCrc, block, sentBytes, buffered, saved,
                        outcome, slips>>
         /\ UNCHANGED <<mode, size, faults>>
         /\ Parts' /\ Blocks' = Blocks /\ Whole' = Whole /\ (Clear' <=> Clear)
         /\ Latest' = Latest /\ Latest \in Int /\ Latest <= Blocks
         /\ Blocks \in Nat /\ size \in Nat
<1>1. /\ TypeOK /\ Parts /\ mode = "send" /\ mode' = mode /\ size' = size
      /\ Unsent /\ AtBlock /\ Queued
      /\ Clear => InStep /\ OneAtATime /\ OnTheLine /\ Stored
      /\ UNCHANGED <<state, given, timer, retries, useCrc, block, sentBytes, buffered, saved,
                     outcome, slips>>
      /\ Blocks \in Nat /\ size \in Nat /\ faults' = faults
  BY SendFacts DEF DeviceStep, session
<1>2. Parts'
  BY <1>1, SendFacts, SendParts DEF DeviceStep
<1>3. Blocks' = Blocks /\ Whole' = Whole
  BY <1>1, SameFile
<1>4. (Clear' <=> Clear) /\ Latest' = Latest
  BY <1>1, <1>3 DEF Clear, Latest
<1>5. Latest \in Int /\ Latest <= Blocks
  BY <1>1 DEF Latest, AtBlock
<1> QED BY <1>1, <1>2, <1>3, <1>4, <1>5

LEMMA SameBlock ==
  ASSUME DeviceStep, dev'.block = dev.block
  PROVE  AtBlock' /\ Queued'
<1>1. AtBlock'
  BY DeviceStepFacts DEF AtBlock, Position
<1>2. InOrder(toDevice', dev.block - 1, Latest)
  BY DeviceStepFacts DEF DeviceStep, Settles, Announces, Follows, Queued
<1> QED BY <1>1, <1>2, DeviceStepFacts DEF Queued

(* It listens no longer.                                                   *)
LEMMA DeviceStops ==
  ASSUME DeviceStep, dev'.state \in {"done", "aborted"},
         dev'.block = dev.block, dev'.file = dev.file,
         \/ dev'.state = "aborted"
         \/ dev.state = "done"
         \/ On /\ Holds(toDevice, {"EOT"})
  PROVE  SendOK'
<1>1. /\ TypeOK' /\ Parts' /\ mode' = "send" /\ Blocks' = Blocks /\ Whole' = Whole
      /\ UNCHANGED <<state, block, sentBytes, outcome, slips, size>> /\ (Clear' <=> Clear)
  BY DeviceStepFacts DEF DeviceStep
<1>2. ~On'
  BY DEF On
<1>3. Unsent'
  <2> SUFFICES ASSUME state = "waiting_remote" \/ (state = "idle" /\ outcome = "none")
               PROVE  /\ dev'.state = "aborted" /\ dev'.block = 1
                      /\ ~Holds(toDevice', Carried) /\ ~Holds(toDevice', {"EOT"})
    BY <1>1, <1>2 DEF Unsent
  <2>1. /\ dev.state \in {"off", "aborted"} /\ dev.block = 1
        /\ ~Holds(toDevice, Carried) /\ ~Holds(toDevice, {"EOT"})
    BY DeviceStepFacts DEF Unsent
  <2>2. ~Holds(toDevice', Carried) /\ ~Holds(toDevice', {"EOT"})
    BY <2>1 DEF DeviceStep, Settles, Announces, Fewer
  <2> QED BY <2>1, <2>2
<1>4. InStep' /\ OneAtATime' /\ OnTheLine'
  BY <1>2 DEF InStep, OneAtATime, OnTheLine
<1>5. Clear => Stored'
  <2> SUFFICES ASSUME Clear PROVE Stored'
    OBVIOUS
  <2>1. Stored /\ OnTheLine /\ dev.block \in 1 .. Blocks + 1 /\ Blocks \in Nat
    BY DeviceStepFacts, DevFacts
  <2>2. dev'.state = "done" => Len(dev.file) = Blocks \/ "early" \in slips
    BY <2>1 DEF Stored, OnTheLine
  <2> QED BY <1>1, <2>1, <2>2 DEF Stored
<1> QED BY <1>1, <1>3, <1>4, <1>5, SameBlock DEF SendOK, SendInv

\* it acknowledges the only packet under way
Acks ==
  /\ toElecterm' = Append(toElecterm, Byte("ACK"))
  /\ Holds(toDevice, Carried)
  /\ Clear /\ state = "sending" => ~Holds(toElecterm, {"ACK"}) /\ ~Holds(toDevice', Carried)

LEMMA WordHeard ==
  ASSUME toElecterm \in Seq(ForElecterm), Only(toElecterm, Asked),
         NEW k \in {"C", "ACK", "NAK", "CAN"}, toElecterm' = Append(toElecterm, Byte(k))
  PROVE  /\ toElecterm' \in Seq(ForElecterm) /\ Only(toElecterm', Asked)
         /\ k # "ACK" => Answers(toElecterm', toElecterm)
         /\ ~Holds(toElecterm, {"ACK"}) => Once(toElecterm', {"ACK"})
<1>1. PICK m \in ForElecterm : m = Byte(k) /\ m.kind = k
  BY WordsTyped
<1>2. Grown(Append(toElecterm, m), toElecterm, m, ForElecterm)
  BY <1>1, LineGrows
<1>3. PICK u : u = toElecterm' /\ u = Append(toElecterm, m)
  BY <1>1
<1>4. /\ u \in Seq(ForElecterm)
      /\ \A K : Holds(u, K) <=> Holds(toElecterm, K) \/ k \in K
      /\ \A K : Only(toElecterm, K) /\ k \in K => Only(u, K)
      /\ \A K : Once(toElecterm, K) /\ (k \notin K \/ ~Holds(toElecterm, K)) => Once(u, K)
  BY <1>1, <1>2, <1>3 DEF Grown
<1>5. Only(u, Asked)
  <2>1. k \in Asked
    BY DEF Asked
  <2> QED BY <1>4, <2>1
<1>6. ASSUME k # "ACK" PROVE Answers(u, toElecterm)
  <2>1. k \notin {"ACK"}
    BY <1>6
  <2> QED BY <1>4, <2>1 DEF Answers, Fewer
<1>7. ASSUME ~Holds(toElecterm, {"ACK"}) PROVE Once(u, {"ACK"})
  <2>1. Once(toElecterm, {"ACK"})
    BY <1>7 DEF Once, Holds
  <2> QED BY <1>4, <1>7, <2>1
<1> QED BY <1>3, <1>4, <1>5, <1>6, <1>7

LEMMA AckHeard ==
  ASSUME SendOK, Acks
  PROVE  /\ ~(state = "waiting_remote" \/ (state = "idle" /\ outcome = "none"))
         /\ Clear /\ state = "sending" => ~Holds(toDevice', Carried) /\ Once(toElecterm', {"ACK"})
<1>1. toElecterm \in Seq(ForElecterm) /\ Only(toElecterm, Asked) /\ Unsent
  BY SendFacts
<1>2. PICK k \in {"C", "ACK", "NAK", "CAN"} : k = "ACK"
  OBVIOUS
<1>3. ~Holds(toElecterm, {"ACK"}) => Once(toElecterm', {"ACK"})
  <2>1. toElecterm' = Append(toElecterm, Byte(k))
    BY <1>2 DEF Acks
  <2> QED BY <1>1, <2>1, WordHeard
<1> QED BY <1>1, <1>3 DEF Acks, Unsent

(* It goes on listening for the same block.                                *)
LEMMA DeviceStays ==
  ASSUME DeviceStep, dev'.state = dev.state, dev'.block = dev.block, dev'.file = dev.file,
         \/ Answers(toElecterm', toElecterm)
         \/ Acks /\ (Clear /\ state = "sending" => dev.block = block + 1)
  PROVE  SendOK'
<1>1. /\ TypeOK' /\ Parts' /\ mode' = "send" /\ Blocks' = Blocks /\ Whole' = Whole
      /\ UNCHANGED <<state, block, sentBytes, outcome, slips, size>> /\ (Clear' <=> Clear)
      /\ Settles(toDevice', toDevice) /\ Announces(toDevice', toDevice) /\ SendOK
      /\ Unsent /\ (Clear => InStep /\ OneAtATime /\ OnTheLine /\ Stored)
  BY DeviceStepFacts DEF DeviceStep, Settles
<1>2. On' = On
  BY DEF On
<1>3. Unsent'
  <2> SUFFICES ASSUME state = "waiting_remote" \/ (state = "idle" /\ outcome = "none")
               PROVE  /\ dev.state \in {"off", "aborted"} /\ dev.block = 1
                      /\ ~Holds(toDevice', Carried) /\ ~Holds(toDevice', {"EOT"})
                      /\ On => ~Holds(toElecterm', {"ACK"})
    BY <1>1, <1>2 DEF Unsent
  <2>1. Answers(toElecterm', toElecterm)
    BY <1>1, AckHeard
  <2>2. /\ dev.state \in {"off", "aborted"} /\ dev.block = 1
        /\ ~Holds(toDevice, Carried) /\ ~Holds(toDevice, {"EOT"})
        /\ On => ~Holds(toElecterm, {"ACK"})
    BY <1>1 DEF Unsent
  <2> QED BY <1>1, <2>1, <2>2 DEF Settles, Announces, Answers, Fewer
<1> SUFFICES ASSUME Clear PROVE InStep' /\ OneAtATime' /\ OnTheLine' /\ Stored'
  BY <1>1, <1>3, SameBlock DEF SendOK, SendInv
<1>4. InStep'
  BY <1>1, <1>2 DEF InStep
<1>5. OneAtATime'
  <2> SUFFICES ASSUME state = "sending", On PROVE OneAtATime'
    BY <1>1, <1>2 DEF OneAtATime
  <2>1. /\ Once(toElecterm, {"ACK"}) /\ Once(toDevice, Carried)
        /\ ~(Holds(toElecterm, {"ACK"}) /\ Holds(toDevice, Carried))
        /\ Holds(toElecterm, {"ACK"}) => dev.block = block + 1
    BY <1>1 DEF OneAtATime
  <2>2. Fewer(toDevice', toDevice, Carried)
    BY <1>1 DEF Announces
  <2>3. CASE Answers(toElecterm', toElecterm)
    BY <1>1, <2>1, <2>2, <2>3 DEF OneAtATime, Answers, Fewer
  <2>4. CASE Acks /\ dev.block = block + 1
    <3>1. ~Holds(toDevice', Carried) /\ Once(toElecterm', {"ACK"})
      BY <1>1, <2>4, AckHeard
    <3> QED BY <1>1, <2>1, <2>2, <2>4, <3>1 DEF OneAtATime, Fewer
  <2> QED BY <2>3, <2>4
<1>6. OnTheLine'
  <2> SUFFICES ASSUME On PROVE OnTheLine'
    BY <1>2 DEF OnTheLine
  <2>1. Once(toDevice', {"packet"}) /\ (Holds(toDevice', {"EOT"}) => Holds(toDevice, {"EOT"}))
    BY <1>1 DEF OnTheLine, Settles, Announces, Fewer
  <2>2. ASSUME NEW i \in DOMAIN toDevice', toDevice'[i].kind = "packet"
        PROVE  \E n \in {dev.block, dev.block - 1} :
                 /\ toDevice'[i].number = n % Modulus
                 /\ Good(n, toDevice'[i].data, Whole, slips)
                 /\ state = "sending" => n = block
    <3>1. PICK j \in DOMAIN toDevice : toDevice'[i] = toDevice[j]
      BY <1>1, <2>2 DEF Announces, Origin
    <3> QED BY <1>1, <2>2, <3>1 DEF OnTheLine
  <2> QED BY <1>1, <1>2, <2>1, <2>2 DEF OnTheLine
<1>7. Stored'
  BY <1>1 DEF Stored
<1> QED BY <1>4, <1>5, <1>6, <1>7

(* It takes the block it waits for.                                        *)
LEMMA DeviceMoves ==
  ASSUME DeviceStep, On, Acks, NEW m, m.data \in DataBlocks,
         dev.block <= Latest, InOrder(toDevice', dev.block, Latest),
         Clear => /\ Good(dev.block, m.data, Whole, slips)
                  /\ ~Holds(toDevice', {"packet"})
                  /\ state = "sending" => dev.block = block,
         dev'.state = "on", dev'.block = dev.block + 1, dev'.file = Append(dev.file, m.data)
  PROVE  SendOK'
<1>1. /\ TypeOK' /\ Parts' /\ mode' = "send" /\ Blocks' = Blocks /\ Whole' = Whole
      /\ UNCHANGED <<state, block, sentBytes, outcome, slips, size>> /\ (Clear' <=> Clear)
      /\ Settles(toDevice', toDevice) /\ Announces(toDevice', toDevice) /\ SendOK
      /\ Blocks \in Nat /\ size \in Nat
      /\ Latest' = Latest /\ Latest \in Int /\ Latest <= Blocks
      /\ AtBlock /\ (Clear => InStep /\ OneAtATime /\ OnTheLine /\ Stored)
  BY DeviceStepFacts DEF DeviceStep, Settles
<1>2. dev.block \in 1 .. Blocks /\ dev.block \in Nat /\ dev.file \in Seq(DataBlocks)
  <2>1. dev.block \in 1 .. Blocks + 1 /\ dev.file \in Seq(DataBlocks)
    BY <1>1, DevFacts, SendFacts
  <2> QED BY <1>1, <2>1
<1>3. Unsent'
  BY <1>1, AckHeard DEF Unsent
<1>4. AtBlock'
  <2> SUFFICES ASSUME state = "sending" PROVE AtBlock'
    BY <1>1 DEF AtBlock
  <2>1. block \in 1 .. Blocks /\ sentBytes = Position(block, size) /\ Latest = block
    BY <1>1 DEF AtBlock, Latest
  <2>2. dev'.block <= block + 1
    BY <1>1, <1>2, <2>1
  <2> QED BY <1>1, <2>1, <2>2 DEF AtBlock, Position
<1>5. Queued'
  <2>1. dev'.block - 1 = dev.block
    BY <1>2
  <2> QED BY <1>1, <2>1 DEF Queued
<1> SUFFICES ASSUME Clear PROVE InStep' /\ OneAtATime' /\ OnTheLine' /\ Stored'
  BY <1>1, <1>3, <1>4, <1>5 DEF SendOK, SendInv
<1>6. InStep' /\ OneAtATime'
  <2> SUFFICES ASSUME state = "sending" PROVE InStep' /\ OneAtATime'
    BY <1>1 DEF InStep, OneAtATime
  <2>1. ~Holds(toDevice', Carried) /\ Once(toElecterm', {"ACK"})
    BY <1>1, AckHeard
  <2>2. Once(toDevice', Carried)
    BY <2>1 DEF Holds, Once
  <2>3. dev'.block = block' + 1
    BY <1>1
  <2> QED BY <1>1, <2>1, <2>2, <2>3 DEF InStep, OneAtATime
<1>7. OnTheLine'
  <2>1. Once(toDevice', {"packet"}) /\ \A i \in DOMAIN toDevice' : toDevice'[i].kind # "packet"
    BY DEF Holds, Once
  <2>2. Holds(toDevice', {"EOT"}) => "early" \in slips
    <3>1. Holds(toDevice', {"EOT"}) => Holds(toDevice, {"EOT"})
      BY <1>1 DEF Settles, Fewer
    <3> QED BY <1>1, <1>2, <3>1 DEF OnTheLine
  <2> QED BY <1>1, <2>1, <2>2 DEF OnTheLine
<1>8. Stored'
  <2>1. PICK s \in Seq(DataBlocks) : s = dev.file
    BY <1>2
  <2>2. PICK x \in DataBlocks : x = m.data
    OBVIOUS
  <2>3. /\ Len(Append(s, x)) = Len(s) + 1 /\ Len(s) \in Nat
        /\ DOMAIN Append(s, x) = 1 .. Len(s) + 1 /\ DOMAIN s = 1 .. Len(s)
        /\ \A i \in 1 .. Len(s) : Append(s, x)[i] = s[i]
        /\ Append(s, x)[Len(s) + 1] = x
    BY AppendProperties, LenProperties
  <2>4. PICK u : u = dev'.file /\ u = Append(s, x)
    BY <2>1, <2>2
  <2>5. Len(s) = dev.block - 1 /\ \A b \in DOMAIN s : Good(b, s[b], Whole, slips)
    BY <1>1, <2>1 DEF Stored
  <2>6. Len(u) = dev'.block - 1
    BY <1>2, <1>1, <2>3, <2>4, <2>5
  <2>7. ASSUME NEW b \in DOMAIN u PROVE Good(b, u[b], Whole, slips)
    <3>1. CASE b \in 1 .. Len(s)
      BY <2>3, <2>4, <2>5, <3>1
    <3>2. CASE b \notin 1 .. Len(s)
      <4>1. b = dev.block
        BY <1>1, <1>2, <2>3, <2>4, <2>5, <3>2
      <4>2. u[b] = x
        BY <1>1, <1>2, <2>3, <2>4, <2>5, <4>1
      <4> QED BY <2>2, <4>1, <4>2
    <3> QED BY <3>1, <3>2
  <2> QED BY <1>1, <2>4, <2>6, <2>7 DEF Stored
<1> QED BY <1>6, <1>7, <1>8

LEMMA DeviceAsksKeeps ==
  ASSUME SendOK, DeviceAsks
  PROVE  SendOK'
<1>1. /\ UNCHANGED <<mode, size, session, toDevice, faults>>
      /\ TypeOK /\ toElecterm \in Seq(ForElecterm) /\ Only(toElecterm, Asked)
      /\ toDevice \in Seq(ForDevice) /\ dev.crc \in BOOLEAN /\ dev.tries \in 0 .. MaxTries
  BY SendFacts, DevFacts DEF DeviceAsks
<1>2. /\ toDevice' \in Seq(ForDevice) /\ Only(toDevice', Sent)
      /\ Settles(toDevice', toDevice)
  BY <1>1, SameLines
<1>3. ASSUME NEW k \in {"C", "NAK", "CAN"}, Say(Byte(k)), dev' \in DeviceRecord
      PROVE  DeviceStep /\ Answers(toElecterm', toElecterm)
  <2>1. PICK l \in {"C", "ACK", "NAK", "CAN"} : l = k
    OBVIOUS
  <2>2. toElecterm' = Append(toElecterm, Byte(l))
    BY <1>3, <2>1 DEF Say
  <2>3. /\ toElecterm' \in Seq(ForElecterm) /\ Only(toElecterm', Asked)
        /\ l # "ACK" => Answers(toElecterm', toElecterm)
    BY <1>1, <2>1, <2>2, WordHeard
  <2>4. TypeOK'
    BY <1>1, <1>2, <1>3, <2>3, DeviceTypes
  <2> QED BY <1>1, <1>2, <2>1, <2>3, <2>4 DEF DeviceStep
<1>4. ASSUME Repeats PROVE dev.tries + 1 \in 0 .. MaxTries
  BY <1>1, <1>4 DEF Repeats
<1>5. ASSUME NEW c \in {dev.crc, FALSE}, Repeats,
             dev' = [dev EXCEPT !.tries = @ + 1, !.crc = c],
             Say(Byte(IF c THEN "C" ELSE "NAK"))
      PROVE  SendOK'
  <2>1. PICK t \in 0 .. MaxTries, d \in BOOLEAN : t = dev.tries + 1 /\ d = c
    BY <1>1, <1>4, <1>5
  <2>2. dev' = [dev EXCEPT !.tries = t, !.crc = d]
    BY <1>5, <2>1
  <2>3. /\ dev'.state = dev.state /\ dev'.block = dev.block /\ dev'.file = dev.file
        /\ dev' \in DeviceRecord
    BY <1>1, <2>2, DevFacts
  <2>4. PICK k \in {"C", "NAK"} : k = IF c THEN "C" ELSE "NAK"
    OBVIOUS
  <2> QED BY <1>3, <1>5, <2>3, <2>4, DeviceStays
<1>6. CASE Repeats /\ dev' = [dev EXCEPT !.tries = @ + 1] /\ Say(Byte("NAK"))
  <2>1. PICK t \in 0 .. MaxTries : t = dev.tries + 1
    BY <1>4, <1>6
  <2>2. dev' = [dev EXCEPT !.tries = t]
    BY <1>6, <2>1
  <2>3. /\ dev'.state = dev.state /\ dev'.block = dev.block /\ dev'.file = dev.file
        /\ dev' \in DeviceRecord
    BY <1>1, <2>2, DevFacts
  <2> QED BY <1>3, <1>6, <2>3, DeviceStays
<1>7. CASE dev' = [dev EXCEPT !.state = "aborted"] /\ Say(Byte("CAN"))
  <2>1. /\ dev'.state = "aborted" /\ dev'.block = dev.block /\ dev'.file = dev.file
        /\ dev' \in DeviceRecord
    BY <1>1, <1>7, DevFacts
  <2> QED BY <1>3, <1>7, <2>1, DeviceStops
<1> QED BY <1>5, <1>6, <1>7 DEF DeviceAsks

LEMMA DeviceDiesSends ==
  ASSUME SendOK, DeviceDies
  PROVE  SendOK'
<1>1. /\ UNCHANGED <<mode, size, session, toDevice, toElecterm, faults>>
      /\ TypeOK /\ toElecterm \in Seq(ForElecterm) /\ Only(toElecterm, Asked)
      /\ dev' = [dev EXCEPT !.state = "aborted"]
  BY SendFacts DEF DeviceDies
<1>2. /\ toDevice' \in Seq(ForDevice) /\ Only(toDevice', Sent)
      /\ Settles(toDevice', toDevice)
  BY <1>1, SameLines
<1>3. /\ dev'.state = "aborted" /\ dev'.block = dev.block /\ dev'.file = dev.file
      /\ dev' \in DeviceRecord
  BY <1>1, DevFacts
<1>4. TypeOK'
  BY <1>1, <1>2, <1>3, DeviceTypes
<1>5. DeviceStep
  BY <1>1, <1>2, <1>4 DEF DeviceStep
<1> QED BY <1>3, <1>5, DeviceStops

LEMMA DeviceTakesKeeps ==
  ASSUME SendOK, DeviceTakes
  PROVE  SendOK'
<1>1. /\ toDevice # << >> /\ toDevice' = Tail(toDevice)
      /\ UNCHANGED <<mode, size, session, faults>>
      /\ TypeOK /\ AtBlock /\ Queued
      /\ Clear => OneAtATime /\ OnTheLine
      /\ size \in Nat /\ Blocks \in Nat /\ dev.block \in 1 .. Blocks + 1
      /\ toElecterm \in Seq(ForElecterm) /\ Only(toElecterm, Asked)
      /\ toDevice \in Seq(ForDevice) /\ Only(toDevice, Sent)
  BY SendFacts, DevFacts DEF DeviceTakes
<1>2. PICK m : m = Head(toDevice)
  OBVIOUS
<1>3. /\ toDevice' \in Seq(ForDevice) /\ Thins(toDevice', toDevice, {})
      /\ m \in ForDevice /\ 1 \in DOMAIN toDevice /\ m = toDevice[1]
      /\ \A K : m.kind \in K => Holds(toDevice, K)
      /\ \A K : Once(toDevice, K) /\ m.kind \in K => ~Holds(toDevice', K)
  BY <1>1, <1>2, LineHeard
<1>4. Only(toDevice', Sent) /\ Settles(toDevice', toDevice)
  <2>1. PICK u, kinds : u = toDevice' /\ kinds = {}
    OBVIOUS
  <2>2. Thins(u, toDevice, kinds)
    BY <1>3, <2>1
  <2>3. /\ kinds \subseteq {"damaged"} => Settles(u, toDevice)
        /\ kinds \subseteq {"damaged"} /\ Only(toDevice, Sent) => Only(u, Sent)
    BY <2>2, ThinLine
  <2> QED BY <1>1, <2>1, <2>3
<1>5. ASSUME toElecterm' \in Seq(ForElecterm), Only(toElecterm', Asked), dev' \in DeviceRecord
      PROVE  DeviceStep
  <2>1. TypeOK'
    BY <1>1, <1>3, <1>5, DeviceTypes
  <2> QED BY <1>1, <1>4, <1>5, <2>1 DEF DeviceStep
<1>6. /\ dev \in DeviceRecord
      /\ [dev EXCEPT !.state = "done"] \in DeviceRecord
      /\ [dev EXCEPT !.state = "aborted"] \in DeviceRecord
  BY <1>1, DevFacts
<1>7. ASSUME NEW k \in {"ACK", "NAK", "CAN"}, Say(Byte(k))
      PROVE  /\ toElecterm' = Append(toElecterm, Byte(k))
             /\ toElecterm' \in Seq(ForElecterm) /\ Only(toElecterm', Asked)
             /\ k # "ACK" => Answers(toElecterm', toElecterm)
  <2>1. PICK l \in {"C", "ACK", "NAK", "CAN"} : l = k
    OBVIOUS
  <2>2. toElecterm' = Append(toElecterm, Byte(l))
    BY <1>7, <2>1 DEF Say
  <2> QED BY <1>1, <2>1, <2>2, WordHeard
\* while the sides are in step, a packet is not followed by another
<1>8. ASSUME On, m.kind = "packet", Say(Byte("ACK"))
      PROVE  Acks
  <2>1. m.kind \in Carried
    BY <1>8 DEF Carried
  <2>2. Holds(toDevice, Carried)
    BY <1>3, <2>1
  <2>3. ASSUME Clear, state = "sending"
        PROVE  ~Holds(toElecterm, {"ACK"}) /\ ~Holds(toDevice', Carried)
    <3>1. Once(toDevice, Carried) /\ ~Holds(toElecterm, {"ACK"})
      BY <1>1, <1>8, <2>2, <2>3 DEF OneAtATime
    <3> QED BY <1>3, <2>1, <3>1
  <2> QED BY <1>7, <1>8, <2>2, <2>3 DEF Acks
<1>9. ASSUME On, m.kind = "packet", Clear
      PROVE  /\ \E n \in {dev.block, dev.block - 1} :
                  /\ m.number = n % Modulus /\ Good(n, m.data, Whole, slips)
                  /\ state = "sending" => n = block
             /\ ~Holds(toDevice', {"packet"})
             /\ dev.block % Modulus # (dev.block - 1) % Modulus
  <2>1. \E n \in {dev.block, dev.block - 1} :
          /\ m.number = n % Modulus /\ Good(n, m.data, Whole, slips)
          /\ state = "sending" => n = block
    BY <1>1, <1>3, <1>9 DEF OnTheLine
  <2>2. ~Holds(toDevice', {"packet"})
    BY <1>1, <1>3, <1>9 DEF OnTheLine
  <2>3. dev.block % Modulus # (dev.block - 1) % Modulus
    <3>1. PICK d \in Nat : d = dev.block - 1
      BY <1>1
    <3>2. d % Modulus # (d + 1) % Modulus
      BY NumbersDiffer
    <3>3. dev.block = d + 1 /\ dev.block - 1 = d
      BY <1>1, <3>1
    <3> QED BY <3>2, <3>3
  <2> QED BY <2>1, <2>2, <2>3
<1>10. CASE /\ On /\ m.kind = "packet" /\ m.number = dev.block % Modulus
            /\ dev' = [dev EXCEPT !.state = "on", !.block = @ + 1, !.tries = 0,
                                  !.file = Append(@, m.data)]
            /\ Say(Byte("ACK"))
  <2>1. PICK d \in Nat \ {0}, low \in Int : d = dev.block /\ low = d - 1
    BY <1>1
  <2>2. Latest \in Int /\ Latest <= Blocks
    BY <1>1 DEF Latest, AtBlock
  <2>3. PICK high \in Int : high = Latest
    BY <2>2
  <2>4. PICK k \in Nat : /\ low <= k /\ k <= high /\ m.number = k % Modulus
                         /\ InOrder(toDevice', k, high)
    <3>1. InOrder(toDevice, low, high) /\ Head(toDevice).kind = "packet"
      <4>1. low = dev.block - 1
        BY <1>1, <2>1
      <4>2. InOrder(toDevice, low, high)
        BY <1>1, <2>3, <4>1 DEF Queued
      <4> QED BY <1>2, <1>10, <4>2
    <3>2. \E k \in Nat : /\ low <= k /\ k <= high /\ Head(toDevice).number = k % Modulus
                         /\ InOrder(Tail(toDevice), k, high)
      BY <1>1, <3>1, HeadInOrder
    <3> QED BY <1>1, <1>2, <3>2
  <2>5. d <= k
    <3>1. k % Modulus = d % Modulus /\ d - 1 <= k
      BY <1>10, <2>1, <2>4
    <3> QED BY <3>1, NotBefore
  <2>6. dev.block <= Latest /\ dev.block \in 1 .. Blocks
    BY <1>1, <2>1, <2>2, <2>3, <2>4, <2>5
  <2>7. InOrder(toDevice', dev.block, Latest)
    <3>1. PICK k2 \in Int, d2 \in Int, u \in {toDevice'} : k2 = k /\ d2 = d
      OBVIOUS
    <3>2. InOrder(u, k2, high) /\ d2 <= k2 /\ high <= high
      BY <2>4, <2>5, <3>1
    <3>3. InOrder(u, d2, high)
      BY <3>2, OrderWidens
    <3> QED BY <2>1, <2>3, <3>1, <3>3
  <2>8. m.data \in DataBlocks
    BY <1>3, <1>10, MessageFields
  <2>9. Append(dev.file, m.data) \in Seq(DataBlocks)
    <3>1. dev.file \in Seq(DataBlocks)
      BY <1>1, DevFacts
    <3> QED BY <2>8, <3>1, AppendProperties
  <2>10. /\ dev'.state = "on" /\ dev'.block = dev.block + 1
         /\ dev'.file = Append(dev.file, m.data)
         /\ dev' \in DeviceRecord
    <3>1. PICK b \in 1 .. Blocks + 1 : b = dev.block + 1
      BY <1>1, <2>6
    <3>2. PICK f \in Seq(DataBlocks) : f = Append(dev.file, m.data)
      BY <2>9
    <3>3. PICK z \in 0 .. MaxTries : z = 0
      OBVIOUS
    <3>4. dev' = [dev EXCEPT !.state = "on", !.block = b, !.tries = z, !.file = f]
      BY <1>10, <3>1, <3>2, <3>3
    <3> QED BY <1>6, <3>1, <3>2, <3>3, <3>4 DEF DeviceRecord
  <2>11. DeviceStep
    BY <1>5, <1>7, <1>10, <2>10
  <2>12. Clear => /\ Good(dev.block, m.data, Whole, slips)
                  /\ ~Holds(toDevice', {"packet"})
                  /\ state = "sending" => dev.block = block
    BY <1>9, <1>10
  <2> QED BY <1>8, <1>10, <2>6, <2>7, <2>8, <2>10, <2>11, <2>12, DeviceMoves
<1>11. CASE /\ On /\ m.kind = "packet" /\ m.number = (dev.block - 1) % Modulus
            /\ Say(Byte("ACK"))
            /\ UNCHANGED dev
  <2>1. Clear /\ state = "sending" => dev.block = block + 1
    <3>1. Clear /\ state = "sending" => block = dev.block - 1
      BY <1>9, <1>11
    <3> QED BY <1>1, <3>1
  <2>2. DeviceStep
    BY <1>5, <1>6, <1>7, <1>11
  <2> QED BY <1>8, <1>11, <2>1, <2>2, DeviceStays
<1>12. CASE /\ dev' = [dev EXCEPT !.state = "aborted"]
            /\ Say(Byte("CAN")) \/ UNCHANGED toElecterm
  <2>1. DeviceStep
    <3>1. toElecterm' \in Seq(ForElecterm) /\ Only(toElecterm', Asked)
      BY <1>1, <1>7, <1>12
    <3> QED BY <1>5, <1>6, <1>12, <3>1
  <2>2. dev'.state = "aborted" /\ dev'.block = dev.block /\ dev'.file = dev.file
    BY <1>1, <1>12, DevFacts
  <2> QED BY <2>1, <2>2, DeviceStops
<1>13. CASE Say(Byte("NAK")) /\ UNCHANGED dev
  <2>1. DeviceStep /\ Answers(toElecterm', toElecterm)
    BY <1>5, <1>6, <1>7, <1>13
  <2> QED BY <1>13, <2>1, DeviceStays
<1>14. CASE On /\ m.kind = "EOT" /\ dev' = [dev EXCEPT !.state = "done"] /\ Say(Byte("ACK"))
  <2>1. DeviceStep
    BY <1>5, <1>6, <1>7, <1>14
  <2>2. Holds(toDevice, {"EOT"})
    BY <1>3, <1>14
  <2>3. dev'.state = "done" /\ dev'.block = dev.block /\ dev'.file = dev.file
    BY <1>1, <1>14, DevFacts
  <2> QED BY <1>14, <2>1, <2>2, <2>3, DeviceStops
<1>15. CASE dev.state = "done" /\ m.kind = "EOT" /\ Say(Byte("ACK")) /\ UNCHANGED dev
  <2>1. DeviceStep
    BY <1>5, <1>6, <1>7, <1>15
  <2> QED BY <1>15, <2>1, DeviceStops
<1>16. CASE UNCHANGED <<dev, toElecterm>>
  <2>1. DeviceStep
    BY <1>1, <1>5, <1>6, <1>16
  <2>2. Answers(toElecterm', toElecterm)
    BY <1>16, SameLine
  <2> QED BY <1>16, <2>1, <2>2, DeviceStays
<1> QED BY <1>2, <1>10, <1>11, <1>12, <1>13, <1>14, <1>15, <1>16 DEF DeviceTakes, On

-----------------------------------------------------------------------------
(* Receiving.                                                              *)

ReceiveOK == TypeOK /\ Parts /\ mode = "receive" /\ ReceiveInv

LEMMA ReceiveFacts ==
  ASSUME ReceiveOK
  PROVE  /\ TypeOK /\ Parts /\ mode = "receive"
         /\ Path /\ Behind /\ (Straight => OneWord /\ FromDevice /\ Taken)
         /\ state # "sending" /\ timer # "send"
         /\ Only(toElecterm, Spoken) /\ Only(toDevice, Answering)
         /\ toDevice \in Seq(ForDevice) /\ toElecterm \in Seq(ForElecterm)
         /\ retries \in 0 .. MaxRetries /\ slips \subseteq AllSlips
         /\ given \in {"no", "coming", "yes"}
         /\ size \in Nat /\ Blocks \in Nat /\ dev.block \in 1 .. Blocks + 1
         /\ block \in 1 .. Blocks + 1 /\ saved \in Seq(DataBlocks)
         /\ faults \in 0 .. MaxFaults /\ useCrc \in BOOLEAN /\ buffered \in BOOLEAN
         /\ Newest \in Nat /\ Newest <= dev.block /\ Newest <= Blocks
<1>1. /\ TypeOK /\ size \in Nat /\ Blocks \in Nat /\ dev.block \in 1 .. Blocks + 1
  BY SizeIsNat, DevFacts DEF ReceiveOK
<1>2. Newest \in Nat /\ Newest <= dev.block /\ Newest <= Blocks
  BY <1>1 DEF Newest
<1> QED BY <1>1, <1>2 DEF ReceiveOK, ReceiveInv, Parts, TypeOK, AllSlips

Older(u, s) ==
  \A i \in DOMAIN u : u[i].kind \in {"packet", "EOT"} => \E j \in DOMAIN s : u[i] = s[j]

\* what a step leaves on electerm's line: nothing is added
Less ==
  /\ toElecterm' \in Seq(ForElecterm) /\ Only(toElecterm', Spoken)
  /\ Fewer(toElecterm', toElecterm, Spoken) /\ Older(toElecterm', toElecterm)
  /\ Follows(toElecterm', toElecterm)

Back == toDevice' \in Seq(ForDevice) /\ Only(toDevice', Answering) /\ (Straight' => OneWord')

LEMMA LessHeard ==
  ASSUME ReceiveOK, NEW kinds \in SUBSET {"damaged", "headless", "short"},
         toElecterm' \in Seq(ForElecterm), Thins(toElecterm', toElecterm, kinds)
  PROVE  Less
<1>1. PICK u, s : u = toElecterm' /\ s = toElecterm
  OBVIOUS
<1>2. /\ \A K : (kinds \cap K = {} \/ "packet" \in K) => Fewer(u, s, K)
      /\ \A K : kinds \subseteq K \/ "packet" \notin K => (Only(s, K) => Only(u, K))
      /\ \A i \in DOMAIN u : \/ \E j \in DOMAIN s : u[i] = s[j]
                             \/ \E k \in kinds : u[i] = Byte(k)
  <2>1. PICK these : these = kinds
    OBVIOUS
  <2>2. Thins(u, s, these)
    BY <1>1, <2>1
  <2>3. /\ \A K : (these \cap K = {} \/ "packet" \in K) => Fewer(u, s, K)
        /\ \A K : these \subseteq K \/ "packet" \notin K => (Only(s, K) => Only(u, K))
        /\ \A i \in DOMAIN u : \/ \E j \in DOMAIN s : u[i] = s[j]
                               \/ \E k \in these : u[i] = Byte(k)
    BY <2>2, LineThins DEF Fewer
  <2> QED BY <2>1, <2>3
<1>3. "packet" \in Spoken /\ kinds \subseteq Spoken
  BY DEF Spoken
<1>4. Older(u, s)
  <2>1. SUFFICES ASSUME NEW i \in DOMAIN u, u[i].kind \in {"packet", "EOT"}
                 PROVE  \E j \in DOMAIN s : u[i] = s[j]
    BY DEF Older
  <2>2. \A k \in kinds : u[i] # Byte(k)
    BY <2>1 DEF Byte
  <2> QED BY <1>2, <2>2
<1>5. Only(s, Spoken)
  BY <1>1, ReceiveFacts
<1>6. Fewer(u, s, Spoken) /\ Only(u, Spoken)
  BY <1>2, <1>3, <1>5
<1>7. Follows(u, s)
  <2>1. Thins(u, s, kinds) /\ "packet" \notin kinds
    BY <1>1
  <2> QED BY <2>1, ThinsFollow
<1> QED BY <1>1, <1>4, <1>6, <1>7 DEF Less

LEMMA LessSame ==
  ASSUME ReceiveOK, toElecterm' = toElecterm
  PROVE  Less
BY ReceiveFacts DEF Less, Fewer, Older, Follows

LEMMA StraightBefore ==
  ASSUME slips \subseteq slips'
  PROVE  Straight' => Straight
BY DEF Straight

LEMMA BackSame ==
  ASSUME ReceiveOK, toDevice' = toDevice, Fewer(toElecterm', toElecterm, Spoken),
         slips \subseteq slips'
  PROVE  Back
<1>1. Straight' => OneWord'
  BY ReceiveFacts, StraightBefore DEF OneWord, Fewer
<1> QED BY <1>1, ReceiveFacts DEF Back

(* electerm answers what it heard, or repeats its answer in silence.       *)
LEMMA BackSaid ==
  ASSUME ReceiveOK, NEW k \in Answering, Write(k), Fewer(toElecterm', toElecterm, Spoken),
         slips \subseteq slips',
         \/ k = "CAN"
         \/ Straight => ~Holds(toElecterm', Spoken) /\ ~Holds(toDevice, {"ACK", "NAK"})
  PROVE  Back /\ \A K : Holds(toDevice', K) <=> Holds(toDevice, K) \/ k \in K
<1>1. k \in {"ACK", "NAK", "CAN"}
  BY DEF Answering
<1>2. PICK m \in ForDevice : m = Byte(k) /\ m.kind = k
  BY <1>1, WordsTyped
<1>3. PICK u, s : u = toDevice' /\ s = toDevice /\ u = Append(s, m)
  BY <1>2 DEF Write
<1>4. s \in Seq(ForDevice) /\ Only(s, Answering) /\ (Straight => OneWord)
  BY <1>3, ReceiveFacts
<1>5. /\ u \in Seq(ForDevice)
      /\ \A K : Holds(u, K) <=> Holds(s, K) \/ k \in K
      /\ \A K : Only(s, K) /\ k \in K => Only(u, K)
      /\ \A K : Once(s, K) /\ (k \notin K \/ ~Holds(s, K)) => Once(u, K)
  <2>1. Grown(Append(s, m), s, m, ForDevice)
    BY <1>2, <1>4, LineGrows
  <2> QED BY <1>2, <1>3, <2>1 DEF Grown
<1>6. Straight => Once(toElecterm', Spoken)
  BY <1>4 DEF OneWord, Fewer
<1>7. ASSUME Straight PROVE OneWord'
  <2>1. CASE k = "CAN"
    <3>1. k \notin {"ACK", "NAK"}
      BY <2>1
    <3>2. Once(u, {"ACK", "NAK"}) /\ (Holds(u, {"ACK", "NAK"}) => Holds(s, {"ACK", "NAK"}))
      BY <1>3, <1>4, <1>5, <1>7, <3>1 DEF OneWord
    <3> QED BY <1>3, <1>4, <1>6, <1>7, <3>2 DEF OneWord, Fewer
  <2>2. CASE ~Holds(toElecterm', Spoken) /\ ~Holds(toDevice, {"ACK", "NAK"})
    <3>1. Once(u, {"ACK", "NAK"})
      BY <1>3, <1>4, <1>5, <1>7, <2>2 DEF OneWord
    <3> QED BY <1>3, <1>6, <1>7, <2>2, <3>1 DEF OneWord
  <2> QED BY <1>7, <2>1, <2>2
<1>8. Only(u, Answering)
  BY <1>4, <1>5
<1> QED BY <1>3, <1>5, <1>7, <1>8, StraightBefore DEF Back

(* What the session's steps have in common.                                *)
LEMMA ReceiveSteps ==
  ASSUME ReceiveOK, UNCHANGED <<mode, size, dev>>, faults' \in 0 .. MaxFaults, SessionTypes',
         state' # "sending", timer' # "send", slips \subseteq slips', Less, Back, Path',
         block' <= dev.block + 1, InOrder(toElecterm', block' - 1, Newest),
         Straight' => Taken'
  PROVE  ReceiveOK'
<1>1. /\ TypeOK /\ mode = "receive" /\ Blocks' = Blocks /\ Whole' = Whole
  BY ReceiveFacts, SameFile
<1>2. TypeOK'
  <2>1. dev' \in DeviceRecord
    BY <1>1, DevFacts
  <2> QED BY <1>1, <2>1, TypesKept DEF Less, Back
<1>3. Parts'
  BY <1>1 DEF Parts, Less, Back
<1>4. ASSUME Straight' PROVE FromDevice'
  <2>1. FromDevice
    BY <1>4, ReceiveFacts, StraightBefore
  <2>2. ASSUME NEW i \in DOMAIN toElecterm', toElecterm'[i].kind \in {"packet", "EOT"}
        PROVE  toElecterm'[i] = Turn(dev.block)
    <3>1. PICK j \in DOMAIN toElecterm : toElecterm'[i] = toElecterm[j]
      BY <2>2 DEF Less, Older
    <3> QED BY <2>1, <2>2, <3>1 DEF FromDevice
  <2>3. \A b : Turn(b)' = Turn(b)
    BY <1>1 DEF Turn, Packet, Byte
  <2> QED BY <2>2, <2>3 DEF FromDevice
<1>5. Behind'
  BY <1>1 DEF Behind, Newest
<1> QED BY <1>1, <1>2, <1>3, <1>4, <1>5 DEF ReceiveOK, ReceiveInv, Back

LEMMA BehindStays ==
  ASSUME ReceiveOK, Less, block' = block \/ block' = 1
  PROVE  block' <= dev.block + 1 /\ InOrder(toElecterm', block' - 1, Newest)
<1>1. /\ block \in 1 .. Blocks + 1 /\ dev.block \in 1 .. Blocks + 1 /\ Blocks \in Nat
      /\ Newest \in Nat /\ Behind
  BY ReceiveFacts
<1>2. InOrder(toElecterm', block - 1, Newest)
  BY <1>1 DEF Behind, Less, Follows
<1>3. PICK l \in Int, l2 \in Int, h \in Int :
        l = block - 1 /\ l2 = block' - 1 /\ h = Newest
  BY <1>1
<1>4. PICK u : u = toElecterm'
  OBVIOUS
<1>5. InOrder(u, l, h) /\ l2 <= l /\ h <= h
  BY <1>1, <1>2, <1>3, <1>4
<1>6. InOrder(u, l2, h)
  BY <1>5, OrderWidens
<1> QED BY <1>1, <1>3, <1>4, <1>6 DEF Behind

(* The session is over.  One whose path has not come may begin again: then *)
(* nothing was taken yet.                                                  *)
LEMMA ReceiveEnds ==
  ASSUME ReceiveOK, state # "idle", NEW how \in {"complete", "error", "ended"}, End(how),
         UNCHANGED fixed, slips \subseteq slips', slips' \subseteq AllSlips, Less, Back,
         Straight' /\ Holds(toDevice', {"ACK"}) =>
           Holds(toDevice, {"ACK"}) \/ dev.block = Blocks + 1,
         Straight' /\ how = "complete" => Len(saved) = Blocks
  PROVE  ReceiveOK'
<1>1. /\ UNCHANGED <<mode, size, dev, faults>> /\ faults' \in 0 .. MaxFaults
      /\ TypeOK /\ Path /\ dev.block \in 1 .. Blocks + 1 /\ Blocks \in Nat
      /\ given \in {"no", "coming", "yes"} /\ useCrc' \in BOOLEAN
  BY ReceiveFacts DEF fixed, others
<1>2. /\ SessionTypes' /\ state' = "idle" /\ timer' = "none" /\ block' = 1
      /\ outcome' = how /\ saved' = saved
  BY <1>1, EndTyped
<1>3. given' = IF given = "yes" THEN "no" ELSE given
  BY DEF End
<1>4. Path'
  BY <1>2 DEF Path
<1>5. block' <= dev.block + 1 /\ InOrder(toElecterm', block' - 1, Newest)
  BY <1>2, BehindStays
<1>6. ASSUME Straight' PROVE Taken'
  <2>1. Taken /\ Whole' = Whole /\ Blocks' = Blocks
    BY <1>1, <1>6, ReceiveFacts, SameFile, StraightBefore
  <2>2. outcome' = "complete" => Len(saved) = Blocks
    BY <1>2, <1>6
  <2>3. ASSUME Open' PROVE Len(saved) = 0 /\ Synced'
    <3>1. given = "coming" /\ outcome = "none"
      BY <1>1, <1>2, <1>3, <2>3 DEF Open, Path
    <3>2. Len(saved) = block - 1 /\ block = 1 /\ Synced
      BY <2>1, <3>1 DEF Taken, Open
    <3>3. dev.block = 1
      BY <1>1, <3>2 DEF Synced
    <3>4. Holds(toDevice', {"ACK"}) => dev.block = Blocks + 1
      BY <1>1, <1>6, <3>2, <3>3 DEF Synced
    <3> QED BY <1>1, <1>2, <2>1, <3>2, <3>3, <3>4 DEF Synced
  <2> QED BY <1>2, <2>1, <2>2, <2>3 DEF Taken
<1>7. state' # "sending" /\ timer' # "send"
  BY <1>2
<1> QED BY <1>1, <1>2, <1>4, <1>5, <1>6, <1>7, ReceiveSteps

(* It goes on, and takes nothing.                                          *)
LEMMA ReceiveGoesOn ==
  ASSUME ReceiveOK, UNCHANGED <<mode, size, dev, block, sentBytes, saved, outcome, slips>>,
         faults' \in 0 .. MaxFaults, retries' \in 0 .. MaxRetries,
         useCrc' \in BOOLEAN, buffered' \in BOOLEAN,
         given' \in {"no", "coming", "yes"}, timer' \in {"none", "receive"},
         state' \in {"idle", "waiting_remote", "receiving"}, Less, Back, Path',
         Open' => Open, Open' /\ given' # "yes" => given # "yes",
         Straight /\ Open' /\ Holds(toDevice', {"ACK"}) =>
           Holds(toDevice, {"ACK"}) \/ block = dev.block + 1
  PROVE  ReceiveOK'
<1>1. Blocks' = Blocks /\ DataBlocks' = DataBlocks /\ Whole' = Whole /\ Blocks \in Nat
      /\ dev.block \in 1 .. Blocks + 1
  BY ReceiveFacts, SameFile
<1>2. SessionTypes'
  BY <1>1, ReceiveFacts DEF SessionTypes, TypeOK, AllSlips
<1>3. block' <= dev.block + 1 /\ InOrder(toElecterm', block' - 1, Newest)
  BY BehindStays
<1>4. ASSUME Straight' PROVE Taken'
  <2>1. Taken /\ Straight
    BY <1>4, ReceiveFacts, StraightBefore
  <2>2. ASSUME Open' PROVE Synced'
    <3>1. Synced
      BY <2>1, <2>2 DEF Taken
    <3>2. Holds(toDevice', {"ACK"}) => Holds(toDevice, {"ACK"}) \/ block = dev.block + 1
      BY <2>1, <2>2
    <3> QED BY <1>1, <3>1, <3>2 DEF Synced
  <2>3. Open' => Len(saved') = block' - 1
    BY <2>1 DEF Taken
  <2>4. Open' /\ given' # "yes" => block' = 1
    BY <2>1 DEF Taken
  <2> QED BY <1>1, <2>1, <2>2, <2>3, <2>4 DEF Taken
<1>5. state' # "sending" /\ timer' # "send"
  OBVIOUS
<1> QED BY <1>2, <1>3, <1>4, <1>5, ReceiveSteps

LEMMA StartReceives ==
  ASSUME ReceiveOK, Start
  PROVE  ReceiveOK'
<1>1. /\ state = "idle" /\ outcome = "none" /\ state' = "waiting_remote"
      /\ given' = "coming" /\ timer' = "receive"
      /\ UNCHANGED <<retries, block, sentBytes, buffered, saved, outcome, slips>>
      /\ UNCHANGED <<toDevice, toElecterm, mode, size, faults, dev>>
  BY DEF Start, others
<1>2. /\ faults' \in 0 .. MaxFaults /\ retries' \in 0 .. MaxRetries
      /\ useCrc' \in BOOLEAN /\ buffered' \in BOOLEAN
  BY <1>1, ReceiveFacts DEF Start
<1>3. Less
  BY <1>1, LessSame
<1>4. Back
  BY <1>1, <1>3, BackSame DEF Less
<1>5. Path' /\ Open /\ given # "yes"
  BY <1>1, ReceiveFacts DEF Path, Open
<1> QED BY <1>1, <1>2, <1>3, <1>4, <1>5, ReceiveGoesOn

LEMMA GiveReceives ==
  ASSUME ReceiveOK, Give
  PROVE  ReceiveOK'
<1>1. /\ given = "coming" /\ given' = "yes" /\ state' \in {state, "waiting_remote"}
      /\ timer' \in {timer, "receive"}
      /\ UNCHANGED <<retries, useCrc, block, sentBytes, buffered, saved, outcome, slips>>
      /\ UNCHANGED <<toDevice, toElecterm, mode, size, faults, dev>>
  BY ReceiveFacts DEF Give, fixed, others
<1>2. /\ faults' \in 0 .. MaxFaults /\ retries' \in 0 .. MaxRetries
      /\ useCrc' \in BOOLEAN /\ buffered' \in BOOLEAN
      /\ timer' \in {"none", "receive"} /\ state' \in {"idle", "waiting_remote", "receiving"}
  BY <1>1, ReceiveFacts DEF TypeOK
<1>3. Less
  BY <1>1, LessSame
<1>4. Back
  BY <1>1, <1>3, BackSame DEF Less
<1>5. Path' /\ Open
  BY <1>1, ReceiveFacts DEF Path, Open
<1> QED BY <1>1, <1>2, <1>3, <1>4, <1>5, ReceiveGoesOn

LEMMA CancelReceives ==
  ASSUME ReceiveOK, Cancel
  PROVE  ReceiveOK'
<1>1. /\ state # "idle" /\ End("ended") /\ slips' = slips /\ toElecterm' = toElecterm
      /\ UNCHANGED fixed /\ (Write("CAN") \/ toDevice' = toDevice)
  BY DEF Cancel
<1>2. slips \subseteq slips' /\ slips' \subseteq AllSlips
  BY <1>1, ReceiveFacts
<1>3. Less
  BY <1>1, LessSame
<1>4. Back /\ (Holds(toDevice', {"ACK"}) => Holds(toDevice, {"ACK"}))
  <2>1. CASE Write("CAN")
    <3>1. PICK k \in Answering : k = "CAN"
      BY DEF Answering
    <3>2. Back /\ \A K : Holds(toDevice', K) <=> Holds(toDevice, K) \/ k \in K
      BY <1>2, <1>3, <2>1, <3>1, BackSaid DEF Less
    <3> QED BY <3>1, <3>2
  <2>2. CASE toDevice' = toDevice
    BY <1>2, <1>3, <2>2, BackSame DEF Less
  <2> QED BY <1>1, <2>1, <2>2
<1> QED BY <1>1, <1>2, <1>3, <1>4, ReceiveEnds

LEMMA HearNothingReceives ==
  ASSUME ReceiveOK, HearNothing
  PROVE  ReceiveOK'
<1>1. /\ toElecterm # << >> /\ toElecterm' = Tail(toElecterm)
      /\ UNCHANGED <<state, given, timer, retries, useCrc, block, sentBytes, buffered, saved,
                     outcome, slips>>
      /\ UNCHANGED <<toDevice, mode, size, faults, dev>>
  BY DEF HearNothing, session, others
<1>2. Less
  <2>1. toElecterm' \in Seq(ForElecterm) /\ Thins(toElecterm', toElecterm, {})
    BY <1>1, ReceiveFacts, LineHeard
  <2> QED BY <2>1, LessHeard
<1>3. Back
  BY <1>1, <1>2, BackSame DEF Less
<1>4. /\ faults' \in 0 .. MaxFaults /\ retries' \in 0 .. MaxRetries
      /\ useCrc' \in BOOLEAN /\ buffered' \in BOOLEAN
      /\ given' \in {"no", "coming", "yes"} /\ timer' \in {"none", "receive"}
      /\ state' \in {"idle", "waiting_remote", "receiving"}
  BY <1>1, ReceiveFacts DEF TypeOK
<1>5. Path' /\ (Open' => Open)
  BY <1>1, ReceiveFacts DEF Path, Open
<1> QED BY <1>1, <1>2, <1>3, <1>4, <1>5, ReceiveGoesOn

LEMMA LineFailsReceives ==
  ASSUME ReceiveOK, LineFails
  PROVE  ReceiveOK'
<1>1. /\ UNCHANGED <<state, given, timer, retries, useCrc, block, sentBytes, buffered, saved,
                     outcome, slips>>
      /\ UNCHANGED <<mode, size, dev>>
  BY DEF LineFails, session
<1>2. faults' \in 0 .. MaxFaults
  <2>1. faults \in 0 .. MaxFaults
    BY ReceiveFacts
  <2>2. faults < MaxFaults /\ faults' = faults + 1
    BY DEF LineFails
  <2> QED BY <2>1, <2>2
<1>3. /\ retries' \in 0 .. MaxRetries /\ useCrc' \in BOOLEAN /\ buffered' \in BOOLEAN
      /\ given' \in {"no", "coming", "yes"} /\ timer' \in {"none", "receive"}
      /\ state' \in {"idle", "waiting_remote", "receiving"}
  BY <1>1, ReceiveFacts DEF TypeOK
<1>4. Path' /\ (Open' => Open)
  BY <1>1, ReceiveFacts DEF Path, Open
<1>5. CASE (\E i \in DOMAIN toDevice : toDevice' \in Damaged(toDevice, i, {"damaged"}))
           /\ UNCHANGED toElecterm
  <2>1. PICK i \in DOMAIN toDevice : toDevice' \in Damaged(toDevice, i, {"damaged"})
    BY <1>5
  <2>2. PICK u, s : u = toDevice' /\ s = toDevice
    OBVIOUS
  <2>3. PICK kinds : kinds = {"damaged"}
    OBVIOUS
  <2>4. u \in Seq(ForDevice) /\ Thins(u, s, kinds)
    <3>1. \A k \in kinds : Byte(k) \in ForDevice
      BY <2>3, WordsTyped
    <3>2. u \in Damaged(s, i, kinds) /\ s \in Seq(ForDevice) /\ i \in DOMAIN s
      BY <2>1, <2>2, <2>3, ReceiveFacts
    <3> QED BY <3>1, <3>2, LineDamaged
  <2>5. /\ \A K : (kinds \cap K = {} \/ "packet" \in K) => Fewer(u, s, K)
        /\ \A K : kinds \subseteq K \/ "packet" \notin K => (Only(s, K) => Only(u, K))
    BY <2>4, LineThins DEF Fewer
  <2>6. Fewer(u, s, {"ACK", "NAK"}) /\ Fewer(u, s, {"ACK"})
    <3>1. kinds \cap {"ACK", "NAK"} = {} /\ kinds \cap {"ACK"} = {}
      BY <2>3
    <3> QED BY <2>5, <3>1
  <2>7. Only(u, Answering)
    <3>1. "packet" \notin Answering /\ Only(s, Answering)
      BY <2>2, ReceiveFacts DEF Answering
    <3> QED BY <2>5, <3>1
  <2>8. Less
    BY <1>5, LessSame
  <2>9. Back
    <3>1. Straight' => OneWord'
      BY <1>1, <1>5, <2>2, <2>6, ReceiveFacts, StraightBefore DEF OneWord, Fewer
    <3> QED BY <2>2, <2>4, <2>7, <3>1 DEF Back
  <2>10. Holds(toDevice', {"ACK"}) => Holds(toDevice, {"ACK"})
    BY <2>2, <2>6 DEF Fewer
  <2> QED BY <1>1, <1>2, <1>3, <1>4, <2>8, <2>9, <2>10, ReceiveGoesOn
<1>6. CASE (\E i \in DOMAIN toElecterm :
             toElecterm' \in Damaged(toElecterm, i, {"damaged", "headless", "short"}))
           /\ UNCHANGED toDevice
  <2>1. PICK i \in DOMAIN toElecterm :
          toElecterm' \in Damaged(toElecterm, i, {"damaged", "headless", "short"})
    BY <1>6
  <2>2. PICK u : u = toElecterm'
    OBVIOUS
  <2>3. PICK kinds \in SUBSET {"damaged", "headless", "short"} : kinds = {"damaged", "headless", "short"}
    OBVIOUS
  <2>4. u \in Seq(ForElecterm) /\ Thins(u, toElecterm, kinds)
    <3>1. \A k \in kinds : Byte(k) \in ForElecterm
      BY <2>3, WordsTyped
    <3>2. u \in Damaged(toElecterm, i, kinds) /\ toElecterm \in Seq(ForElecterm)
      BY <2>1, <2>2, <2>3, ReceiveFacts
    <3> QED BY <3>1, <3>2, LineDamaged
  <2>5. Less
    BY <2>2, <2>3, <2>4, LessHeard
  <2>6. Back
    BY <1>1, <1>6, <2>5, BackSame DEF Less
  <2> QED BY <1>1, <1>2, <1>3, <1>4, <1>6, <2>5, <2>6, ReceiveGoesOn
<1> QED BY <1>5, <1>6 DEF LineFails

(* A packet or its remains are refused, or silence is answered.           *)
LEMMA RefuseKeeps ==
  ASSUME ReceiveOK, state \in {"waiting_remote", "receiving"},
         NEW rest \in BOOLEAN, Refuse(rest), UNCHANGED fixed, slips' = slips, Less,
         Straight => ~Holds(toElecterm', Spoken) /\ ~Holds(toDevice, {"ACK", "NAK"})
  PROVE  ReceiveOK'
<1>1. /\ UNCHANGED <<mode, size, faults, dev, useCrc>> /\ faults' \in 0 .. MaxFaults
      /\ slips \subseteq AllSlips /\ slips \subseteq slips' /\ slips' \subseteq AllSlips
      /\ Path /\ retries \in 0 .. MaxRetries /\ useCrc' \in BOOLEAN
  BY ReceiveFacts DEF fixed, others
<1>2. ASSUME NEW k \in {"NAK", "CAN"}, Write(k)
      PROVE  Back /\ (Holds(toDevice', {"ACK"}) => Holds(toDevice, {"ACK"}))
  <2>1. PICK word \in Answering : word = k
    BY DEF Answering
  <2>2. Back /\ \A K : Holds(toDevice', K) <=> Holds(toDevice, K) \/ word \in K
    BY <1>1, <1>2, <2>1, BackSaid DEF Less
  <2> QED BY <2>1, <2>2
<1>3. CASE Exhausted /\ Write("CAN") /\ End("ended")
  <2>1. Back /\ (Holds(toDevice', {"ACK"}) => Holds(toDevice, {"ACK"}))
    BY <1>2, <1>3
  <2> QED BY <1>1, <1>3, <2>1, ReceiveEnds
<1>4. CASE /\ ~Exhausted
           /\ Write("NAK") /\ Listen
           /\ retries' = retries + 1 /\ buffered' = rest
           /\ UNCHANGED <<given, block, sentBytes, saved, outcome>>
  <2>1. Back /\ (Holds(toDevice', {"ACK"}) => Holds(toDevice, {"ACK"}))
    BY <1>2, <1>4
  <2>2. retries' \in 0 .. MaxRetries
    BY <1>1, <1>4 DEF Exhausted
  <2>3. state' = "receiving" /\ timer' = "receive"
    BY <1>4 DEF Listen
  <2>4. Path' /\ Open
    BY <1>1, <1>4, <2>3 DEF Path, Open
  <2>5. given' \in {"no", "coming", "yes"}
    BY <1>4, ReceiveFacts
  <2> QED BY <1>1, <1>4, <2>1, <2>2, <2>3, <2>4, <2>5, ReceiveGoesOn
<1> QED BY <1>3, <1>4 DEF Refuse

(* The block that electerm waits for and the one before it are told by     *)
(* their numbers from the block that was sent.                             *)
LEMMA BlockTold ==
  ASSUME ReceiveOK, Straight, state # "idle", dev.block <= Blocks
  PROVE  /\ dev.block % Modulus = block % Modulus => block = dev.block
         /\ dev.block % Modulus = (block - 1) % Modulus => block = dev.block + 1
<1>1. /\ Taken /\ dev.block \in 1 .. Blocks + 1 /\ Blocks \in Nat /\ block \in 1 .. Blocks + 1
  BY ReceiveFacts
<1>2. Synced
  BY <1>1 DEF Taken, Open
<1>3. PICK d \in Nat : dev.block = d + 1
  <2>1. dev.block - 1 \in Nat /\ dev.block = dev.block - 1 + 1
    BY <1>1
  <2> QED BY <2>1
<1>4. PICK c \in Nat : c = d + 1
  OBVIOUS
<1>5. d % Modulus # c % Modulus /\ c % Modulus # (c + 1) % Modulus
  BY <1>4, NumbersDiffer
<1>6. dev.block = c
  BY <1>3, <1>4
<1>7. CASE block = dev.block
  <2>1. block - 1 = d
    BY <1>3, <1>7
  <2> QED BY <1>5, <1>6, <1>7, <2>1
<1>8. CASE block = dev.block + 1
  <2>1. block = c + 1 /\ block - 1 = c
    BY <1>6, <1>8
  <2> QED BY <1>5, <1>6, <1>8, <2>1
<1> QED BY <1>2, <1>7, <1>8 DEF Synced

(* A packet whose CRC is right.                                            *)
LEMMA TakeKeeps ==
  ASSUME ReceiveOK, state \in {"waiting_remote", "receiving"}, UNCHANGED fixed, Less,
         Straight => ~Holds(toElecterm', Spoken) /\ ~Holds(toDevice, {"ACK", "NAK"}),
         NEW m \in ForElecterm, m.kind = "packet", Straight => m = Turn(dev.block),
         NEW k \in Nat, block - 1 <= k, k <= Newest, m.number = k % Modulus,
         InOrder(toElecterm', k, Newest), Take(m)
  PROVE  ReceiveOK'
<1>1. /\ UNCHANGED <<mode, size, faults, dev, useCrc>> /\ faults' \in 0 .. MaxFaults
      /\ slips \subseteq AllSlips /\ Path /\ retries \in 0 .. MaxRetries
      /\ size \in Nat /\ Blocks \in Nat /\ dev.block \in 1 .. Blocks + 1
      /\ block \in 1 .. Blocks + 1 /\ saved \in Seq(DataBlocks) /\ TypeOK
      /\ Newest \in Nat /\ Newest <= dev.block /\ Newest <= Blocks
      /\ useCrc' \in BOOLEAN /\ buffered \in BOOLEAN /\ given \in {"no", "coming", "yes"}
  BY ReceiveFacts DEF fixed, others
<1>2. ASSUME Straight
      PROVE  /\ dev.block <= Blocks /\ m.number = dev.block % Modulus
             /\ m.data = Whole[dev.block]
  <2>1. dev.block <= Blocks
    BY <1>2 DEF Turn, Byte
  <2>2. m = Packet(dev.crc, dev.block, Whole[dev.block])
    BY <1>2, <2>1 DEF Turn
  <2> QED BY <2>1, <2>2 DEF Packet
<1>3. ASSUME NEW word \in {"ACK", "CAN"}, Write(word), slips \subseteq slips'
      PROVE  Back /\ \A K : Holds(toDevice', K) <=> Holds(toDevice, K) \/ word \in K
  <2>1. PICK w \in Answering : w = word
    BY DEF Answering
  <2>2. Back /\ \A K : Holds(toDevice', K) <=> Holds(toDevice, K) \/ w \in K
    BY <1>3, <2>1, BackSaid DEF Less
  <2> QED BY <2>1, <2>2
<1>4. CASE /\ IsNext(m)
           /\ saved' = IF given = "yes" THEN Append(saved, m.data) ELSE saved
           /\ slips' = IF given = "yes" THEN slips ELSE slips \cup {"unsaved"}
           /\ block' = block + 1 /\ retries' = 0
           /\ Write("ACK") /\ Listen
           /\ UNCHANGED <<given, sentBytes, buffered, outcome>>
  <2>1. block <= k
    <3>1. PICK b \in Nat \ {0} : b = block
      BY <1>1
    <3>2. b - 1 <= k /\ k % Modulus = b % Modulus
      BY <1>4, <3>1 DEF IsNext
    <3> QED BY <3>1, <3>2, NotBefore
  <2>2. block' \in 1 .. Blocks + 1 /\ block' <= dev.block + 1 /\ block' - 1 = block
    BY <1>1, <1>4, <2>1
  <2>3. InOrder(toElecterm', block' - 1, Newest)
    <3>1. PICK u : u = toElecterm'
      OBVIOUS
    <3>2. PICK b \in Int, h \in Int : b = block /\ h = Newest
      BY <1>1
    <3>3. InOrder(u, k, h) /\ b <= k /\ h <= h
      BY <1>1, <2>1, <3>1, <3>2
    <3>4. InOrder(u, b, h)
      BY <3>3, OrderWidens
    <3> QED BY <2>2, <3>1, <3>2, <3>4
  <2>4. saved' \in Seq(DataBlocks)
    <3>1. m.data \in DataBlocks
      BY <1>1, MessageFields
    <3>2. Append(saved, m.data) \in Seq(DataBlocks)
      BY <1>1, <3>1, AppendProperties
    <3> QED BY <1>1, <1>4, <3>2
  <2>5. state' = "receiving" /\ timer' = "receive"
    BY <1>4 DEF Listen
  <2>6. Blocks' = Blocks /\ DataBlocks' = DataBlocks /\ Whole' = Whole
    BY <1>1, SameFile
  <2>7. slips \subseteq slips' /\ slips' \subseteq AllSlips
    BY <1>1, <1>4 DEF AllSlips
  <2>8. SessionTypes'
    BY <1>1, <1>4, <2>2, <2>4, <2>5, <2>6, <2>7 DEF SessionTypes, TypeOK
  <2>9. Path'
    BY <1>1, <1>4, <2>5 DEF Path
  <2>10. Back
    BY <1>3, <1>4, <2>7
  <2>11. ASSUME Straight' PROVE Taken'
    <3>1. Straight /\ given = "yes" /\ saved' = Append(saved, m.data) /\ Taken
      BY <1>4, <2>7, <2>11, ReceiveFacts, StraightBefore DEF Straight
    <3>2. block = dev.block
      BY <1>2, <1>4, <3>1, BlockTold DEF IsNext
    <3>3. Len(saved) = block - 1 /\ \A b \in DOMAIN saved : saved[b] = Whole[b]
      BY <3>1 DEF Taken, Open
    <3>4. PICK s \in Seq(DataBlocks), x \in DataBlocks : s = saved /\ x = m.data
      BY <1>1, MessageFields
    <3>5. /\ Len(Append(s, x)) = Len(s) + 1 /\ Len(s) \in Nat
          /\ DOMAIN Append(s, x) = 1 .. Len(s) + 1 /\ DOMAIN s = 1 .. Len(s)
          /\ \A i \in 1 .. Len(s) : Append(s, x)[i] = s[i]
          /\ Append(s, x)[Len(s) + 1] = x
      BY AppendProperties, LenProperties
    <3>6. PICK u : u = saved' /\ u = Append(s, x)
      BY <3>1, <3>4
    <3>7. Len(u) = block /\ Len(u) <= Blocks
      BY <1>1, <1>2, <3>1, <3>2, <3>3, <3>4, <3>5, <3>6
    <3>8. ASSUME NEW b \in DOMAIN u PROVE u[b] = Whole[b]
      <4>1. CASE b \in 1 .. Len(s)
        BY <3>3, <3>4, <3>5, <3>6, <4>1
      <4>2. CASE b \notin 1 .. Len(s)
        <5>1. b = Len(s) + 1
          BY <3>5, <3>6, <4>2
        <5>2. Len(s) + 1 = dev.block
          BY <1>1, <3>2, <3>3, <3>4
        <5>3. u[b] = x
          BY <3>5, <3>6, <5>1
        <5> QED BY <1>2, <3>1, <3>4, <5>1, <5>2, <5>3
      <4> QED BY <4>1, <4>2
    <3>9. Len(saved') = block' - 1 /\ Synced'
      <4>1. block' = dev.block + 1
        BY <1>4, <3>2
      <4>2. Len(saved') = block' - 1
        BY <1>1, <1>4, <3>6, <3>7
      <4> QED BY <1>1, <4>1, <4>2 DEF Synced
    <3>10. outcome' # "complete"
      <4>1. outcome = "complete" => Len(saved) = Blocks
        BY <3>1 DEF Taken
      <4>2. Len(saved) # Blocks
        BY <1>1, <1>2, <3>1, <3>2, <3>3
      <4> QED BY <1>4, <4>1, <4>2
    <3>11. given' = "yes"
      BY <1>4, <3>1
    <3> QED BY <2>6, <3>6, <3>7, <3>8, <3>9, <3>10, <3>11 DEF Taken
  <2>12. state' # "sending" /\ timer' # "send"
    BY <2>5
  <2> QED BY <1>1, <2>2, <2>3, <2>7, <2>8, <2>9, <2>10, <2>11, <2>12, ReceiveSteps
<1>5. CASE /\ ~IsNext(m) /\ m.number = (block - 1) % Modulus
           /\ Write("ACK") /\ Listen
           /\ UNCHANGED <<given, retries, block, sentBytes, buffered, saved, outcome, slips>>
  <2>1. Straight => block = dev.block + 1
    BY <1>2, <1>5, BlockTold
  <2>2. state' = "receiving" /\ timer' = "receive"
    BY <1>5 DEF Listen
  <2>3. Path' /\ Open
    BY <1>1, <1>5, <2>2 DEF Path, Open
  <2>4. Back
    BY <1>3, <1>5
  <2> QED BY <1>1, <1>5, <2>1, <2>2, <2>3, <2>4, ReceiveGoesOn
<1>6. CASE /\ ~IsNext(m) /\ m.number # (block - 1) % Modulus
           /\ Write("CAN") /\ End("ended")
           /\ UNCHANGED slips
  <2>1. Back /\ (Holds(toDevice', {"ACK"}) => Holds(toDevice, {"ACK"}))
    BY <1>3, <1>6
  <2>2. slips \subseteq slips' /\ slips' \subseteq AllSlips
    BY <1>1, <1>6
  <2> QED BY <1>1, <1>6, <2>1, <2>2, ReceiveEnds
<1> QED BY <1>4, <1>5, <1>6 DEF Take

LEMMA ReceiveTimeoutReceives ==
  ASSUME ReceiveOK, ReceiveTimeout
  PROVE  ReceiveOK'
<1>1. /\ slips' = slips /\ toElecterm' = toElecterm /\ UNCHANGED fixed
      /\ slips \subseteq slips' /\ slips' \subseteq AllSlips
      /\ timer = "receive" /\ mode = "receive"
      /\ toDevice = << >> /\ toElecterm = << >>
      /\ UNCHANGED <<mode, size, faults, dev, useCrc>> /\ faults' \in 0 .. MaxFaults
      /\ retries \in 0 .. MaxRetries /\ useCrc' \in BOOLEAN /\ buffered \in BOOLEAN
  BY ReceiveFacts DEF ReceiveTimeout, Quiet, fixed, others
<1>2. Less
  BY <1>1, LessSame
<1>3. ~Holds(toElecterm', Spoken) /\ ~Holds(toDevice, {"ACK", "NAK"})
  BY <1>1 DEF Holds
<1>4. CASE state = "receiving" /\ Refuse(buffered)
  <2>1. PICK rest \in BOOLEAN : rest = buffered
    BY <1>1
  <2> QED BY <1>1, <1>2, <1>3, <1>4, <2>1, RefuseKeeps
<1>5. CASE /\ state = "waiting_remote" /\ Exhausted
           /\ End("error")
           /\ UNCHANGED toDevice
  <2>1. Back
    BY <1>1, <1>2, <1>5, BackSame DEF Less
  <2> QED BY <1>1, <1>2, <1>5, <2>1, ReceiveEnds
<1>6. CASE /\ state = "waiting_remote" /\ ~Exhausted
           /\ retries' = retries + 1
           /\ Write("NAK")
           /\ UNCHANGED <<state, given, timer, block, sentBytes, buffered, saved, outcome>>
  <2>1. PICK k \in Answering : k = "NAK"
    BY DEF Answering
  <2>2. Back /\ \A K : Holds(toDevice', K) <=> Holds(toDevice, K) \/ k \in K
    BY <1>1, <1>2, <1>3, <1>6, <2>1, BackSaid DEF Less
  <2>3. Holds(toDevice', {"ACK"}) => Holds(toDevice, {"ACK"})
    BY <2>1, <2>2
  <2>4. retries' \in 0 .. MaxRetries
    BY <1>1, <1>6 DEF Exhausted
  <2>5. Path' /\ (Open' => Open)
    BY <1>6, ReceiveFacts DEF Path, Open
  <2>6. given' \in {"no", "coming", "yes"}
    BY <1>6, ReceiveFacts
  <2>7. timer' \in {"none", "receive"} /\ state' \in {"idle", "waiting_remote", "receiving"}
    BY <1>1, <1>6
  <2> QED BY <1>1, <1>2, <1>6, <2>2, <2>3, <2>4, <2>5, <2>6, <2>7, ReceiveGoesOn
<1> QED BY <1>1, <1>4, <1>5, <1>6 DEF ReceiveTimeout

LEMMA LinesJoin ==
  ASSUME NEW S, NEW s \in Seq(S), NEW t \in Seq(S)
  PROVE  /\ s \o t \in Seq(S)
         /\ \A K : Only(s, K) /\ Only(t, K) => Only(s \o t, K)
<1>1. PICK u : u = s \o t
  OBVIOUS
<1>2. /\ u \in Seq(S) /\ Len(u) = Len(s) + Len(t)
      /\ \A i \in 1 .. Len(s) + Len(t) : u[i] = IF i <= Len(s) THEN s[i] ELSE t[i - Len(s)]
      /\ Len(s) \in Nat /\ Len(t) \in Nat
      /\ DOMAIN s = 1 .. Len(s) /\ DOMAIN t = 1 .. Len(t) /\ DOMAIN u = 1 .. Len(u)
  BY <1>1, ConcatProperties, LenProperties
<1>3. \A i \in DOMAIN u : \/ i \in DOMAIN s /\ u[i] = s[i]
                          \/ i - Len(s) \in DOMAIN t /\ u[i] = t[i - Len(s)]
  BY <1>2
<1> QED BY <1>1, <1>2, <1>3 DEF Only

LEMMA WordLine ==
  ASSUME NEW k \in Answering
  PROVE  <<Byte(k)>> \in Seq(ForDevice) /\ Only(<<Byte(k)>>, Answering)
<1>1. PICK m \in ForDevice : m = Byte(k) /\ m.kind = k
  BY WordsTyped DEF Answering
<1>2. PICK s : s = <<m>>
  OBVIOUS
<1>3. s \in Seq(ForDevice) /\ DOMAIN s = {1} /\ s[1] = m
  BY <1>2
<1> QED BY <1>1, <1>2, <1>3 DEF Only

(* Data is read for the end.                                               *)
LEMMA MisreadKeeps ==
  ASSUME ReceiveOK, state # "idle", UNCHANGED fixed, Less, Misread
  PROVE  ReceiveOK'
<1>1. /\ slips' = slips \cup {"misread"} /\ slips \subseteq slips' /\ slips' \subseteq AllSlips
      /\ toDevice \in Seq(ForDevice) /\ Only(toDevice, Answering)
  BY ReceiveFacts DEF Misread, AllSlips
<1>2. ~Straight'
  BY <1>1 DEF Straight
<1>3. PICK refusal : refusal = IF buffered THEN <<Byte("NAK")>> ELSE << >>
  OBVIOUS
<1>4. refusal \in Seq(ForDevice) /\ Only(refusal, Answering)
  <2>1. << >> \in Seq(ForDevice) /\ Only(<< >>, Answering)
    BY EmptySeq DEF Only
  <2>2. <<Byte("NAK")>> \in Seq(ForDevice) /\ Only(<<Byte("NAK")>>, Answering)
    BY WordLine DEF Answering
  <2> QED BY <1>3, <2>1, <2>2
<1>5. toDevice \o refusal \in Seq(ForDevice) /\ Only(toDevice \o refusal, Answering)
  BY <1>1, <1>4, LinesJoin
<1>6. CASE toDevice' = toDevice \o refusal \o <<Byte("ACK")>> /\ End("complete")
  <2>1. <<Byte("ACK")>> \in Seq(ForDevice) /\ Only(<<Byte("ACK")>>, Answering)
    BY WordLine DEF Answering
  <2>2. toDevice' \in Seq(ForDevice) /\ Only(toDevice', Answering)
    BY <1>5, <1>6, <2>1, LinesJoin
  <2>3. Back
    BY <1>2, <2>2 DEF Back
  <2> QED BY <1>1, <1>2, <1>6, <2>3, ReceiveEnds
<1>7. CASE toDevice' = toDevice \o refusal /\ End("error")
  <2>1. Back
    BY <1>2, <1>5, <1>7 DEF Back
  <2> QED BY <1>1, <1>2, <1>7, <2>1, ReceiveEnds
<1> QED BY <1>3, <1>6, <1>7 DEF Misread

LEMMA HearPacketKeeps ==
  ASSUME ReceiveOK, HearPacket
  PROVE  ReceiveOK'
<1>1. /\ state \in {"waiting_remote", "receiving"} /\ state # "idle"
      /\ toElecterm # << >> /\ toElecterm' = Tail(toElecterm) /\ UNCHANGED fixed
      /\ toElecterm \in Seq(ForElecterm)
      /\ Only(toElecterm, Spoken) /\ (Straight => OneWord /\ FromDevice)
      /\ dev.block \in 1 .. Blocks + 1 /\ Blocks \in Nat /\ block \in 1 .. Blocks + 1
      /\ UNCHANGED <<mode, size, faults, dev, useCrc>> /\ faults' \in 0 .. MaxFaults
      /\ useCrc' \in BOOLEAN /\ slips \subseteq AllSlips
      /\ Newest \in Nat /\ Behind
  BY ReceiveFacts DEF HearPacket, fixed, others
<1>2. PICK m : m = Head(toElecterm)
  OBVIOUS
<1>3. /\ toElecterm' \in Seq(ForElecterm) /\ Thins(toElecterm', toElecterm, {})
      /\ m \in ForElecterm /\ 1 \in DOMAIN toElecterm /\ m = toElecterm[1]
      /\ \A K : m.kind \in K => Holds(toElecterm, K)
      /\ \A K : Once(toElecterm, K) /\ m.kind \in K => ~Holds(toElecterm', K)
  BY <1>1, <1>2, LineHeard
<1>4. Less
  BY <1>3, LessHeard
<1>5. m.kind \in Spoken
  BY <1>1, <1>3 DEF Only
<1>6. Straight => ~Holds(toElecterm', Spoken) /\ ~Holds(toDevice, {"ACK", "NAK"})
  <2> SUFFICES ASSUME Straight
               PROVE  ~Holds(toElecterm', Spoken) /\ ~Holds(toDevice, {"ACK", "NAK"})
    OBVIOUS
  <2>1. Once(toElecterm, Spoken) /\ Holds(toElecterm, Spoken)
    BY <1>1, <1>3, <1>5 DEF OneWord
  <2> QED BY <1>1, <1>3, <1>5, <2>1 DEF OneWord
<1>7. Straight /\ m.kind \in {"packet", "EOT"} => m = Turn(dev.block)
  BY <1>1, <1>3 DEF FromDevice
<1>8. CASE m.kind = "packet" /\ Take(m)
  <2>1. PICK low \in Int, high \in Int : low = block - 1 /\ high = Newest
    BY <1>1
  <2>2. InOrder(toElecterm, low, high) /\ Head(toElecterm).kind = "packet"
    BY <1>1, <1>2, <1>8, <2>1 DEF Behind
  <2>3. PICK k \in Nat : /\ low <= k /\ k <= high /\ Head(toElecterm).number = k % Modulus
                         /\ InOrder(Tail(toElecterm), k, high)
    BY <1>1, <2>2, HeadInOrder
  <2>4. /\ block - 1 <= k /\ k <= Newest /\ m.number = k % Modulus
        /\ InOrder(toElecterm', k, Newest)
    BY <1>1, <1>2, <2>1, <2>3
  <2> QED BY <1>1, <1>3, <1>4, <1>6, <1>7, <1>8, <2>4, TakeKeeps
<1>9. ASSUME NEW rest \in BOOLEAN, Refuse(rest), UNCHANGED slips
      PROVE  ReceiveOK'
  BY <1>1, <1>4, <1>6, <1>9, RefuseKeeps
<1>10. CASE m.kind = "EOT" /\ Complete /\ UNCHANGED slips
  <2>1. PICK k \in Answering : k = "ACK"
    BY DEF Answering
  <2>2. Write(k) /\ End("complete") /\ slips \subseteq slips' /\ slips' \subseteq AllSlips
    BY <1>1, <1>10, <2>1 DEF Complete
  <2>3. Back
    BY <1>4, <1>6, <2>2, BackSaid DEF Less
  <2>4. ASSUME Straight' PROVE dev.block = Blocks + 1 /\ Len(saved) = Blocks
    <3>1. Straight /\ Taken
      BY <2>2, <2>4, ReceiveFacts, StraightBefore
    <3>2. m = Turn(dev.block)
      BY <1>7, <1>10, <3>1
    <3>3. ~(dev.block <= Blocks)
      BY <1>10, <3>2 DEF Turn, Packet
    <3>4. Len(saved) = block - 1 /\ Synced
      BY <1>1, <3>1 DEF Taken, Open
    <3> QED BY <1>1, <3>3, <3>4 DEF Synced
  <2> QED BY <1>1, <1>4, <2>2, <2>3, <2>4, ReceiveEnds
<1>11. CASE Remote /\ UNCHANGED slips
  <2>1. toDevice' = toDevice /\ End("error") /\ slips \subseteq slips' /\ slips' \subseteq AllSlips
    BY <1>1, <1>11 DEF Remote
  <2>2. Back
    BY <1>4, <2>1, BackSame DEF Less
  <2> QED BY <1>1, <1>4, <2>1, <2>2, ReceiveEnds
<1>12. ASSUME toDevice' = toDevice, UNCHANGED slips, buffered' \in BOOLEAN,
              UNCHANGED <<given, retries, block, sentBytes, saved, outcome>>,
              state' \in {state, "receiving"}, timer' \in {timer, "receive"}
       PROVE  ReceiveOK'
  <2>1. Back
    BY <1>4, <1>12, BackSame DEF Less
  <2>2. /\ retries' \in 0 .. MaxRetries
        /\ given' \in {"no", "coming", "yes"} /\ timer' \in {"none", "receive"}
        /\ state' \in {"idle", "waiting_remote", "receiving"}
    BY <1>12, ReceiveFacts DEF TypeOK
  <2>3. Path' /\ (Open' => Open)
    BY <1>1, <1>12, ReceiveFacts DEF Path, Open
  <2> QED BY <1>1, <1>4, <1>12, <2>1, <2>2, <2>3, ReceiveGoesOn
<1>13. CASE Skip /\ UNCHANGED slips
  <2>1. buffered' \in BOOLEAN
    BY <1>13, ReceiveFacts DEF Skip
  <2> QED BY <1>12, <1>13, <2>1 DEF Skip
<1>14. CASE Keep /\ UNCHANGED slips
  BY <1>12, <1>14 DEF Keep, Listen
<1>15. CASE Misread
  BY <1>1, <1>4, <1>15, MisreadKeeps
<1> QED BY <1>2, <1>8, <1>9, <1>10, <1>11, <1>13, <1>14, <1>15 DEF HearPacket

(* The device's steps.                                                     *)
LEMMA TurnFacts ==
  ASSUME TypeOK, NEW d \in 1 .. Blocks + 1
  PROVE  /\ Turn(d) \in ForElecterm /\ Turn(d).kind \in Spoken
         /\ Turn(d).kind \notin {"ACK", "NAK"}
         /\ IF d <= Blocks THEN Turn(d).kind = "packet" /\ Turn(d).number = d % Modulus
                           ELSE Turn(d).kind = "EOT"
<1>1. size \in Nat /\ dev.crc \in BOOLEAN
  BY SizeIsNat, DevFacts
<1>2. CASE d <= Blocks
  <2>1. d \in 1 .. Blocks /\ d \in Nat
    BY <1>1, <1>2, BlocksFacts
  <2>2. PICK w \in DataBlocks : w = Whole[d]
    BY <1>1, <2>1, WholeTyped
  <2>3. /\ Packet(dev.crc, d, w) \in ForElecterm /\ Packet(dev.crc, d, w).kind = "packet"
        /\ Packet(dev.crc, d, w).number = d % Modulus
    BY <1>1, <2>1, PacketTyped
  <2> QED BY <1>2, <2>2, <2>3 DEF Turn, Spoken
<1>3. CASE ~(d <= Blocks)
  BY <1>3, WordsTyped DEF Turn, Spoken
<1> QED BY <1>2, <1>3

\* nothing was said; or, in the silence that an answer left, its turn or that it gives up
SpeaksAlone ==
  \/ toElecterm' = toElecterm /\ dev'.block = dev.block
  \/ /\ Straight => ~Holds(toElecterm, Spoken) /\ ~Holds(toDevice', {"ACK", "NAK"})
     /\ \/ toElecterm' = Append(toElecterm, Turn(dev'.block))
        \/ toElecterm' = Append(toElecterm, Byte("CAN")) /\ dev'.block = dev.block

(* What it says keeps the order of its packets.                            *)
LEMMA BehindKept ==
  ASSUME ReceiveOK, SpeaksAlone, UNCHANGED <<mode, size, block>>,
         NEW d \in 1 .. Blocks + 1, d = dev'.block, dev.block <= d
  PROVE  Behind'
<1>1. /\ block \in 1 .. Blocks + 1 /\ dev.block \in 1 .. Blocks + 1 /\ Blocks \in Nat
      /\ Newest \in Nat /\ Newest <= dev.block /\ Newest <= Blocks /\ Behind
      /\ toElecterm \in Seq(ForElecterm) /\ TypeOK /\ Blocks' = Blocks
  BY ReceiveFacts, SameFile
<1>2. Newest' = IF d <= Blocks THEN d ELSE Blocks
  BY <1>1 DEF Newest
<1>3. PICK l \in Int, h \in Int, n \in Int : l = block - 1 /\ h = Newest /\ n = Newest'
  BY <1>1, <1>2
<1>4. PICK s, u : s = toElecterm /\ u = toElecterm'
  OBVIOUS
<1>5. s \in Seq(ForElecterm) /\ InOrder(s, l, h) /\ l <= d /\ h <= d /\ h <= n
  BY <1>1, <1>2, <1>3, <1>4 DEF Behind, Newest
<1>6. InOrder(u, l, n)
  <2>1. ASSUME InOrder(u, l, h) PROVE InOrder(u, l, n)
    <3>1. l <= l
      OBVIOUS
    <3> QED BY <1>5, <2>1, <3>1, OrderWidens
  <2>2. CASE toElecterm' = toElecterm
    BY <1>4, <1>5, <2>1, <2>2
  <2>3. CASE toElecterm' = Append(toElecterm, Byte("CAN"))
    <3>1. Byte("CAN").kind # "packet"
      BY DEF Byte
    <3>2. Follows(u, s)
      BY <1>4, <1>5, <2>3, <3>1, WordFollows
    <3> QED BY <1>5, <2>1, <3>2 DEF Follows
  <2>4. CASE toElecterm' = Append(toElecterm, Turn(dev'.block))
    <3>1. PICK m : m = Turn(d) /\ u = Append(s, m)
      BY <1>4, <2>4
    <3>2. CASE d <= Blocks
      <4>1. d \in Nat /\ m.number = d % Modulus
        BY <1>1, <3>1, <3>2, TurnFacts
      <4>2. InOrder(Append(s, m), l, d)
        BY <1>5, <4>1, PacketFollows
      <4> QED BY <1>2, <1>3, <3>1, <3>2, <4>2
    <3>3. CASE ~(d <= Blocks)
      <4>1. m.kind # "packet"
        BY <1>1, <3>1, <3>3, TurnFacts
      <4>2. Follows(u, s)
        BY <1>5, <3>1, <4>1, WordFollows
      <4> QED BY <1>5, <2>1, <4>2 DEF Follows
    <3> QED BY <3>2, <3>3
  <2> QED BY <2>2, <2>3, <2>4 DEF SpeaksAlone
<1> QED BY <1>1, <1>3, <1>4, <1>6 DEF Behind

LEMMA DeviceReceives ==
  ASSUME ReceiveOK, UNCHANGED <<mode, size, session, faults>>, dev' \in DeviceRecord,
         dev'.crc = dev.crc,
         toDevice' \in Seq(ForDevice), Only(toDevice', Answering),
         Fewer(toDevice', toDevice, {"ACK", "NAK"}), Fewer(toDevice', toDevice, {"ACK"}),
         SpeaksAlone,
         \/ dev'.block = dev.block
         \/ /\ dev'.block = dev.block + 1 /\ dev.block <= Blocks
            /\ Holds(toDevice, {"ACK"}) /\ (Straight => ~Holds(toDevice', {"ACK"}))
  PROVE  ReceiveOK'
<1>1. /\ TypeOK /\ Parts /\ mode = "receive" /\ mode' = mode /\ size' = size
      /\ Path /\ (Straight => OneWord /\ FromDevice /\ Taken)
      /\ UNCHANGED <<state, given, timer, retries, useCrc, block, sentBytes, buffered, saved,
                     outcome, slips>>
      /\ Blocks \in Nat /\ size \in Nat /\ dev.block \in 1 .. Blocks + 1
      /\ block \in 1 .. Blocks + 1 /\ dev'.block \in 1 .. Blocks + 1
      /\ toElecterm \in Seq(ForElecterm) /\ Only(toElecterm, Spoken)
  BY ReceiveFacts DEF session, DeviceRecord
<1>2. /\ Blocks' = Blocks /\ Whole' = Whole /\ (\A b : Turn(b)' = Turn(b))
      /\ (Straight' <=> Straight)
  <2>1. Blocks' = Blocks /\ Whole' = Whole
    BY <1>1, SameFile
  <2> QED BY <1>1, <2>1 DEF Turn, Packet, Byte, Straight
<1>3. ASSUME NEW x \in ForElecterm, x.kind \in Spoken, toElecterm' = Append(toElecterm, x)
      PROVE  /\ toElecterm' \in Seq(ForElecterm) /\ Only(toElecterm', Spoken)
             /\ ~Holds(toElecterm, Spoken) =>
                  /\ Once(toElecterm', Spoken)
                  /\ \A i \in DOMAIN toElecterm' :
                       toElecterm'[i].kind \in Spoken => toElecterm'[i] = x
  <2>1. Grown(Append(toElecterm, x), toElecterm, x, ForElecterm)
    BY <1>1, LineGrows
  <2>2. PICK u : u = toElecterm' /\ Grown(u, toElecterm, x, ForElecterm)
    BY <1>3, <2>1
  <2>3. u \in Seq(ForElecterm) /\ Only(u, Spoken)
    BY <1>1, <1>3, <2>2 DEF Grown
  <2>4. ASSUME ~Holds(toElecterm, Spoken)
        PROVE  Once(u, Spoken) /\ \A i \in DOMAIN u : u[i].kind \in Spoken => u[i] = x
    <3>1. Once(toElecterm, Spoken)
      BY <2>4 DEF Once, Holds
    <3> QED BY <2>2, <2>4, <3>1 DEF Grown, Holds
  <2> QED BY <2>2, <2>3, <2>4
<1>4. "packet" \in Spoken /\ "EOT" \in Spoken /\ "CAN" \in Spoken
  BY DEF Spoken
\* what is on electerm's line
<1>5. /\ toElecterm' \in Seq(ForElecterm) /\ Only(toElecterm', Spoken)
      /\ Straight =>
           /\ OneWord'
           /\ \A i \in DOMAIN toElecterm' : toElecterm'[i].kind \in {"packet", "EOT"} =>
                toElecterm'[i] = Turn(dev'.block)
  <2>1. CASE toElecterm' = toElecterm /\ dev'.block = dev.block
    BY <1>1, <2>1 DEF OneWord, FromDevice, Fewer
  <2>2. CASE /\ Straight => ~Holds(toElecterm, Spoken) /\ ~Holds(toDevice', {"ACK", "NAK"})
             /\ toElecterm' = Append(toElecterm, Turn(dev'.block))
    <3>1. PICK x \in ForElecterm : x = Turn(dev'.block) /\ x.kind \in Spoken
      BY <1>1, TurnFacts
    <3>2. /\ toElecterm' \in Seq(ForElecterm) /\ Only(toElecterm', Spoken)
          /\ ~Holds(toElecterm, Spoken) =>
               /\ Once(toElecterm', Spoken)
               /\ \A i \in DOMAIN toElecterm' :
                    toElecterm'[i].kind \in Spoken => toElecterm'[i] = x
      BY <1>3, <2>2, <3>1
    <3>3. Straight => OneWord'
      BY <1>1, <2>2, <3>2 DEF OneWord, Fewer
    <3> QED BY <1>4, <2>2, <3>1, <3>2, <3>3
  <2>3. CASE /\ Straight => ~Holds(toElecterm, Spoken) /\ ~Holds(toDevice', {"ACK", "NAK"})
             /\ toElecterm' = Append(toElecterm, Byte("CAN"))
    <3>1. PICK x \in ForElecterm : x = Byte("CAN") /\ x.kind = "CAN"
      BY WordsTyped
    <3>2. /\ toElecterm' \in Seq(ForElecterm) /\ Only(toElecterm', Spoken)
          /\ ~Holds(toElecterm, Spoken) =>
               /\ Once(toElecterm', Spoken)
               /\ \A i \in DOMAIN toElecterm' :
                    toElecterm'[i].kind \in Spoken => toElecterm'[i] = x
      BY <1>3, <1>4, <2>3, <3>1
    <3>3. Straight => OneWord'
      BY <1>1, <2>3, <3>2 DEF OneWord, Fewer
    <3> QED BY <1>4, <2>3, <3>1, <3>2, <3>3
  <2> QED BY <2>1, <2>2, <2>3 DEF SpeaksAlone
<1>6. TypeOK'
  BY <1>1, <1>5, DeviceTypes
<1>7. Parts'
  BY <1>1, <1>5 DEF Parts
<1>8. Straight => FromDevice'
  BY <1>2, <1>5 DEF FromDevice
<1>9. Behind'
  <2>1. PICK d \in 1 .. Blocks + 1 : d = dev'.block
    BY <1>1
  <2>2. dev.block <= d
    BY <1>1, <2>1
  <2> QED BY <1>1, <2>1, <2>2, BehindKept
<1>10. Path'
  BY <1>1 DEF Path
<1>11. ASSUME Straight PROVE Taken'
  <2>1. Taken /\ Open' = Open
    BY <1>1, <1>11 DEF Open
  <2>2. ASSUME Open PROVE Synced'
    <3>1. Synced
      BY <2>1, <2>2 DEF Taken
    <3>2. CASE dev'.block = dev.block
      BY <1>1, <1>2, <3>1, <3>2 DEF Synced, Fewer
    <3>3. CASE dev'.block = dev.block + 1 /\ dev.block <= Blocks
               /\ Holds(toDevice, {"ACK"}) /\ ~Holds(toDevice', {"ACK"})
      BY <1>1, <1>2, <3>1, <3>3 DEF Synced
    <3> QED BY <1>11, <3>2, <3>3
  <2> QED BY <1>1, <1>2, <2>1, <2>2 DEF Taken
<1> QED BY <1>1, <1>2, <1>5, <1>6, <1>7, <1>8, <1>9, <1>10, <1>11 DEF ReceiveOK, ReceiveInv

LEMMA DeviceSendsKeeps ==
  ASSUME ReceiveOK, DeviceSends
  PROVE  ReceiveOK'
<1>1. /\ UNCHANGED <<mode, size, session, toDevice, faults>>
      /\ toDevice = << >> /\ toElecterm = << >> /\ dev.state \in {"off", "on"}
      /\ TypeOK /\ toDevice \in Seq(ForDevice) /\ Only(toDevice, Answering)
      /\ dev.tries \in 0 .. MaxTries
  BY ReceiveFacts, DevFacts DEF DeviceSends, Quiet
<1>2. /\ ~Holds(toElecterm, Spoken) /\ ~Holds(toDevice', {"ACK", "NAK"})
      /\ Fewer(toDevice', toDevice, {"ACK", "NAK"}) /\ Fewer(toDevice', toDevice, {"ACK"})
  BY <1>1 DEF Holds, Fewer
<1>3. ASSUME dev' \in DeviceRecord, dev'.block = dev.block, dev'.crc = dev.crc,
             Say(Turn(dev.block)) \/ Say(Byte("CAN"))
      PROVE  ReceiveOK'
  <2>1. SpeaksAlone
    BY <1>2, <1>3 DEF SpeaksAlone, Say
  <2> QED BY <1>1, <1>2, <1>3, <2>1, DeviceReceives
<1>4. CASE dev' = [dev EXCEPT !.state = "on"] /\ Say(Turn(dev.block))
  <2>1. dev' \in DeviceRecord /\ dev'.block = dev.block /\ dev'.crc = dev.crc
    BY <1>1, <1>4, DevFacts
  <2> QED BY <1>3, <1>4, <2>1
<1>5. CASE Repeats /\ dev' = [dev EXCEPT !.tries = @ + 1] /\ Say(Turn(dev.block))
  <2>1. PICK t \in 0 .. MaxTries : t = dev.tries + 1
    BY <1>1, <1>5 DEF Repeats
  <2>2. dev' = [dev EXCEPT !.tries = t]
    BY <1>5, <2>1
  <2>3. dev' \in DeviceRecord /\ dev'.block = dev.block /\ dev'.crc = dev.crc
    BY <1>1, <2>2, DevFacts
  <2> QED BY <1>3, <1>5, <2>3
<1>6. CASE dev' = [dev EXCEPT !.state = "aborted"] /\ Say(Byte("CAN"))
  <2>1. dev' \in DeviceRecord /\ dev'.block = dev.block /\ dev'.crc = dev.crc
    BY <1>1, <1>6, DevFacts
  <2> QED BY <1>3, <1>6, <2>1
<1> QED BY <1>4, <1>5, <1>6 DEF DeviceSends

LEMMA DeviceHearsKeeps ==
  ASSUME ReceiveOK, DeviceHears
  PROVE  ReceiveOK'
<1>1. /\ UNCHANGED <<mode, size, session, faults>>
      /\ toDevice # << >> /\ toDevice' = Tail(toDevice)
      /\ TypeOK /\ toDevice \in Seq(ForDevice) /\ Only(toDevice, Answering)
      /\ (Straight => OneWord) /\ size \in Nat /\ Blocks \in Nat
      /\ dev.block \in 1 .. Blocks + 1
  BY ReceiveFacts DEF DeviceHears
<1>2. PICK m : m = Head(toDevice)
  OBVIOUS
<1>3. /\ toDevice' \in Seq(ForDevice) /\ Thins(toDevice', toDevice, {})
      /\ \A K : m.kind \in K => Holds(toDevice, K)
      /\ \A K : Once(toDevice, K) /\ m.kind \in K => ~Holds(toDevice', K)
  BY <1>1, <1>2, LineHeard
<1>4. /\ Only(toDevice', Answering)
      /\ Fewer(toDevice', toDevice, {"ACK", "NAK"}) /\ Fewer(toDevice', toDevice, {"ACK"})
  <2>1. PICK u, s : u = toDevice' /\ s = toDevice /\ Thins(u, s, {})
    BY <1>3
  <2>2. /\ \A K : ({} \cap K = {} \/ "packet" \in K) => Fewer(u, s, K)
        /\ \A K : {} \subseteq K \/ "packet" \notin K => (Only(s, K) => Only(u, K))
    BY <2>1, LineThins DEF Fewer
  <2>3. \A K : Fewer(u, s, K) /\ (Only(s, K) => Only(u, K))
    BY <2>2
  <2> QED BY <1>1, <2>1, <2>3
<1>5. ASSUME m.kind \in {"ACK", "NAK"}, Straight
      PROVE  ~Holds(toElecterm, Spoken) /\ ~Holds(toDevice', {"ACK", "NAK"})
  BY <1>1, <1>3, <1>5 DEF OneWord
<1>6. /\ dev \in DeviceRecord
      /\ \A x \in {"on", "aborted", "done"} : /\ [dev EXCEPT !.state = x] \in DeviceRecord
                                              /\ [dev EXCEPT !.state = x].block = dev.block
                                              /\ [dev EXCEPT !.state = x].crc = dev.crc
  BY <1>1, DevFacts
<1>7. ASSUME dev' \in DeviceRecord, dev'.block = dev.block, dev'.crc = dev.crc,
             UNCHANGED toElecterm
      PROVE  ReceiveOK'
  <2>1. SpeaksAlone
    BY <1>7 DEF SpeaksAlone
  <2> QED BY <1>1, <1>3, <1>4, <1>7, <2>1, DeviceReceives
<1>8. CASE /\ m.kind = "ACK" /\ dev.block <= Blocks
           /\ dev' = [dev EXCEPT !.block = @ + 1, !.tries = 0]
           /\ Say(Turn(dev.block + 1))
  <2>1. PICK b \in 1 .. Blocks + 1 : b = dev.block + 1
    BY <1>1, <1>8
  <2>2. PICK z \in 0 .. MaxTries : z = 0
    OBVIOUS
  <2>3. dev' = [dev EXCEPT !.block = b, !.tries = z]
    BY <1>8, <2>1, <2>2
  <2>4. dev' \in DeviceRecord /\ dev'.block = b /\ dev'.crc = dev.crc
    BY <1>6, <2>3 DEF DeviceRecord
  <2>5. SpeaksAlone
    BY <1>5, <1>8, <2>1, <2>4 DEF SpeaksAlone, Say
  <2>6. Holds(toDevice, {"ACK"}) /\ (Straight => ~Holds(toDevice', {"ACK"}))
    <3>1. Holds(toDevice, {"ACK"}) /\ (Straight => ~Holds(toDevice', {"ACK", "NAK"}))
      BY <1>3, <1>5, <1>8
    <3> QED BY <3>1 DEF Holds
  <2> QED BY <1>1, <1>3, <1>4, <1>8, <2>1, <2>4, <2>5, <2>6, DeviceReceives
<1>9. CASE m.kind = "NAK" /\ Say(Turn(dev.block)) /\ dev' = [dev EXCEPT !.state = "on"]
  <2>1. dev' \in DeviceRecord /\ dev'.block = dev.block /\ dev'.crc = dev.crc
    BY <1>6, <1>9
  <2>2. SpeaksAlone
    BY <1>5, <1>9, <2>1 DEF SpeaksAlone, Say
  <2> QED BY <1>1, <1>3, <1>4, <2>1, <2>2, DeviceReceives
<1>10. CASE \E x \in {"done", "aborted"} :
              dev' = [dev EXCEPT !.state = x] /\ UNCHANGED toElecterm
  BY <1>6, <1>7, <1>10
<1>11. CASE UNCHANGED <<dev, toElecterm>>
  BY <1>6, <1>7, <1>11
<1> QED BY <1>2, <1>8, <1>9, <1>10, <1>11 DEF DeviceHears

LEMMA DeviceDiesReceives ==
  ASSUME ReceiveOK, DeviceDies
  PROVE  ReceiveOK'
<1>1. /\ UNCHANGED <<mode, size, session, toDevice, toElecterm, faults>>
      /\ TypeOK /\ toDevice \in Seq(ForDevice) /\ Only(toDevice, Answering)
      /\ dev' = [dev EXCEPT !.state = "aborted"]
  BY ReceiveFacts DEF DeviceDies
<1>2. dev' \in DeviceRecord /\ dev'.block = dev.block /\ dev'.crc = dev.crc
  BY <1>1, DevFacts
<1>3. Fewer(toDevice', toDevice, {"ACK", "NAK"}) /\ Fewer(toDevice', toDevice, {"ACK"})
  BY <1>1 DEF Fewer
<1>4. SpeaksAlone
  BY <1>1, <1>2 DEF SpeaksAlone
<1> QED BY <1>1, <1>2, <1>3, <1>4, DeviceReceives

-----------------------------------------------------------------------------
(* The invariant.                                                          *)

LEMMA SendStep ==
  ASSUME SendOK, [Next]_vars
  PROVE  SendOK'
<1>1. mode = "send"
  BY SendFacts
<1>2. CASE Start
  BY <1>2, StartSends
<1>3. CASE Give
  BY <1>3, GiveSends
<1>4. CASE Cancel
  BY <1>4, CancelSends
<1>5. CASE Hear
  <2>1. ASSUME NEW k \in DOMAIN toElecterm, HearRequest(k) PROVE SendOK'
    BY <2>1, HearRequestKeeps
  <2>2. ASSUME NEW k \in DOMAIN toElecterm, HearReply(k) PROVE SendOK'
    BY <2>2, HearReplyKeeps
  <2>3. CASE HearNothing
    BY <2>3, HearNothingSends
  <2>4. ~HearPacket
    BY <1>1 DEF HearPacket
  <2> QED BY <1>5, <2>1, <2>2, <2>3, <2>4 DEF Hear
<1>6. CASE SendTimeout
  BY <1>6, SendTimeoutKeeps
<1>7. CASE ReceiveTimeout
  BY <1>7, ReceiveTimeoutSends
<1>8. CASE LineFails
  BY <1>8, LineFailsSends
<1>9. CASE DeviceAsks
  BY <1>9, DeviceAsksKeeps
<1>10. CASE DeviceTakes
  BY <1>10, DeviceTakesKeeps
<1>11. CASE DeviceDies
  BY <1>11, DeviceDiesSends
<1>12. ~DeviceSends /\ ~DeviceHears
  BY <1>1 DEF DeviceSends, DeviceHears
<1>13. CASE UNCHANGED vars
  <2>1. /\ UNCHANGED <<state, given, timer, retries, useCrc, block, sentBytes, buffered, saved,
                       outcome, slips>>
        /\ UNCHANGED <<mode, size, toDevice, toElecterm, faults, dev>>
    BY <1>13 DEF vars, session
  <2>2. /\ faults' \in 0 .. MaxFaults /\ given' \in {"no", "coming", "yes"}
        /\ retries' \in 0 .. MaxRetries /\ useCrc' \in BOOLEAN
    BY <2>1, SendFacts DEF TypeOK
  <2> QED BY <2>1, <2>2, SameLines, SendQuiet
<1> QED BY <1>2, <1>3, <1>4, <1>5, <1>6, <1>7, <1>8, <1>9, <1>10, <1>11, <1>12, <1>13 DEF Next

LEMMA ReceiveStep ==
  ASSUME ReceiveOK, [Next]_vars
  PROVE  ReceiveOK'
<1>1. mode = "receive" /\ timer # "send"
  BY ReceiveFacts
<1>2. CASE Start
  BY <1>2, StartReceives
<1>3. CASE Give
  BY <1>3, GiveReceives
<1>4. CASE Cancel
  BY <1>4, CancelReceives
<1>5. CASE Hear
  <2>1. \A k : ~HearRequest(k) /\ ~HearReply(k)
    BY <1>1 DEF HearRequest, HearReply
  <2>2. CASE HearNothing
    BY <2>2, HearNothingReceives
  <2>3. CASE HearPacket
    BY <2>3, HearPacketKeeps
  <2> QED BY <1>5, <2>1, <2>2, <2>3 DEF Hear
<1>6. ~SendTimeout
  BY <1>1 DEF SendTimeout
<1>7. CASE ReceiveTimeout
  BY <1>7, ReceiveTimeoutReceives
<1>8. CASE LineFails
  BY <1>8, LineFailsReceives
<1>9. CASE DeviceSends
  BY <1>9, DeviceSendsKeeps
<1>10. CASE DeviceHears
  BY <1>10, DeviceHearsKeeps
<1>11. CASE DeviceDies
  BY <1>11, DeviceDiesReceives
<1>12. ~DeviceAsks /\ ~DeviceTakes
  BY <1>1 DEF DeviceAsks, DeviceTakes
<1>13. CASE UNCHANGED vars
  <2>1. /\ UNCHANGED <<state, given, timer, retries, useCrc, block, sentBytes, buffered, saved,
                       outcome, slips>>
        /\ UNCHANGED <<mode, size, toDevice, toElecterm, faults, dev>>
    BY <1>13 DEF vars, session
  <2>2. Less
    BY <2>1, LessSame
  <2>3. Back
    BY <2>1, <2>2, BackSame DEF Less
  <2>4. /\ faults' \in 0 .. MaxFaults /\ retries' \in 0 .. MaxRetries
        /\ useCrc' \in BOOLEAN /\ buffered' \in BOOLEAN
        /\ given' \in {"no", "coming", "yes"} /\ timer' \in {"none", "receive"}
        /\ state' \in {"idle", "waiting_remote", "receiving"}
    BY <2>1, ReceiveFacts DEF TypeOK
  <2>5. Path' /\ (Open' => Open)
    BY <2>1, ReceiveFacts DEF Path, Open
  <2> QED BY <2>1, <2>2, <2>3, <2>4, <2>5, ReceiveGoesOn
<1> QED BY <1>2, <1>3, <1>4, <1>5, <1>6, <1>7, <1>8, <1>9, <1>10, <1>11, <1>12, <1>13 DEF Next

LEMMA InitFile ==
  ASSUME Init
  PROVE  FileInv
<1>1. /\ mode \in {"send", "receive"} /\ size \in Sizes /\ size \in Nat
      /\ state = "idle" /\ given = "no" /\ timer = "none" /\ retries = 0
      /\ useCrc = TRUE /\ block = 1 /\ sentBytes = 0 /\ buffered = FALSE /\ saved = << >> /\ outcome = "none"
      /\ toDevice = << >> /\ toElecterm = << >> /\ faults = 0
      /\ dev \in [state : {"off"}, crc : BOOLEAN, block : {1}, tries : {0}, file : {<< >>}]
      /\ slips = {}
  BY DEF Init
<1>2. Blocks \in Nat
  BY <1>1, BlocksFacts
<1>3. /\ \A K : ~Holds(<< >>, K) /\ Only(<< >>, K) /\ Once(<< >>, K)
      /\ \A low, high : InOrder(<< >>, low, high)
  <2>1. \A i \in DOMAIN << >> : FALSE
    OBVIOUS
  <2>2. [i \in DOMAIN << >> |-> 0] \in [DOMAIN << >> -> Nat]
    OBVIOUS
  <2> QED BY <2>1, <2>2 DEF Holds, Only, Once, InOrder
<1>4. TypeOK
  <2>1. /\ 1 \in 1 .. Blocks + 1 /\ 0 \in 0 .. size /\ 0 \in 0 .. MaxRetries
        /\ 0 \in 0 .. MaxFaults /\ 0 \in 0 .. MaxTries
    BY <1>1, <1>2
  <2>2. \A S : << >> \in Seq(S)
    BY EmptySeq
  <2> QED BY <1>1, <2>1, <2>2 DEF TypeOK
<1>5. Parts
  BY <1>1, <1>3 DEF Parts
<1>6. SendInv
  <2>1. Unsent /\ AtBlock /\ Queued /\ InStep /\ OneAtATime
    BY <1>1, <1>3 DEF Unsent, AtBlock, Queued, InStep, OneAtATime
  <2>2. OnTheLine
    BY <1>1, <1>3 DEF OnTheLine
  <2>3. Stored
    BY <1>1 DEF Stored
  <2> QED BY <2>1, <2>2, <2>3 DEF SendInv
<1>7. ReceiveInv
  <2>1. Path /\ Behind /\ OneWord
    BY <1>1, <1>3 DEF Path, Behind, OneWord
  <2>2. FromDevice
    BY <1>1 DEF FromDevice
  <2>3. Taken
    <3>1. Synced
      BY <1>1, <1>3 DEF Synced
    <3> QED BY <1>1, <1>2, <3>1 DEF Taken
  <2> QED BY <2>1, <2>2, <2>3 DEF ReceiveInv
<1> QED BY <1>4, <1>5, <1>6, <1>7 DEF FileInv

LEMMA ByMode == FileInv => SendOK \/ ReceiveOK
BY DEF FileInv, SendOK, ReceiveOK, TypeOK

LEMMA NextFile ==
  ASSUME FileInv, [Next]_vars
  PROVE  FileInv'
<1>1. CASE SendOK
  <2>1. SendOK'
    BY <1>1, SendStep
  <2> QED BY <2>1 DEF FileInv, SendOK
<1>2. CASE ReceiveOK
  <2>1. ReceiveOK'
    BY <1>2, ReceiveStep
  <2> QED BY <2>1 DEF FileInv, ReceiveOK
<1> QED BY <1>1, <1>2, ByMode

LEMMA FileKept == Spec => []FileInv
<1>1. Init => FileInv
  BY InitFile
<1>2. FileInv /\ [Next]_vars => FileInv'
  BY NextFile
<1> QED BY <1>1, <1>2, PTL DEF Spec

-----------------------------------------------------------------------------
(* Every state of every session is well typed: block numbers stay within   *)
(* the file, retries and repetitions within their limits, and a line holds *)
(* only what the two sides say on it.                                      *)
THEOREM TypeCorrect == Spec => []TypeOK
<1>1. FileInv => TypeOK
  BY DEF FileInv
<1> QED BY <1>1, FileKept, PTL

(* sendNextPacket() and its answers: what a device stores is electerm's    *)
(* file from its beginning, block by block, for files of every size and    *)
(* any loss, damage, repetition and timeout; and it is whole when the      *)
(* device is told the end.  Only the last block is excepted, when a packet *)
(* that is not full was sent again, and the end that a timeout announces;  *)
(* and this holds as long as no second request was taken for a refusal     *)
(* (xmodem.js:664-677), after which a device may be told the end too soon. *)
THEOREM DeviceStoresTheFile == Spec => []("doubled" \notin slips => DeviceHasTheFile)
<1>1. ASSUME FileInv, "doubled" \notin slips PROVE DeviceHasTheFile
  <2> SUFFICES ASSUME mode = "send" PROVE DeviceHasTheFile
    BY DEF DeviceHasTheFile
  <2>1. Stored /\ TypeOK
    BY <1>1 DEF FileInv, SendInv, Clear
  <2>2. DOMAIN Whole = 1 .. Blocks /\ Len(Whole) = Blocks
    BY <2>1, SizeIsNat, WholeTyped
  <2>3. \A b \in DOMAIN dev.file :
          dev.file[b] = Whole[b] \/ (b = Blocks /\ "rewound" \in slips)
    BY <2>1, <2>2 DEF Stored, Good
  <2>4. dev.state = "done" => Len(dev.file) = Blocks \/ "early" \in slips
    BY <2>1 DEF Stored
  <2> QED BY <2>3, <2>4 DEF DeviceHasTheFile
<1> QED BY <1>1, FileKept, PTL

(* processReceivedPacket() and handleReceiveComplete(): what electerm saves *)
(* is the device's file from its beginning, for files of every size and any *)
(* loss, damage, repetition and timeout, and it is whole when the client is *)
(* told so; unless a block came before the path was known, or data was     *)
(* read for the end.                                                       *)
THEOREM SavedMatchesTheFile == Spec => []SavedIsTheFile
<1>1. ASSUME FileInv PROVE SavedIsTheFile
  <2> SUFFICES ASSUME mode = "receive", Straight
               PROVE  /\ IsPrefix(saved, Whole)
                      /\ outcome = "complete" => saved = Whole
    BY DEF SavedIsTheFile, Straight
  <2>1. Taken /\ TypeOK
    BY <1>1 DEF FileInv, ReceiveInv
  <2>2. size \in Nat /\ Blocks \in Nat
    BY <2>1, SizeIsNat
  <2>3. PICK s \in Seq(DataBlocks), w \in Seq(DataBlocks) :
          s = saved /\ w = Whole /\ Len(w) = Blocks
    BY <2>1, <2>2, WholeTyped DEF TypeOK
  <2>4. Len(s) \in Nat /\ Len(s) <= Len(w) /\ DOMAIN s = 1 .. Len(s) /\ DOMAIN w = 1 .. Len(w)
    BY <2>1, <2>3, LenProperties DEF Taken
  <2>5. \A i \in DOMAIN s : s[i] = w[i]
    BY <2>1, <2>3 DEF Taken
  <2>6. IsPrefix(s, w)
    <3>1. PICK o \in Int, n \in Nat : o = 1 /\ n = Len(s)
      <4>1. \E n \in Nat : n = Len(s)
        BY <2>4
      <4> QED BY <4>1
    <3>2. (\A i \in o .. n : s[i] \in DataBlocks) /\ (\A i \in o .. n : w[i] \in DataBlocks)
      <4>1. \A i \in o .. n : i \in DOMAIN s /\ i \in DOMAIN w
        BY <2>4, <3>1
      <4>2. (\A i \in DOMAIN s : s[i] \in DataBlocks) /\ (\A i \in DOMAIN w : w[i] \in DataBlocks)
        BY <2>3, <2>4, ElementOfSeq
      <4> QED BY <4>1, <4>2
    <3> DEFINE a == SubSeq(s, o, n)
               b == SubSeq(w, o, n)
    <3>3. /\ a \in Seq(DataBlocks) /\ Len(a) = (IF o <= n THEN n - o + 1 ELSE 0)
          /\ \A i \in 1 .. n - o + 1 : a[i] = s[o + i - 1]
      BY <3>1, <3>2, SubSeqProperties
    <3>4. /\ b \in Seq(DataBlocks) /\ Len(b) = (IF o <= n THEN n - o + 1 ELSE 0)
          /\ \A i \in 1 .. n - o + 1 : b[i] = w[o + i - 1]
      BY <3>1, <3>2, SubSeqProperties
    <3> HIDE DEF a, b
    <3>5. Len(a) = Len(b) /\ Len(a) = n
      BY <2>4, <3>1, <3>3, <3>4
    <3>6. \A i \in 1 .. Len(a) : a[i] = b[i]
      <4>1. SUFFICES ASSUME NEW i \in 1 .. n PROVE a[i] = b[i]
        BY <3>5
      <4>2. i \in 1 .. n - o + 1 /\ o + i - 1 = i /\ i \in DOMAIN s
        BY <2>4, <3>1
      <4> QED BY <2>5, <3>3, <3>4, <4>2
    <3>7. a = b
      BY <3>3, <3>4, <3>5, <3>6, SeqEqual
    <3> QED BY <2>4, <3>1, <3>7 DEF IsPrefix, a, b
  <2>7. Len(s) = Len(w) => s = w
    BY <2>4, <2>5, SeqEqual
  <2>8. outcome = "complete" => saved = Whole
    BY <2>1, <2>3, <2>7 DEF Taken
  <2> QED BY <2>3, <2>6, <2>8
<1> QED BY <1>1, FileKept, PTL

=============================================================================
