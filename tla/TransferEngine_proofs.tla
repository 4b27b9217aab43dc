----------------------- MODULE TransferEngine_proofs -----------------------
(***************************************************************************)
(* Proofs about TransferEngine: for every size of the source, size of a    *)
(* chunk and number of concurrent requests, the requests keep apart in the *)
(* buffer and in the file, each write takes the data of its own read, and  *)
(* every step is one that FileCopy allows: what the client is told is      *)
(* true, and it is told once.                                              *)
(***************************************************************************)
EXTENDS TransferEngine, FiniteSetTheorems, SequenceTheorems, TLAPS

(* Where a request may put its data: one of Width places in the buffer.    *)
Slots == {i * ChunkSize : i \in 0 .. Width - 1}

(* Each request has a place in the buffer of its own, and a piece of the   *)
(* part of the file that was handed out.                                   *)
Geometry ==
  /\ \A a \in ops :
       /\ a.slot \in Slots /\ a.len <= ChunkSize /\ a.slot + a.len <= BufSize
       /\ a.pos + a.len <= pdst
       /\ a.n <= a.len
  /\ \A a, b \in ops : a # b =>
       /\ a.slot # b.slot
       /\ a.pos + a.len <= b.pos \/ b.pos + b.len <= a.pos

-----------------------------------------------------------------------------
(* The arithmetic of the buffer.                                           *)

LEMMA Multiples ==
  ASSUME NEW i \in Nat, NEW j \in Nat, NEW c \in Nat, i < j
  PROVE  i * c + c <= j * c
<1> DEFINE k == j - i - 1
<1>1. k \in Nat /\ j = i + 1 + k
  OBVIOUS
<1>2. k * c >= 0
  BY <1>1
<1>3. (i + 1 + k) * c = i * c + c + k * c
  BY <1>1
<1> QED BY <1>1, <1>2, <1>3

(* The buffer is no longer than the file, its places do not overlap, and a *)
(* chunk fits into each.                                                   *)
LEMMA SlotFacts ==
  ASSUME fsize \in Nat
  PROVE  /\ Width \in Nat \ {0} /\ BufSize \in 0 .. fsize
         /\ fsize < ChunkSize => BufSize = fsize
         /\ \A s \in Slots :
              /\ s \in Nat
              /\ fsize < ChunkSize => s = 0
              /\ fsize >= ChunkSize => s + ChunkSize <= BufSize
         /\ \A s, t \in Slots : s < t => s + ChunkSize <= t
<1>1. ChunkSize \in Nat \ {0} /\ Concurrency \in Nat \ {0}
  BY SizesAssumption
<1>2. CASE fsize < ChunkSize
  <2>1. Width = 1 /\ BufSize = fsize
    BY <1>2 DEF Width, BufSize
  <2>2. \A s \in Slots : s = 0
    BY <1>1, <2>1 DEF Slots
  <2> QED BY <1>1, <1>2, <2>1, <2>2
<1>3. CASE fsize >= ChunkSize
  <2>1. Width \in Nat \ {0} /\ Width * ChunkSize <= fsize
    <3>1. CASE fsize < ChunkSize * Concurrency
      <4> DEFINE q == fsize \div ChunkSize
      <4>1. Width = q
        BY <1>3, <1>1, <3>1 DEF Width
      <4>2. q \in Nat /\ ChunkSize * q <= fsize /\ fsize < ChunkSize * (q + 1)
        BY <1>1, <1>3
      <4>3. q # 0
        BY <1>1, <1>3, <4>2
      <4> QED BY <1>1, <4>1, <4>2, <4>3
    <3>2. CASE ~(fsize < ChunkSize * Concurrency)
      BY <1>1, <1>3, <3>2 DEF Width
    <3> QED BY <3>1, <3>2
  <2>2. BufSize = Width * ChunkSize /\ BufSize \in 0 .. fsize
    BY <1>1, <1>3, <2>1 DEF BufSize
  <2>3. ASSUME NEW s \in Slots PROVE s \in Nat /\ s + ChunkSize <= BufSize
    <3>1. PICK i \in 0 .. Width - 1 : s = i * ChunkSize
      BY DEF Slots
    <3> QED BY <1>1, <2>1, <2>2, <3>1, Multiples
  <2>4. ASSUME NEW s \in Slots, NEW t \in Slots, s < t PROVE s + ChunkSize <= t
    <3>1. PICK i \in 0 .. Width - 1 : s = i * ChunkSize
      BY DEF Slots
    <3>2. PICK j \in 0 .. Width - 1 : t = j * ChunkSize
      BY DEF Slots
    <3>3. i < j
      <4>1. SUFFICES ASSUME j <= i PROVE FALSE
        BY <2>1, <3>1, <3>2
      <4>2. i = j \/ j * ChunkSize + ChunkSize <= i * ChunkSize
        BY <1>1, <2>1, <4>1, Multiples
      <4> QED BY <1>1, <2>1, <2>4, <3>1, <3>2, <4>2
    <3> QED BY <1>1, <2>1, <3>1, <3>2, <3>3, Multiples
  <2> QED BY <1>1, <1>3, <2>1, <2>2, <2>3, <2>4
<1> QED BY <1>1, <1>2, <1>3

(* A chunk ends at the end of the file at the latest.                      *)
LEMMA ChunkFacts ==
  ASSUME fsize \in Nat, NEW pos \in 0 .. fsize
  PROVE  Chunk(pos) \in 0 .. ChunkSize /\ pos + Chunk(pos) <= fsize
  BY SizesAssumption DEF Chunk

-----------------------------------------------------------------------------
(* What one step does to the requests and to the data.                     *)

(* A request as singleRead makes it.                                       *)
Fresh(slot, pos, len) ==
  [kind : {"read", "paused"}, slot : {slot}, pos : {pos}, len : {len}, n : {0}]

LEMMA IssueIsFresh ==
  ASSUME NEW slot, NEW pos, NEW len
  PROVE  Issue(slot, pos, len) \subseteq Fresh(slot, pos, len)
  BY DEF Issue, Fresh

Rests == ops' \subseteq ops /\ UNCHANGED <<optionVars, pdst, total, buf, out>>

Starts ==
  /\ ops' = FirstRequests /\ pdst' = BufSize
  /\ UNCHANGED <<optionVars, total, buf, out>>
  /\ stage \in {"dstOpen", "fchmod"}

Fills(op) ==
  /\ op.kind = "read"
  /\ \E k \in 1 .. op.len :
       /\ buf' = [i \in DOMAIN buf |->
                    IF i \in op.slot .. op.slot + k - 1 THEN op.pos + i - op.slot ELSE buf[i]]
       /\ WriteBegins(op, k)
  /\ UNCHANGED <<optionVars, pdst, total, out>>

Writes(op) ==
  /\ op.kind = "write"
  /\ out' = [i \in DOMAIN out |->
               IF i \in op.pos .. op.pos + op.n - 1 THEN buf[op.slot + i - op.pos] ELSE out[i]]
  /\ total' = total + op.n
  /\ \/ op.n < op.len /\ Continue(op) /\ pdst' = pdst
     \/ ops' = ops \ {op} /\ pdst' = pdst
     \/ pdst < fsize /\ Refill(op)
  /\ UNCHANGED <<optionVars, buf>>

Retries(op) ==
  /\ ops' = (ops \ {op}) \cup Issue(op.slot, op.pos, op.len)
  /\ UNCHANGED <<optionVars, pdst, total, buf, out>>

LEMMA StepShapes ==
  ASSUME [Next]_vars
  PROVE  \/ Rests \/ Starts
         \/ \E op \in ops : Fills(op) \/ Writes(op) \/ Retries(op)
<1>1. CASE SrcOpened
  BY <1>1 DEF SrcOpened, copyVars, Rests
<1>2. CASE Statted
  BY <1>2 DEF Statted, Throw, copyVars, Rests
<1>3. CASE DstOpened
  BY <1>3 DEF DstOpened, StartReads, copyVars, Rests, Starts
<1>4. CASE ModeSet
  BY <1>4 DEF ModeSet, StartReads, Starts
<1>5. CASE TimesSet
  BY <1>5 DEF TimesSet, copyVars, Rests
<1>6. ASSUME NEW s \in Sides, Closed(s) PROVE Rests
  BY <1>6 DEF Closed, copyVars, Rests
<1>7. ASSUME NEW op \in ops, ReadDone(op) PROVE Rests \/ Fills(op)
  BY <1>7 DEF ReadDone, Rests, Fills
<1>8. ASSUME NEW op \in ops, WriteDone(op) PROVE Rests \/ Writes(op)
  BY <1>8 DEF WriteDone, Rests, Writes
<1>9. ASSUME NEW op \in ops, PauseTimer(op) PROVE Retries(op)
  BY <1>9 DEF PauseTimer, Retries
<1>10. CASE Pause \/ Resume \/ Destroy \/ Kill \/ ChannelCloses
  BY <1>10 DEF Pause, Resume, Destroy, Kill, ChannelCloses, copyVars, Rests
<1>11. CASE UNCHANGED vars
  BY <1>11 DEF vars, copyVars, Rests
<1> QED
  BY <1>1, <1>2, <1>3, <1>4, <1>5, <1>6, <1>7, <1>8, <1>9, <1>10, <1>11 DEF Next, Callback

-----------------------------------------------------------------------------
(* The requests keep apart.                                                *)

DataOK ==
  /\ fsize \in Nat /\ fsize \in FileSizes
  /\ ops \subseteq Request
  /\ pdst \in 0 .. fsize
  /\ total \in Nat
  /\ buf \in [0 .. BufSize - 1 -> Int \cup {None}]
  /\ out \in [0 .. fsize - 1 -> Int \cup {None}]

(* A request may be replaced by one for the same place in the buffer and   *)
(* for a part of its own piece of the file or for the next piece.          *)
LEMMA ReplaceKeeps ==
  ASSUME DataOK, Geometry, NEW op \in ops, NEW r \in Request,
         ops' \subseteq (ops \ {op}) \cup {r},
         fsize' = fsize, pdst' \in Nat, pdst <= pdst',
         r.slot = op.slot, r.len <= ChunkSize, r.slot + r.len <= BufSize, r.n <= r.len,
         r.pos + r.len <= pdst',
         \/ op.pos <= r.pos /\ r.pos + r.len <= op.pos + op.len
         \/ pdst <= r.pos
  PROVE  Geometry'
<1>1. BufSize' = BufSize /\ Slots' = Slots
  BY DEF BufSize, Width, Slots
<1>2. ChunkSize \in Nat /\ BufSize \in Nat
  BY SizesAssumption, SlotFacts DEF DataOK
<1>3. ASSUME NEW a \in ops'
      PROVE  /\ a.slot \in Slots /\ a.len <= ChunkSize /\ a.slot + a.len <= BufSize
             /\ a.pos + a.len <= pdst'
             /\ a.n <= a.len
  <2>1. CASE a \in ops
    <3>1. a \in Request /\ pdst \in Nat /\ a.pos + a.len <= pdst
      BY <2>1 DEF Geometry, DataOK
    <3>2. a.pos + a.len \in Nat
      BY <3>1 DEF Request
    <3> QED BY <2>1, <3>1, <3>2 DEF Geometry
  <2>2. CASE a = r
    BY <2>2 DEF Geometry
  <2> QED BY <1>3, <2>1, <2>2
<1>4. ASSUME NEW a \in ops \ {op}
      PROVE  a.slot # r.slot /\ (a.pos + a.len <= r.pos \/ r.pos + r.len <= a.pos)
  <2>1. /\ a \in Request /\ op \in Request /\ pdst \in Nat
        /\ a.slot # op.slot /\ a.pos + a.len <= pdst
        /\ a.pos + a.len <= op.pos \/ op.pos + op.len <= a.pos
    BY <1>4 DEF Geometry, DataOK
  <2>2. /\ {a.pos, a.len, op.pos, op.len, r.pos, r.len} \subseteq Nat
    BY <2>1 DEF Request
  <2>3. CASE pdst <= r.pos
    BY <2>1, <2>2, <2>3
  <2>4. CASE op.pos <= r.pos /\ r.pos + r.len <= op.pos + op.len
    BY <2>1, <2>2, <2>4
  <2> QED BY <2>3, <2>4
<1>5. ASSUME NEW a \in ops', NEW b \in ops', a # b
      PROVE  a.slot # b.slot /\ (a.pos + a.len <= b.pos \/ b.pos + b.len <= a.pos)
  <2>1. CASE a \in ops \ {op} /\ b \in ops \ {op}
    BY <1>5, <2>1 DEF Geometry
  <2>2. CASE a \in ops \ {op} /\ b = r
    BY <1>4, <2>2
  <2>3. CASE b \in ops \ {op} /\ a = r
    BY <1>4, <2>3
  <2> QED BY <1>5, <2>1, <2>2, <2>3
<1> QED BY <1>1, <1>3, <1>5 DEF Geometry

-----------------------------------------------------------------------------
(* The data: a unit of the destination is missing or the right one, it is  *)
(* missing where a request is under way and where none has been yet, and   *)
(* total counts the others.                                                *)

Placement ==
  /\ \A i \in DOMAIN out : out[i] \in {None, i}
  /\ \A i \in DOMAIN out : pdst <= i => out[i] = None
  /\ \A op \in ops : \A i \in DOMAIN out : i \in FileRange(op) => out[i] = None
  /\ total = Cardinality(Placed)

DataInv == DataOK /\ Geometry /\ WritesOwnData /\ Placement

EarlyStages == {"srcOpen", "fstat", "stat", "dstOpen", "fchmod"}

(* Nothing is handed out before the copy starts.                           *)
Untouched == stage \in EarlyStages => pdst = 0 /\ ops = {}

LEMMA SameFile ==
  ASSUME fsize' = fsize
  PROVE  BufSize' = BufSize /\ Slots' = Slots
  BY DEF BufSize, Width, Slots

LEMMA RestsKeeps == DataInv /\ Rests => DataInv'
<1> SUFFICES ASSUME DataInv, Rests PROVE DataInv'
  OBVIOUS
<1>1. UNCHANGED <<fsize, pdst, total, buf, out>> /\ ops' \subseteq ops
  BY DEF Rests, optionVars
<1>2. BufSize' = BufSize /\ Slots' = Slots
  BY <1>1, SameFile
<1>3. DataOK'
  BY <1>1, <1>2 DEF DataInv, DataOK
<1>4. Geometry'
  BY <1>1, <1>2 DEF DataInv, Geometry
<1>5. WritesOwnData'
  BY <1>1 DEF DataInv, WritesOwnData
<1>6. Placement'
  BY <1>1 DEF DataInv, Placement, Placed, FileRange
<1> QED BY <1>3, <1>4, <1>5, <1>6 DEF DataInv

LEMMA FreshRequests ==
  ASSUME NEW slot \in Nat, NEW pos \in Nat, NEW len \in Nat, NEW r \in Fresh(slot, pos, len)
  PROVE  /\ r \in Request /\ r.kind # "write"
         /\ r.slot = slot /\ r.pos = pos /\ r.len = len /\ r.n = 0
  BY DEF Fresh, Request

(* The first requests, one for each place of the buffer.                   *)
LEMMA StartsKeeps == DataInv /\ Untouched /\ Starts => DataInv'
<1> SUFFICES ASSUME DataInv, Untouched, Starts PROVE DataInv'
  OBVIOUS
<1>1. /\ UNCHANGED <<fsize, total, buf, out>>
      /\ ops' = FirstRequests /\ pdst' = BufSize /\ pdst = 0
  BY DEF Starts, optionVars, Untouched, EarlyStages
<1>2. BufSize' = BufSize /\ Slots' = Slots
  BY <1>1, SameFile
<1>3. /\ fsize \in Nat /\ BufSize \in 0 .. fsize /\ Width \in Nat \ {0}
      /\ ChunkSize \in Nat \ {0}
  BY SlotFacts, SizesAssumption DEF DataInv, DataOK
<1>4. ASSUME NEW r \in ops'
      PROVE  /\ r \in Request /\ r.kind # "write" /\ r.n = 0
             /\ r.slot \in Slots /\ r.pos = r.slot /\ r.len = Chunk(r.slot)
             /\ r.slot \in 0 .. fsize
  <2>1. PICK i \in 0 .. Width - 1 : r \in Issue(i * ChunkSize, i * ChunkSize, Chunk(i * ChunkSize))
    BY <1>1 DEF FirstRequests
  <2> DEFINE s == i * ChunkSize
  <2>2. s \in Slots
    BY DEF Slots
  <2>3. s \in Nat /\ s \in 0 .. fsize
    BY <1>3, <2>2, SlotFacts
  <2>4. Chunk(s) \in Nat
    BY <1>3, <2>3, ChunkFacts
  <2>5. r \in Fresh(s, s, Chunk(s))
    BY <2>1, IssueIsFresh
  <2> QED BY <2>2, <2>3, <2>4, <2>5, FreshRequests
<1>5. ASSUME NEW r \in ops'
      PROVE  r.len \in 0 .. ChunkSize /\ r.slot + r.len <= BufSize
  <2>1. r.len = Chunk(r.slot) /\ r.slot \in Slots /\ r.slot \in 0 .. fsize
    BY <1>4
  <2>2. r.len \in 0 .. ChunkSize /\ r.slot + r.len <= fsize
    BY <1>3, <2>1, ChunkFacts
  <2>3. CASE fsize < ChunkSize
    BY <1>3, <2>1, <2>2, <2>3 DEF BufSize
  <2>4. CASE fsize >= ChunkSize
    <3>1. r.slot + ChunkSize <= BufSize
      BY <1>3, <2>1, <2>4, SlotFacts
    <3> QED BY <1>3, <2>1, <2>2, <3>1
  <2> QED BY <1>3, <2>3, <2>4
<1>6. ASSUME NEW a \in ops', NEW b \in ops', a # b
      PROVE  a.slot # b.slot /\ (a.pos + a.len <= b.pos \/ b.pos + b.len <= a.pos)
  <2>1. a \in Request /\ b \in Request
    BY <1>4
  <2>2. a.slot # b.slot
    <3>1. SUFFICES ASSUME a.slot = b.slot PROVE a.kind = b.kind /\ a.pos = b.pos /\ a.len = b.len /\ a.n = b.n
      BY <1>6, <2>1, <3>1 DEF Request
    <3>2. a.kind = IF pausing THEN "paused" ELSE "read"
      BY <1>1 DEF FirstRequests, Issue
    <3>3. b.kind = IF pausing THEN "paused" ELSE "read"
      BY <1>1 DEF FirstRequests, Issue
    <3> QED BY <1>4, <3>1, <3>2, <3>3
  <2>3. a.slot \in Slots /\ b.slot \in Slots /\ a.slot \in Nat /\ b.slot \in Nat
    BY <1>3, <1>4, SlotFacts
  <2>4. a.slot + ChunkSize <= b.slot \/ b.slot + ChunkSize <= a.slot
    BY <1>3, <2>2, <2>3, SlotFacts
  <2>5. a.len \in 0 .. ChunkSize /\ b.len \in 0 .. ChunkSize /\ a.pos = a.slot /\ b.pos = b.slot
    BY <1>4, <1>5
  <2> QED BY <1>3, <2>2, <2>3, <2>4, <2>5
<1>7. DataOK'
  <2>1. ops' \subseteq Request /\ pdst' \in 0 .. fsize
    BY <1>1, <1>3, <1>4
  <2> QED BY <1>1, <1>2, <2>1 DEF DataInv, DataOK
<1>8. Geometry'
  <2>1. ASSUME NEW r \in ops'
        PROVE  /\ r.slot \in Slots /\ r.len <= ChunkSize /\ r.slot + r.len <= BufSize
               /\ r.pos + r.len <= pdst'
               /\ r.n <= r.len
    BY <1>1, <1>3, <1>4, <1>5
  <2> QED BY <1>2, <1>6, <2>1 DEF Geometry
<1>9. WritesOwnData'
  BY <1>4 DEF WritesOwnData
<1>10. Placement'
  <2>1. \A i \in DOMAIN out : out[i] = None
    BY <1>1 DEF DataInv, DataOK, Placement
  <2> QED BY <1>1, <2>1 DEF DataInv, Placement, Placed
<1> QED BY <1>7, <1>8, <1>9, <1>10 DEF DataInv

(* Two requests do not reach into each other's place in the buffer.        *)
LEMMA BufferApart ==
  ASSUME DataOK, Geometry, NEW a \in ops, NEW b \in ops, a # b
  PROVE  a.slot + ChunkSize <= b.slot \/ b.slot + ChunkSize <= a.slot
<1>1. a.slot \in Slots /\ b.slot \in Slots /\ a.slot # b.slot
  BY DEF Geometry
<1>2. a.slot \in Nat /\ b.slot \in Nat
  BY DEF DataOK, Request
<1> QED BY <1>1, <1>2, SlotFacts DEF DataOK

LEMMA RequestNumbers ==
  ASSUME DataOK, NEW op \in ops
  PROVE  op \in Request /\ {op.slot, op.pos, op.len, op.n} \subseteq Nat
  BY DEF DataOK, Request

LEMMA AsWrite ==
  ASSUME NEW op \in Request, NEW k \in Nat
  PROVE  LET r == [op EXCEPT !.kind = "write", !.n = k]
         IN  /\ r \in Request /\ r.kind = "write" /\ r.n = k
             /\ r.slot = op.slot /\ r.pos = op.pos /\ r.len = op.len
<1> DEFINE r == [op EXCEPT !.kind = "write", !.n = k]
<1>1. r \in Request
  BY DEF Request
<1>2. r.kind = "write" /\ r.n = k
  BY DEF Request
<1>3. r.slot = op.slot /\ r.pos = op.pos /\ r.len = op.len
  BY DEF Request
<1> QED BY <1>1, <1>2, <1>3

LEMMA FillsKeeps ==
  ASSUME DataInv, NEW op \in ops, Fills(op)
  PROVE  DataInv'
<1>1. PICK k \in 1 .. op.len :
        /\ buf' = [i \in DOMAIN buf |->
                     IF i \in op.slot .. op.slot + k - 1 THEN op.pos + i - op.slot ELSE buf[i]]
        /\ WriteBegins(op, k)
  BY DEF Fills
<1>2. UNCHANGED <<fsize, pdst, total, out>> /\ op.kind = "read"
  BY DEF Fills, optionVars
<1>3. BufSize' = BufSize /\ Slots' = Slots
  BY <1>2, SameFile
<1> DEFINE r == [op EXCEPT !.kind = "write", !.n = k]
<1>4. DataOK /\ Geometry /\ WritesOwnData /\ Placement
  BY DEF DataInv
<1>5. op \in Request /\ {op.slot, op.pos, op.len, op.n} \subseteq Nat
  BY <1>4, RequestNumbers
<1>6. /\ r \in Request /\ r.kind = "write" /\ r.n = k
      /\ r.slot = op.slot /\ r.pos = op.pos /\ r.len = op.len
  <2>1. k \in Nat
    BY <1>5
  <2> QED BY <1>5, <2>1, AsWrite
<1>7. ops' = (ops \ {op}) \cup {r}
  BY <1>1 DEF WriteBegins
<1>8. /\ op.slot \in Slots /\ op.len <= ChunkSize /\ op.slot + op.len <= BufSize
      /\ op.pos + op.len <= pdst
  BY <1>4 DEF Geometry
<1>9. ChunkSize \in Nat /\ BufSize \in Nat /\ pdst \in Nat
  BY <1>4, SizesAssumption, SlotFacts DEF DataOK
<1> HIDE DEF r
<1>10. Geometry'
  <2>1. k \in Nat /\ k <= op.len
    BY <1>5
  <2> QED BY <1>2, <1>4, <1>5, <1>6, <1>7, <1>8, <1>9, <2>1, ReplaceKeeps
<1>11. DataOK'
  <2>1. ops' \subseteq Request
    BY <1>4, <1>6, <1>7 DEF DataOK
  <2>2. buf' \in [0 .. BufSize - 1 -> Int \cup {None}]
    BY <1>1, <1>4, <1>5, <1>9 DEF DataOK
  <2> QED BY <1>2, <1>3, <1>4, <2>1, <2>2 DEF DataOK
<1>12. WritesOwnData'
  <2>1. \A i \in 0 .. k - 1 : buf'[op.slot + i] = op.pos + i
    <3>1. SUFFICES ASSUME NEW i \in 0 .. k - 1 PROVE buf'[op.slot + i] = op.pos + i
      OBVIOUS
    <3>2. op.slot + i \in 0 .. BufSize - 1 /\ op.slot + i \in op.slot .. op.slot + k - 1
      BY <1>5, <1>8, <1>9
    <3>3. op.slot + i \in DOMAIN buf
      BY <1>4, <3>2 DEF DataOK
    <3>4. buf'[op.slot + i] = op.pos + (op.slot + i) - op.slot
      BY <1>1, <3>2, <3>3
    <3> QED BY <1>5, <3>4
  <2>2. ASSUME NEW b \in ops \ {op}, b.kind = "write", NEW i \in 0 .. b.n - 1
        PROVE  buf'[b.slot + i] = b.pos + i
    <3>1. /\ {b.slot, b.pos, b.len, b.n} \subseteq Nat
          /\ b.n <= b.len /\ b.len <= ChunkSize /\ b.slot + b.len <= BufSize
      BY <1>4, RequestNumbers DEF Geometry
    <3>2. b.slot + ChunkSize <= op.slot \/ op.slot + ChunkSize <= b.slot
      BY <1>4, BufferApart
    <3>3. b.slot + i \in 0 .. BufSize - 1 /\ b.slot + i \notin op.slot .. op.slot + k - 1
      BY <1>5, <1>8, <1>9, <3>1, <3>2
    <3>4. buf'[b.slot + i] = buf[b.slot + i]
      BY <1>1, <1>4, <3>3 DEF DataOK
    <3> QED BY <1>4, <2>2, <3>4 DEF WritesOwnData
  <2>3. ASSUME NEW b \in ops', b.kind = "write"
        PROVE  \A i \in 0 .. b.n - 1 : buf'[b.slot + i] = b.pos + i
    <3>1. CASE b = r
      BY <1>6, <2>1, <3>1
    <3>2. CASE b \in ops \ {op}
      BY <2>2, <2>3, <3>2
    <3> QED BY <1>7, <3>1, <3>2
  <2> QED BY <2>3 DEF WritesOwnData
<1>13. Placement'
  BY <1>2, <1>4, <1>6, <1>7 DEF Placement, Placed, FileRange
<1> QED BY <1>10, <1>11, <1>12, <1>13 DEF DataInv

LEMMA RetriesKeeps ==
  ASSUME DataInv, NEW op \in ops, Retries(op)
  PROVE  DataInv'
<1>1. UNCHANGED <<fsize, pdst, total, buf, out>>
  BY DEF Retries, optionVars
<1>2. BufSize' = BufSize /\ Slots' = Slots
  BY <1>1, SameFile
<1>3. DataOK /\ Geometry /\ WritesOwnData /\ Placement
  BY DEF DataInv
<1>4. op \in Request /\ {op.slot, op.pos, op.len, op.n} \subseteq Nat
  BY <1>3, RequestNumbers
<1>5. CASE Issue(op.slot, op.pos, op.len) = {}
  <2>1. Rests
    BY <1>5 DEF Retries, Rests
  <2> QED BY <2>1, RestsKeeps
<1>6. CASE Issue(op.slot, op.pos, op.len) # {}
  <2>1. PICK r : ops' = (ops \ {op}) \cup {r} /\ r \in Fresh(op.slot, op.pos, op.len)
    <3>1. PICK r : Issue(op.slot, op.pos, op.len) = {r}
      BY <1>6 DEF Issue
    <3>2. r \in Fresh(op.slot, op.pos, op.len)
      BY <3>1, IssueIsFresh
    <3> QED BY <3>1, <3>2 DEF Retries
  <2>2. /\ r \in Request /\ r.kind # "write"
        /\ r.slot = op.slot /\ r.pos = op.pos /\ r.len = op.len /\ r.n = 0
    BY <1>4, <2>1, FreshRequests
  <2>3. /\ op.len <= ChunkSize /\ op.slot + op.len <= BufSize /\ op.pos + op.len <= pdst
        /\ pdst \in Nat
    BY <1>3 DEF Geometry, DataOK
  <2>4. Geometry'
    BY <1>1, <1>3, <1>4, <2>1, <2>2, <2>3, ReplaceKeeps
  <2>5. DataOK'
    BY <1>1, <1>2, <1>3, <2>1, <2>2 DEF DataOK
  <2>6. WritesOwnData'
    BY <1>1, <1>3, <2>1, <2>2 DEF WritesOwnData
  <2>7. Placement'
    BY <1>1, <1>3, <2>1, <2>2 DEF Placement, Placed, FileRange
  <2> QED BY <2>4, <2>5, <2>6, <2>7 DEF DataInv
<1> QED BY <1>5, <1>6

(* A write puts the units of its chunk that were read into their places,   *)
(* which were empty, and no other.                                         *)
LEMMA WritesPlace ==
  ASSUME DataInv, NEW op \in ops, Writes(op)
  PROVE  /\ DOMAIN out' = DOMAIN out
         /\ out' \in [0 .. fsize - 1 -> Int \cup {None}]
         /\ \A i \in DOMAIN out : out'[i] = IF i \in op.pos .. op.pos + op.n - 1 THEN i ELSE out[i]
         /\ op.pos .. op.pos + op.n - 1 \subseteq DOMAIN out
         /\ Placed' = Placed \cup (op.pos .. op.pos + op.n - 1)
         /\ total' = Cardinality(Placed') /\ total' \in Nat
<1>1. DataOK /\ Geometry /\ WritesOwnData /\ Placement
  BY DEF DataInv
<1>2. op \in Request /\ {op.slot, op.pos, op.len, op.n} \subseteq Nat
  BY <1>1, RequestNumbers
<1>3. /\ op.n <= op.len /\ op.pos + op.len <= pdst /\ pdst \in 0 .. fsize /\ fsize \in Nat
      /\ op.slot + op.len <= BufSize
  BY <1>1 DEF Geometry, DataOK
<1>4. DOMAIN out = 0 .. fsize - 1
  BY <1>1 DEF DataOK
<1> DEFINE new == op.pos .. op.pos + op.n - 1
<1>5. new \subseteq DOMAIN out
  BY <1>2, <1>3, <1>4
<1>6. ASSUME NEW i \in DOMAIN out PROVE out'[i] = IF i \in new THEN i ELSE out[i]
  <2>1. CASE i \in new
    <3>1. out'[i] = buf[op.slot + i - op.pos]
      BY <2>1 DEF Writes
    <3> DEFINE j == i - op.pos
    <3>2. j \in 0 .. op.n - 1 /\ op.slot + i - op.pos = op.slot + j /\ op.pos + j = i
      BY <1>2, <2>1
    <3>3. buf[op.slot + j] = op.pos + j
      BY <1>1, <3>2 DEF Writes, WritesOwnData
    <3> QED BY <2>1, <3>1, <3>2, <3>3
  <2>2. CASE i \notin new
    BY <2>2 DEF Writes
  <2> QED BY <2>1, <2>2
<1>7. DOMAIN out' = DOMAIN out
  BY DEF Writes
<1> HIDE DEF new
<1>8. out' \in [0 .. fsize - 1 -> Int \cup {None}]
  <2>1. out' = [i \in DOMAIN out |-> out'[i]]
    BY DEF Writes
  <2>2. ASSUME NEW i \in 0 .. fsize - 1 PROVE out'[i] \in Int \cup {None}
    BY <1>1, <1>3, <1>4, <1>6, <2>2 DEF DataOK
  <2> QED BY <1>4, <2>1, <2>2
<1>9. Placed' = Placed \cup new
  BY <1>5, <1>6, <1>7 DEF Placed
<1>10. Placed \cap new = {}
  <2>1. SUFFICES ASSUME NEW i \in Placed, i \in new PROVE FALSE
    OBVIOUS
  <2>2. i \in DOMAIN out /\ out[i] = i
    BY <2>1 DEF Placed
  <2>3. i \in FileRange(op)
    BY <1>2, <1>3, <2>1 DEF new, FileRange
  <2>4. out[i] = None
    BY <1>1, <2>2, <2>3 DEF Placement
  <2>5. i \in Int
    BY <1>4, <2>2
  <2> QED BY <2>2, <2>4, <2>5, NoneAssumption
<1>11. Cardinality(Placed') = total + op.n
  <2>1. IsFiniteSet(DOMAIN out)
    BY <1>3, <1>4, FS_Interval
  <2>2. Placed \in SUBSET DOMAIN out
    BY DEF Placed
  <2>3. IsFiniteSet(Placed)
    BY <2>1, <2>2, FS_Subset
  <2>4. IsFiniteSet(new) /\ Cardinality(new) = op.n
    <3>1. op.pos \in Int /\ op.pos + op.n - 1 \in Int
      BY <1>2
    <3>2. IsFiniteSet(new) /\ Cardinality(new) = IF op.pos > op.pos + op.n - 1 THEN 0
                                                ELSE (op.pos + op.n - 1) - op.pos + 1
      BY <3>1, FS_Interval DEF new
    <3> QED BY <1>2, <3>2
  <2>5. Cardinality(Placed \cap new) = 0
    BY <1>10, FS_EmptySet
  <2>6. Cardinality(Placed \cup new) = Cardinality(Placed) + Cardinality(new) - Cardinality(Placed \cap new)
    BY <2>3, <2>4, FS_Union
  <2>7. Cardinality(Placed) = total /\ total \in Nat
    BY <1>1 DEF Placement, DataOK
  <2> QED BY <1>2, <1>9, <2>4, <2>5, <2>6, <2>7
<1>12. total' = total + op.n /\ total' \in Nat
  BY <1>1, <1>2 DEF Writes, DataOK
<1> QED BY <1>5, <1>6, <1>7, <1>8, <1>9, <1>11, <1>12 DEF new

(* The request that goes on after a write.                                 *)
LEMMA WritesKeeps ==
  ASSUME DataInv, NEW op \in ops, Writes(op)
  PROVE  DataInv'
<1>1. DataOK /\ Geometry /\ WritesOwnData /\ Placement
  BY DEF DataInv
<1>2. UNCHANGED <<fsize, buf>>
  BY DEF Writes, optionVars
<1>3. BufSize' = BufSize /\ Slots' = Slots
  BY <1>2, SameFile
<1>4. op \in Request /\ {op.slot, op.pos, op.len, op.n} \subseteq Nat
  BY <1>1, RequestNumbers
<1>5. /\ op.slot \in Slots /\ op.n <= op.len /\ op.len <= ChunkSize
      /\ op.slot + op.len <= BufSize /\ op.pos + op.len <= pdst
      /\ pdst \in 0 .. fsize /\ fsize \in Nat
  BY <1>1 DEF Geometry, DataOK
<1>6. /\ DOMAIN out' = DOMAIN out
      /\ out' \in [0 .. fsize - 1 -> Int \cup {None}]
      /\ \A i \in DOMAIN out : out'[i] = IF i \in op.pos .. op.pos + op.n - 1 THEN i ELSE out[i]
      /\ total' = Cardinality(Placed') /\ total' \in Nat
  BY WritesPlace
<1>7. DOMAIN out = 0 .. fsize - 1
  BY <1>1 DEF DataOK
<1>8. \A i \in DOMAIN out : out[i] \in {None, i}
  BY <1>1 DEF Placement
<1>9. ASSUME NEW a \in ops \ {op}
      PROVE  \A i \in DOMAIN out : i \in FileRange(a) => out'[i] = None
  <2>1. a \in Request /\ {a.pos, a.len} \subseteq Nat
    BY <1>1, RequestNumbers
  <2>2. a.pos + a.len <= op.pos \/ op.pos + op.len <= a.pos
    BY <1>1 DEF Geometry
  <2>3. ASSUME NEW i \in FileRange(a) PROVE i \notin op.pos .. op.pos + op.n - 1
    BY <1>4, <1>5, <2>1, <2>2 DEF FileRange
  <2> QED BY <1>1, <1>6, <2>3 DEF Placement
(* what the branches have in common: at most one new request r             *)
<1>10. ASSUME NEW r \in Request, ops' \subseteq (ops \ {op}) \cup {r}, r.kind # "write",
              r.slot = op.slot, r.len <= ChunkSize, r.slot + r.len <= BufSize, r.n = 0,
              pdst' \in 0 .. fsize, pdst <= pdst', r.pos + r.len <= pdst',
              \/ op.pos + op.n <= r.pos /\ r.pos + r.len <= op.pos + op.len
              \/ pdst <= r.pos
       PROVE  DataInv'
  <2>1. {r.pos, r.len, r.slot} \subseteq Nat
    BY <1>10 DEF Request
  <2>2. Geometry'
    <3>1. (op.pos <= r.pos /\ r.pos + r.len <= op.pos + op.len) \/ pdst <= r.pos
      BY <1>4, <1>10, <2>1
    <3>2. pdst' \in Nat /\ r.n <= r.len
      BY <1>5, <1>10, <2>1
    <3> QED BY <1>1, <1>2, <1>10, <3>1, <3>2, ReplaceKeeps
  <2>3. DataOK'
    <3>1. ops' \subseteq Request
      BY <1>1, <1>10 DEF DataOK
    <3>2. fsize' \in Nat /\ fsize' \in FileSizes /\ pdst' \in 0 .. fsize'
      BY <1>1, <1>2, <1>10 DEF DataOK
    <3>3. buf' \in [0 .. BufSize' - 1 -> Int \cup {None}]
      BY <1>1, <1>2, <1>3 DEF DataOK
    <3>4. out' \in [0 .. fsize' - 1 -> Int \cup {None}]
      BY <1>2, <1>6
    <3> QED BY <1>6, <3>1, <3>2, <3>3, <3>4 DEF DataOK
  <2>4. WritesOwnData'
    BY <1>1, <1>2, <1>10 DEF WritesOwnData
  <2>5. Placement'
    <3>1. \A i \in DOMAIN out : out'[i] \in {None, i}
      BY <1>6, <1>8
    <3>2. ASSUME NEW i \in DOMAIN out, pdst' <= i PROVE out'[i] = None
      <4>1. i \in Nat /\ pdst <= i /\ i \notin op.pos .. op.pos + op.n - 1
        BY <1>4, <1>5, <1>7, <1>10, <3>2
      <4> QED BY <1>1, <1>6, <4>1 DEF Placement
    <3>3. ASSUME NEW i \in DOMAIN out, i \in FileRange(r) PROVE out'[i] = None
      <4>1. i \in Nat /\ r.pos <= i /\ i < r.pos + r.len
        BY <1>7, <2>1, <3>3 DEF FileRange
      <4>2. i \notin op.pos .. op.pos + op.n - 1
        BY <1>4, <1>5, <1>10, <2>1, <4>1
      <4>3. i \in FileRange(op) \/ pdst <= i
        BY <1>4, <1>5, <1>10, <2>1, <4>1 DEF FileRange
      <4> QED BY <1>1, <1>6, <4>2, <4>3 DEF Placement
    <3>4. ASSUME NEW a \in ops' PROVE \A i \in DOMAIN out : i \in FileRange(a) => out'[i] = None
      BY <1>9, <1>10, <3>3, <3>4
    <3> QED BY <1>6, <3>1, <3>2, <3>4 DEF Placement, FileRange
  <2> QED BY <2>2, <2>3, <2>4, <2>5 DEF DataInv
<1>11. ASSUME ops' = ops \ {op}, pdst' = pdst PROVE DataInv'
  <2> DEFINE r == [kind |-> "read", slot |-> op.slot, pos |-> pdst, len |-> 0, n |-> 0]
  <2>1. /\ r \in Request /\ r.kind # "write" /\ r.n = 0
        /\ r.slot = op.slot /\ r.pos = pdst /\ r.len = 0
    BY <1>4, <1>5 DEF Request
  <2>2. ChunkSize \in Nat /\ BufSize \in Nat
    BY <1>1, SizesAssumption, SlotFacts DEF DataOK
  <2> HIDE DEF r
  <2>3. r.len <= ChunkSize /\ r.slot + r.len <= BufSize /\ r.pos + r.len <= pdst' /\ pdst <= r.pos
    BY <1>4, <1>5, <1>11, <2>1, <2>2
  <2> QED BY <1>5, <1>10, <1>11, <2>1, <2>3
<1>12. ASSUME NEW pos \in Nat, NEW len \in 0 .. ChunkSize,
              ops' = (ops \ {op}) \cup Issue(op.slot, pos, len),
              op.slot + len <= BufSize,
              pdst' \in 0 .. fsize, pdst <= pdst', pos + len <= pdst',
              \/ op.pos + op.n <= pos /\ pos + len <= op.pos + op.len
              \/ pdst <= pos
       PROVE  DataInv'
  <2> DEFINE r == [kind |-> IF pausing THEN "paused" ELSE "read",
                   slot |-> op.slot, pos |-> pos, len |-> len, n |-> 0]
  <2>1. len \in Nat
    BY SizesAssumption
  <2>2. /\ r \in Request /\ r.kind # "write" /\ r.n = 0
        /\ r.slot = op.slot /\ r.pos = pos /\ r.len = len
    BY <1>4, <2>1 DEF Request
  <2>3. ops' \subseteq (ops \ {op}) \cup {r}
    BY <1>12 DEF Issue
  <2> HIDE DEF r
  <2>4. r.len <= ChunkSize
    BY <2>2, SizesAssumption
  <2> QED BY <1>10, <1>12, <2>2, <2>3, <2>4
<1>13. CASE op.n < op.len /\ Continue(op) /\ pdst' = pdst
  <2>1. op.pos + op.n \in Nat /\ op.len - op.n \in 0 .. ChunkSize
    BY <1>4, <1>5, <1>13, SizesAssumption
  <2>2. BufSize \in Nat
    BY <1>1, SlotFacts DEF DataOK
  <2>3. /\ op.slot + (op.len - op.n) <= BufSize
        /\ (op.pos + op.n) + (op.len - op.n) <= pdst'
        /\ (op.pos + op.n) + (op.len - op.n) <= op.pos + op.len
    BY <1>4, <1>5, <1>13, <2>2
  <2> QED BY <1>4, <1>5, <1>12, <1>13, <2>1, <2>3 DEF Continue
<1>14. CASE pdst < fsize /\ Refill(op)
  <2>1. Chunk(pdst) \in 0 .. ChunkSize /\ pdst + Chunk(pdst) <= fsize
    BY <1>5, ChunkFacts
  <2>2. ChunkSize \in Nat /\ BufSize \in Nat
    BY <1>1, SizesAssumption, SlotFacts DEF DataOK
  <2>3. op.slot + Chunk(pdst) <= BufSize
    <3>1. CASE fsize < ChunkSize
      BY <1>5, <2>1, <2>2, <3>1, SlotFacts
    <3>2. CASE fsize >= ChunkSize
      BY <1>4, <1>5, <2>1, <2>2, <3>2, SlotFacts
    <3> QED BY <1>5, <2>2, <3>1, <3>2
  <2>4. pdst' = pdst + Chunk(pdst) /\ pdst' \in 0 .. fsize /\ pdst <= pdst'
    BY <1>5, <1>14, <2>1, <2>2 DEF Refill
  <2> QED BY <1>5, <1>12, <1>14, <2>1, <2>3, <2>4 DEF Refill
<1> QED BY <1>11, <1>13, <1>14 DEF Writes

LEMMA DataStep == DataInv /\ Untouched /\ [Next]_vars => DataInv'
  BY StepShapes, RestsKeeps, StartsKeeps, FillsKeeps, WritesKeeps, RetriesKeeps

-----------------------------------------------------------------------------
(* The stages of a transfer, its result and its handles.                   *)

ControlOK ==
  /\ sftp \in Sides /\ hasMode \in BOOLEAN
  /\ stage \in Stages
  /\ hadError \in BOOLEAN /\ failed \in BOOLEAN
  /\ ref \in [Sides -> {"unset", "set"}]
  /\ recorded \subseteq Sides /\ opens \subseteq Sides /\ closing \subseteq Sides
  /\ closes \in [Sides -> Nat]
  /\ pausing \in BOOLEAN /\ onDestroy \in BOOLEAN /\ killed \in BOOLEAN
  /\ channel \in {"open", "closed"}
  /\ sent \in Seq({"end", "err"})
  /\ crashed \in BOOLEAN

(* Requests only run during the copy, or after its end is settled; the     *)
(* client is told last.                                                    *)
StageInv ==
  /\ stage \in EarlyStages => pdst = 0 /\ ops = {} /\ ~hadError
  /\ ops # {} /\ ~hadError => stage = "copy"
  /\ stage \in {"futimes", "close"} => hadError
  /\ stage = "futimes" => ~failed
  /\ sent # << >> => stage = "over"

(* A handle that was closed is forgotten, or its close() is under way.     *)
HandleInv ==
  /\ killed => onDestroy /\ \A s \in Sides : ref[s] = "unset"
  /\ ReportedClosesOnce
  /\ ~killed => \A s \in Sides :
       /\ closes[s] <= 1
       /\ stage \in EarlyStages => closes[s] = 0
       /\ ref[s] = "set" /\ closes[s] # 0 => stage = "close" /\ s \in closing

ControlInv == ControlOK /\ StageInv /\ HandleInv

LEMMA SendFacts ==
  ASSUME sent \in Seq({"end", "err"}), NEW m \in {"end", "err"}, Send(m)
  PROVE  /\ sent' \in Seq({"end", "err"})
         /\ onDestroy => sent' = sent
         /\ ~onDestroy => sent' = Append(sent, m)
         /\ ~onDestroy /\ sent = << >> => sent' = <<m>>
<1>1. Append(sent, m) \in Seq({"end", "err"})
  BY AppendProperties
<1>2. sent = << >> => Append(sent, m) = <<m>>
  OBVIOUS
<1> QED BY <1>1, <1>2 DEF Send

(* What closing the handles does: the client is told, or they are being    *)
(* closed, or the process ends.                                            *)
LEMMA CloseHandlesKeeps ==
  ASSUME ControlInv, NEW bad \in BOOLEAN, NEW sides \in SUBSET Sides, CloseHandles(bad, sides),
         stage \in {"copy", "futimes"}, hadError', stage = "futimes" => ~failed',
         UNCHANGED <<ref, onDestroy, killed>>
  PROVE  /\ closes' \in [Sides -> Nat] /\ stage' \in Stages /\ closing' \subseteq Sides
         /\ sent' \in Seq({"end", "err"}) /\ crashed' \in BOOLEAN
         /\ StageInv' /\ HandleInv'
<1>1. ControlOK /\ StageInv /\ HandleInv
  BY DEF ControlInv
<1>2. sent = << >> /\ stage \notin EarlyStages
  BY <1>1 DEF StageInv, EarlyStages
<1>3. closing' = sides
  BY DEF CloseHandles
<1>4. ASSUME sides = {}, Report(bad), stage' = "over", UNCHANGED <<closes, crashed>>
      PROVE  /\ closes' \in [Sides -> Nat] /\ stage' \in Stages
             /\ sent' \in Seq({"end", "err"}) /\ crashed' \in BOOLEAN
             /\ StageInv' /\ HandleInv'
  <2>1. sent' \in Seq({"end", "err"}) /\ (onDestroy => sent' = sent)
    BY <1>1, <1>4, SendFacts DEF ControlOK, Report
  <2>2. StageInv'
    BY <1>4 DEF StageInv, EarlyStages
  <2>3. HandleInv'
    <3>1. CASE killed
      BY <1>1, <1>2, <1>4, <2>1, <3>1 DEF HandleInv, ReportedClosesOnce
    <3>2. CASE ~killed
      BY <1>1, <1>4, <3>2 DEF HandleInv, ReportedClosesOnce, EarlyStages
    <3> QED BY <3>1, <3>2
  <2> QED BY <1>1, <1>4, <2>1, <2>2, <2>3 DEF ControlOK, Stages
<1>5. ASSUME sides # {}, \A s \in sides : ref[s] = "set",
             closes' = [s \in Sides |-> IF s \in sides THEN closes[s] + 1 ELSE closes[s]],
             stage' = "close", UNCHANGED <<sent, crashed>>
      PROVE  /\ closes' \in [Sides -> Nat] /\ stage' \in Stages
             /\ sent' \in Seq({"end", "err"}) /\ crashed' \in BOOLEAN
             /\ StageInv' /\ HandleInv'
  <2>1. closes' \in [Sides -> Nat]
    BY <1>1, <1>5 DEF ControlOK
  <2>2. StageInv'
    BY <1>2, <1>5 DEF StageInv, EarlyStages
  <2>3. ~killed
    BY <1>1, <1>5 DEF HandleInv
  <2>4. ASSUME NEW s \in Sides
        PROVE  /\ closes'[s] <= 1
               /\ ref[s] = "set" /\ closes'[s] # 0 => s \in sides
    <3>1. closes[s] \in Nat /\ closes[s] <= 1 /\ (ref[s] = "set" => closes[s] = 0)
      BY <1>1, <2>3 DEF HandleInv, ControlOK
    <3>2. CASE s \in sides
      BY <1>5, <3>1, <3>2
    <3>3. CASE s \notin sides
      BY <1>5, <3>1, <3>3
    <3> QED BY <3>2, <3>3
  <2>5. HandleInv'
    BY <1>2, <1>3, <1>5, <2>3, <2>4 DEF HandleInv, ReportedClosesOnce, EarlyStages
  <2> QED BY <1>1, <1>5, <2>1, <2>2, <2>5 DEF ControlOK, Stages
<1>6. ASSUME crashed' = TRUE, UNCHANGED <<closes, stage, sent>>
      PROVE  /\ closes' \in [Sides -> Nat] /\ stage' \in Stages
             /\ sent' \in Seq({"end", "err"}) /\ crashed' \in BOOLEAN
             /\ StageInv' /\ HandleInv'
  <2>1. StageInv'
    BY <1>2, <1>6 DEF StageInv, EarlyStages
  <2>2. HandleInv'
    BY <1>1, <1>2, <1>6 DEF HandleInv, ReportedClosesOnce, EarlyStages
  <2> QED BY <1>1, <1>6, <2>1, <2>2 DEF ControlOK
<1> QED BY <1>3, <1>4, <1>5, <1>6 DEF CloseHandles

LEMMA FinishKeeps ==
  ASSUME ControlInv, NEW bad \in BOOLEAN, Finish(bad), stage = "copy",
         UNCHANGED <<ref, onDestroy, killed>>
  PROVE  /\ closes' \in [Sides -> Nat] /\ stage' \in Stages /\ closing' \subseteq Sides
         /\ sent' \in Seq({"end", "err"}) /\ crashed' \in BOOLEAN
         /\ hadError' = TRUE /\ failed' = bad
         /\ StageInv' /\ HandleInv'
<1>1. ControlOK /\ StageInv /\ HandleInv
  BY DEF ControlInv
<1>2. hadError' = TRUE /\ failed' = bad /\ CanClose \in SUBSET Sides
  BY DEF Finish, CanClose
<1>3. sent = << >>
  BY <1>1 DEF StageInv
<1>4. CASE CloseHandles(bad, CanClose)
  BY <1>2, <1>4, CloseHandlesKeeps
<1>5. CASE /\ ~bad /\ stage' = "futimes" /\ closing' = CanClose
           /\ UNCHANGED <<closes, sent, crashed>>
  <2>1. StageInv'
    BY <1>2, <1>3, <1>5 DEF StageInv, EarlyStages
  <2>2. HandleInv'
    BY <1>1, <1>3, <1>5 DEF HandleInv, ReportedClosesOnce, EarlyStages
  <2> QED BY <1>1, <1>2, <1>5, <2>1, <2>2 DEF ControlOK, Stages
<1> QED BY <1>4, <1>5 DEF Finish

LEMMA SrcOpenedKeeps == ControlInv /\ SrcOpened => ControlInv'
<1> SUFFICES ASSUME ControlInv, SrcOpened PROVE ControlInv'
  OBVIOUS
<1>1. ControlOK /\ StageInv /\ HandleInv /\ stage = "srcOpen" /\ sent = << >>
  BY DEF ControlInv, SrcOpened, StageInv
<1>2. UNCHANGED <<copyVars, endVars, closing, closes, userVars, channel, crashed>>
  BY DEF SrcOpened
<1> USE DEF copyVars, optionVars, endVars, userVars
<1>3. CASE GiveUp /\ UNCHANGED <<ref, recorded, opens>>
  <2>1. sent' \in Seq({"end", "err"}) /\ (onDestroy => sent' = sent) /\ stage' = "over"
    BY <1>1, <1>3, SendFacts DEF ControlOK, GiveUp
  <2>2. ControlOK'
    BY <1>1, <1>2, <1>3, <2>1 DEF ControlOK, Stages
  <2>3. StageInv'
    BY <1>1, <1>2, <2>1 DEF StageInv, EarlyStages
  <2>4. HandleInv'
    BY <1>1, <1>2, <1>3, <2>1 DEF HandleInv, ReportedClosesOnce, EarlyStages
  <2> QED BY <2>2, <2>3, <2>4 DEF ControlInv
<1>4. CASE /\ onDestroy /\ stage' = "over" /\ opens' = opens \cup {"src"}
           /\ UNCHANGED <<ref, recorded, sent>>
  <2>1. ControlOK'
    BY <1>1, <1>2, <1>4 DEF ControlOK, Stages, Sides
  <2>2. StageInv'
    BY <1>1, <1>2, <1>4 DEF StageInv, EarlyStages
  <2>3. HandleInv'
    BY <1>1, <1>2, <1>4 DEF HandleInv, ReportedClosesOnce, EarlyStages
  <2> QED BY <2>1, <2>2, <2>3 DEF ControlInv
<1>5. CASE /\ ~onDestroy /\ Record("src") /\ stage' = "fstat" /\ opens' = opens \cup {"src"}
           /\ UNCHANGED sent
  <2>1. ControlOK'
    BY <1>1, <1>2, <1>5 DEF ControlOK, Stages, Sides, Record
  <2>2. StageInv'
    BY <1>1, <1>2, <1>5 DEF StageInv, EarlyStages
  <2>3. HandleInv'
    BY <1>1, <1>2, <1>5 DEF HandleInv, ReportedClosesOnce, EarlyStages
  <2> QED BY <2>1, <2>2, <2>3 DEF ControlInv
<1> QED BY <1>3, <1>4, <1>5 DEF SrcOpened

LEMMA StattedKeeps == ControlInv /\ Statted => ControlInv'
<1> SUFFICES ASSUME ControlInv, Statted PROVE ControlInv'
  OBVIOUS
<1>1. ControlOK /\ StageInv /\ HandleInv /\ stage \in {"fstat", "stat"} /\ sent = << >>
  BY DEF ControlInv, Statted, StageInv
<1> USE DEF copyVars, optionVars, endVars, handleVars, userVars
<1>2. CASE Throw
  BY <1>1, <1>2 DEF Throw, ControlInv, ControlOK, StageInv, HandleInv, ReportedClosesOnce
<1>3. CASE GiveUp /\ UNCHANGED <<copyVars, endVars, handleVars, userVars, channel, crashed>>
  <2>1. sent' \in Seq({"end", "err"}) /\ (onDestroy => sent' = sent) /\ stage' = "over"
    BY <1>1, <1>3, SendFacts DEF ControlOK, GiveUp
  <2>2. ControlOK'
    BY <1>1, <1>3, <2>1 DEF ControlOK, Stages
  <2>3. StageInv'
    BY <1>1, <1>3, <2>1 DEF StageInv, EarlyStages
  <2>4. HandleInv'
    BY <1>1, <1>3, <2>1 DEF HandleInv, ReportedClosesOnce, EarlyStages
  <2> QED BY <2>2, <2>3, <2>4 DEF ControlInv
<1>4. CASE /\ stage' \in {"dstOpen", "stat"}
           /\ UNCHANGED <<sent, copyVars, endVars, handleVars, userVars, channel, crashed>>
  <2>1. ControlOK'
    BY <1>1, <1>4 DEF ControlOK, Stages
  <2>2. StageInv'
    BY <1>1, <1>4 DEF StageInv, EarlyStages
  <2>3. HandleInv'
    BY <1>1, <1>4 DEF HandleInv, ReportedClosesOnce, EarlyStages
  <2> QED BY <2>1, <2>2, <2>3 DEF ControlInv
<1> QED BY <1>2, <1>3, <1>4 DEF Statted

LEMMA StartReadsKeeps ==
  ASSUME ControlInv, StartReads, stage \in {"dstOpen", "fchmod"},
         UNCHANGED <<endVars, closing, closes, sent, userVars>>,
         ref' = ref \/ (~onDestroy /\ Record("dst"))
  PROVE  stage' \in Stages /\ StageInv' /\ HandleInv'
<1>1. StageInv /\ HandleInv /\ sent = << >> /\ stage' = "copy"
  BY DEF ControlInv, StageInv, StartReads
<1>2. StageInv'
  BY <1>1 DEF StageInv, EarlyStages
<1>3. HandleInv'
  BY <1>1 DEF HandleInv, ReportedClosesOnce, EarlyStages, userVars, ControlInv, ControlOK, Record
<1> QED BY <1>1, <1>2, <1>3 DEF Stages

LEMMA DstOpenedKeeps == ControlInv /\ DstOpened => ControlInv'
<1> SUFFICES ASSUME ControlInv, DstOpened PROVE ControlInv'
  OBVIOUS
<1>1. ControlOK /\ StageInv /\ HandleInv /\ stage = "dstOpen" /\ sent = << >>
  BY DEF ControlInv, DstOpened, StageInv
<1>2. UNCHANGED <<closes, userVars, channel, crashed>>
  BY DEF DstOpened
<1> USE DEF copyVars, optionVars, endVars, userVars
<1>3. CASE GiveUp /\ UNCHANGED <<copyVars, endVars, ref, recorded, opens, closing>>
  <2>1. sent' \in Seq({"end", "err"}) /\ (onDestroy => sent' = sent) /\ stage' = "over"
    BY <1>1, <1>3, SendFacts DEF ControlOK, GiveUp
  <2>2. ControlOK'
    BY <1>1, <1>2, <1>3, <2>1 DEF ControlOK, Stages
  <2>3. StageInv'
    BY <1>1, <1>2, <1>3, <2>1 DEF StageInv, EarlyStages
  <2>4. HandleInv'
    BY <1>1, <1>2, <1>3, <2>1 DEF HandleInv, ReportedClosesOnce, EarlyStages
  <2> QED BY <2>2, <2>3, <2>4 DEF ControlInv
<1>4. CASE /\ onDestroy /\ stage' = "over" /\ opens' = opens \cup {"dst"}
           /\ UNCHANGED <<copyVars, endVars, ref, recorded, closing, sent>>
  <2>1. ControlOK'
    BY <1>1, <1>2, <1>4 DEF ControlOK, Stages, Sides
  <2>2. StageInv'
    BY <1>1, <1>2, <1>4 DEF StageInv, EarlyStages
  <2>3. HandleInv'
    BY <1>1, <1>2, <1>4 DEF HandleInv, ReportedClosesOnce, EarlyStages
  <2> QED BY <2>1, <2>2, <2>3 DEF ControlInv
<1>5. ASSUME ~onDestroy, opens' = opens \cup {"dst"}, Record("dst")
      PROVE  ControlInv'
  <2>1. /\ ref' \in [Sides -> {"unset", "set"}] /\ recorded' \subseteq Sides
        /\ opens' \subseteq Sides
    BY <1>1, <1>5 DEF ControlOK, Sides, Record
  <2>2. CASE /\ hadError' = TRUE /\ failed' = FALSE
             /\ closing' = {s \in Sides : Reachable(s)}
             /\ stage' = "futimes"
             /\ UNCHANGED <<copyVars, sent>>
    <3>1. ControlOK'
      BY <1>1, <1>2, <2>1, <2>2 DEF ControlOK, Stages
    <3>2. StageInv'
      BY <1>1, <1>2, <2>2 DEF StageInv, EarlyStages
    <3>3. HandleInv'
      BY <1>1, <1>2, <1>5, <2>2 DEF HandleInv, ReportedClosesOnce, EarlyStages
    <3> QED BY <3>1, <3>2, <3>3 DEF ControlInv
  <2>3. CASE GiveUp /\ UNCHANGED <<copyVars, endVars, closing>>
    <3>1. sent' \in Seq({"end", "err"}) /\ (onDestroy => sent' = sent) /\ stage' = "over"
      BY <1>1, <2>3, SendFacts DEF ControlOK, GiveUp
    <3>2. ControlOK'
      BY <1>1, <1>2, <2>1, <2>3, <3>1 DEF ControlOK, Stages
    <3>3. StageInv'
      BY <1>1, <1>2, <2>3, <3>1 DEF StageInv, EarlyStages
    <3>4. HandleInv'
      BY <1>1, <1>2, <1>5, <2>3, <3>1 DEF HandleInv, ReportedClosesOnce, EarlyStages
    <3> QED BY <3>2, <3>3, <3>4 DEF ControlInv
  <2>4. CASE stage' = "fchmod" /\ UNCHANGED <<copyVars, endVars, closing, sent>>
    <3>1. ControlOK'
      BY <1>1, <1>2, <2>1, <2>4 DEF ControlOK, Stages
    <3>2. StageInv'
      BY <1>1, <1>2, <2>4 DEF StageInv, EarlyStages
    <3>3. HandleInv'
      BY <1>1, <1>2, <1>5, <2>4 DEF HandleInv, ReportedClosesOnce, EarlyStages
    <3> QED BY <3>1, <3>2, <3>3 DEF ControlInv
  <2>5. CASE StartReads /\ UNCHANGED <<optionVars, total, buf, out, endVars, closing, sent>>
    <3>1. stage' \in Stages /\ StageInv' /\ HandleInv'
      BY <1>1, <1>2, <1>5, <2>5, StartReadsKeeps
    <3>2. ControlOK'
      BY <1>1, <1>2, <2>1, <2>5, <3>1 DEF ControlOK
    <3> QED BY <3>1, <3>2 DEF ControlInv
  <2> QED BY <1>1, <1>5, <2>2, <2>3, <2>4, <2>5 DEF DstOpened
<1> QED BY <1>3, <1>4, <1>5 DEF DstOpened

LEMMA ModeSetKeeps == ControlInv /\ ModeSet => ControlInv'
<1> SUFFICES ASSUME ControlInv, ModeSet PROVE ControlInv'
  OBVIOUS
<1>1. stage' \in Stages /\ StageInv' /\ HandleInv'
  BY StartReadsKeeps DEF ModeSet, handleVars
<1>2. ControlOK'
  BY <1>1 DEF ControlInv, ControlOK, ModeSet, optionVars, endVars, handleVars, userVars
<1> QED BY <1>1, <1>2 DEF ControlInv

LEMMA TimesSetKeeps == ControlInv /\ TimesSet => ControlInv'
<1> SUFFICES ASSUME ControlInv, TimesSet PROVE ControlInv'
  OBVIOUS
<1> USE DEF copyVars, optionVars, endVars, userVars
<1>1. ControlOK /\ StageInv /\ HandleInv /\ stage = "futimes" /\ CloseHandles(FALSE, closing)
  BY DEF ControlInv, TimesSet
<1>2. UNCHANGED <<copyVars, endVars, ref, recorded, opens, userVars, channel>>
  BY DEF TimesSet
<1>3. closing \in SUBSET Sides /\ hadError = TRUE /\ failed = FALSE
  BY <1>1 DEF ControlOK, StageInv
<1>4. /\ closes' \in [Sides -> Nat] /\ stage' \in Stages /\ closing' \subseteq Sides
      /\ sent' \in Seq({"end", "err"}) /\ crashed' \in BOOLEAN
      /\ StageInv' /\ HandleInv'
  BY <1>1, <1>2, <1>3, CloseHandlesKeeps
<1>5. ControlOK'
  BY <1>1, <1>2, <1>4 DEF ControlOK
<1> QED BY <1>4, <1>5 DEF ControlInv

LEMMA ClosedKeeps ==
  ASSUME ControlInv, NEW s \in Sides, Closed(s)
  PROVE  ControlInv'
<1> USE DEF copyVars, optionVars, endVars, userVars
<1>1. ControlOK /\ StageInv /\ HandleInv /\ stage = "close" /\ s \in closing /\ sent = << >>
  BY DEF ControlInv, Closed, StageInv
<1>2. /\ UNCHANGED <<copyVars, endVars, recorded, opens, closes, userVars, channel, crashed>>
      /\ ref' = [ref EXCEPT ![s] = "unset"] /\ closing' = closing \ {s}
  BY DEF Closed, Forget
<1>3. ref' \in [Sides -> {"unset", "set"}] /\ closing' \subseteq Sides
  BY <1>1, <1>2 DEF ControlOK
<1>4. \A t \in Sides : ref'[t] = IF t = s THEN "unset" ELSE ref[t]
  BY <1>1, <1>2 DEF ControlOK
<1>5. CASE closing' # {} /\ UNCHANGED <<stage, sent>>
  <2>1. ControlOK'
    BY <1>1, <1>2, <1>3, <1>5 DEF ControlOK
  <2>2. StageInv'
    BY <1>1, <1>2, <1>5 DEF StageInv, EarlyStages
  <2>3. HandleInv'
    BY <1>1, <1>2, <1>4, <1>5 DEF HandleInv, ReportedClosesOnce, EarlyStages
  <2> QED BY <2>1, <2>2, <2>3 DEF ControlInv
<1>6. CASE closing' = {} /\ Report(failed) /\ stage' = "over"
  <2>1. sent' \in Seq({"end", "err"}) /\ (onDestroy => sent' = sent)
    BY <1>1, <1>6, SendFacts DEF ControlOK, Report
  <2>2. ControlOK'
    BY <1>1, <1>2, <1>3, <1>6, <2>1 DEF ControlOK, Stages
  <2>3. StageInv'
    BY <1>1, <1>2, <1>6 DEF StageInv, EarlyStages
  <2>4. HandleInv'
    BY <1>1, <1>2, <1>4, <1>6, <2>1 DEF HandleInv, ReportedClosesOnce, EarlyStages
  <2> QED BY <2>2, <2>3, <2>4 DEF ControlInv
<1> QED BY <1>5, <1>6 DEF Closed

(* What reads, writes and timers share: requests end or go on, and the     *)
(* first failure ends the copy.                                            *)
LEMMA RequestsKeep ==
  ASSUME ControlInv, ops # {},
         UNCHANGED <<sftp, hasMode, ref, recorded, opens, userVars, channel>>,
         \/ UNCHANGED <<stage, endVars, closing, closes, sent, crashed>>
         \/ ~Over /\ \E bad \in BOOLEAN : Finish(bad)
  PROVE  ControlInv'
<1> USE DEF endVars, userVars
<1>1. ControlOK /\ StageInv /\ HandleInv
  BY DEF ControlInv
<1>2. CASE UNCHANGED <<stage, endVars, closing, closes, sent, crashed>>
  <2>1. ControlOK'
    BY <1>1, <1>2 DEF ControlOK
  <2>2. StageInv'
    BY <1>1, <1>2 DEF StageInv, EarlyStages
  <2>3. HandleInv'
    BY <1>1, <1>2 DEF HandleInv, ReportedClosesOnce, EarlyStages
  <2> QED BY <2>1, <2>2, <2>3 DEF ControlInv
<1>3. ASSUME ~Over, NEW bad \in BOOLEAN, Finish(bad) PROVE ControlInv'
  <2>1. stage = "copy"
    BY <1>1, <1>3 DEF StageInv, Over
  <2>2. /\ closes' \in [Sides -> Nat] /\ stage' \in Stages /\ closing' \subseteq Sides
        /\ sent' \in Seq({"end", "err"}) /\ crashed' \in BOOLEAN
        /\ hadError' = TRUE /\ failed' = bad
        /\ StageInv' /\ HandleInv'
    BY <1>3, <2>1, FinishKeeps
  <2>3. ControlOK'
    BY <1>1, <2>2 DEF ControlOK
  <2> QED BY <2>2, <2>3 DEF ControlInv
<1> QED BY <1>2, <1>3

LEMMA ReadDoneKeeps ==
  ASSUME ControlInv, NEW op \in ops, ReadDone(op)
  PROVE  ControlInv'
<1>1. UNCHANGED <<sftp, hasMode, ref, recorded, opens, userVars, channel>>
  BY DEF ReadDone, optionVars
<1>2. \/ UNCHANGED <<stage, endVars, closing, closes, sent, crashed>>
      \/ ~Over /\ Finish(TRUE)
  BY DEF ReadDone
<1> QED BY <1>1, <1>2, RequestsKeep

LEMMA WriteDoneKeeps ==
  ASSUME ControlInv, NEW op \in ops, WriteDone(op)
  PROVE  ControlInv'
<1>1. UNCHANGED <<sftp, hasMode, ref, recorded, opens, userVars, channel>>
  BY DEF WriteDone, optionVars
<1>2. \/ UNCHANGED <<stage, endVars, closing, closes, sent, crashed>>
      \/ ~Over /\ (Finish(TRUE) \/ Finish(FALSE))
  BY DEF WriteDone
<1> QED BY <1>1, <1>2, RequestsKeep

LEMMA PauseTimerKeeps ==
  ASSUME ControlInv, NEW op \in ops, PauseTimer(op)
  PROVE  ControlInv'
  BY RequestsKeep DEF PauseTimer, optionVars, handleVars

LEMMA UserKeeps ==
  ASSUME ControlInv, Pause \/ Resume \/ Destroy \/ ChannelCloses
  PROVE  ControlInv'
<1> USE DEF copyVars, optionVars, endVars, handleVars
<1>1. ControlOK /\ StageInv /\ HandleInv
  BY DEF ControlInv
<1>2. /\ UNCHANGED <<sftp, hasMode, stage, pdst, endVars, handleVars, killed, sent, crashed>>
      /\ ops' \subseteq ops /\ onDestroy' \in BOOLEAN /\ (onDestroy => onDestroy')
      /\ pausing' \in BOOLEAN /\ channel' \in {"open", "closed"}
  BY <1>1 DEF Pause, Resume, Destroy, ChannelCloses, userVars, ControlOK
<1>3. ControlOK'
  BY <1>1, <1>2 DEF ControlOK
<1>4. StageInv'
  BY <1>1, <1>2 DEF StageInv, EarlyStages
<1>5. HandleInv'
  BY <1>1, <1>2 DEF HandleInv, ReportedClosesOnce, EarlyStages
<1> QED BY <1>3, <1>4, <1>5 DEF ControlInv

(* kill() closes what is not closed and not forgotten yet.                 *)
LEMMA KillKeeps == ControlInv /\ Kill => ControlInv'
<1> SUFFICES ASSUME ControlInv, Kill PROVE ControlInv'
  OBVIOUS
<1> USE DEF copyVars, optionVars, endVars
<1>1. ControlOK /\ StageInv /\ HandleInv /\ ~killed /\ onDestroy
  BY DEF ControlInv, Kill
<1>2. /\ UNCHANGED <<stage, copyVars, endVars, recorded, opens, closing, pausing, onDestroy,
                     channel, sent, crashed>>
      /\ killed' = TRUE /\ ref' = [s \in Sides |-> "unset"]
      /\ closes' = [s \in Sides |-> IF ref[s] = "set" THEN closes[s] + 1 ELSE closes[s]]
  BY DEF Kill, KillCloses
<1>3. closes' \in [Sides -> Nat]
  BY <1>1, <1>2 DEF ControlOK
<1>4. ControlOK'
  BY <1>1, <1>2, <1>3 DEF ControlOK
<1>5. StageInv'
  BY <1>1, <1>2 DEF StageInv, EarlyStages
<1>6. ASSUME sent # << >>, NEW s \in Sides PROVE closes'[s] <= 1
  <2>1. stage = "over"
    BY <1>1, <1>6 DEF StageInv
  <2>2. closes[s] \in Nat /\ closes[s] <= 1 /\ (ref[s] = "set" => closes[s] = 0)
    BY <1>1, <2>1 DEF HandleInv, ControlOK
  <2> QED BY <1>2, <2>2
<1>7. HandleInv'
  BY <1>1, <1>2, <1>6 DEF HandleInv, ReportedClosesOnce
<1> QED BY <1>4, <1>5, <1>7 DEF ControlInv

LEMMA ControlStep == ControlInv /\ [Next]_vars => ControlInv'
<1> SUFFICES ASSUME ControlInv, [Next]_vars PROVE ControlInv'
  OBVIOUS
<1>1. CASE Callback
  BY <1>1, SrcOpenedKeeps, StattedKeeps, DstOpenedKeeps, ModeSetKeeps, TimesSetKeeps,
     ClosedKeeps, ReadDoneKeeps, WriteDoneKeeps DEF Callback
<1>2. CASE \E op \in ops : PauseTimer(op)
  BY <1>2, PauseTimerKeeps
<1>3. CASE Pause \/ Resume \/ Destroy \/ Kill \/ ChannelCloses
  BY <1>3, UserKeeps, KillKeeps
<1>4. CASE UNCHANGED vars
  BY <1>4 DEF vars, copyVars, optionVars, endVars, handleVars, userVars, ControlInv, ControlOK,
              StageInv, HandleInv, ReportedClosesOnce
<1> QED BY <1>1, <1>2, <1>3, <1>4 DEF Next

-----------------------------------------------------------------------------
(* The inductive invariant.  A copy that is over without an error is       *)
(* complete: the last part links what the client is told to the data.      *)

Complete == hadError /\ ~failed => Placed = DOMAIN out

IInv == DataInv /\ ControlInv /\ Complete

LEMMA PlacedIsFinite ==
  ASSUME DataOK
  PROVE  /\ DOMAIN out = 0 .. fsize - 1 /\ IsFiniteSet(DOMAIN out)
         /\ Cardinality(DOMAIN out) = fsize
         /\ Placed \in SUBSET DOMAIN out /\ IsFiniteSet(Placed)
<1>1. DOMAIN out = 0 .. fsize - 1 /\ fsize \in Nat
  BY DEF DataOK
<1>2. IsFiniteSet(DOMAIN out) /\ Cardinality(DOMAIN out) = fsize
  <2>1. 0 \in Int /\ fsize - 1 \in Int
    BY <1>1
  <2>2. /\ IsFiniteSet(0 .. fsize - 1)
        /\ Cardinality(0 .. fsize - 1) = IF 0 > fsize - 1 THEN 0 ELSE (fsize - 1) - 0 + 1
    BY <2>1, FS_Interval
  <2> QED BY <1>1, <2>2
<1>3. Placed \in SUBSET DOMAIN out
  BY DEF Placed
<1>4. IsFiniteSet(Placed)
  BY <1>2, <1>3, FS_Subset
<1> QED BY <1>1, <1>2, <1>3, <1>4

(* Counting is enough: the units are all there when as many were written   *)
(* as the source has.                                                      *)
CountingTells == total \in 0 .. fsize /\ (total = fsize => Placed = DOMAIN out)

LEMMA CountingIsEnough == DataInv => CountingTells
<1> SUFFICES ASSUME DataInv PROVE CountingTells
  OBVIOUS
<1>1. total = Cardinality(Placed) /\ total \in Nat /\ fsize \in Nat
  BY DEF DataInv, DataOK, Placement
<1>2. Cardinality(Placed) <= Cardinality(DOMAIN out) /\ Cardinality(DOMAIN out) = fsize
  BY PlacedIsFinite, FS_Subset DEF DataInv
<1>3. Cardinality(DOMAIN out) = Cardinality(Placed) => DOMAIN out = Placed
  BY PlacedIsFinite, FS_Subset DEF DataInv
<1> QED BY <1>1, <1>2, <1>3 DEF CountingTells

LEMMA NothingPlaced == Init => Placed = {}
<1> SUFFICES ASSUME Init PROVE Placed = {}
  OBVIOUS
<1>1. \A i \in DOMAIN out : i \in Int /\ out[i] = None
  BY SizesAssumption DEF Init
<1> QED BY <1>1, NoneAssumption DEF Placed

LEMMA IInvInit == Init => IInv
<1> SUFFICES ASSUME Init PROVE IInv
  OBVIOUS
<1>1. fsize \in Nat /\ fsize \in FileSizes /\ ops = {} /\ pdst = 0 /\ total = 0
  BY SizesAssumption DEF Init
<1>2. Placed = {}
  BY NothingPlaced
<1>3. DataInv
  <2>1. DataOK
    BY <1>1 DEF Init, DataOK
  <2>2. Placement
    BY <1>1, <1>2, FS_EmptySet DEF Init, Placement
  <2> QED BY <1>1, <2>1, <2>2 DEF DataInv, Geometry, WritesOwnData
<1>4. ControlInv
  <2>1. sent = << >> /\ sent \in Seq({"end", "err"})
    BY EmptySeq DEF Init
  <2>2. ControlOK
    BY <2>1 DEF Init, ControlOK, Stages
  <2>3. StageInv
    BY <2>1 DEF Init, StageInv, EarlyStages
  <2>4. HandleInv
    BY <2>1 DEF Init, HandleInv, ReportedClosesOnce
  <2> QED BY <2>2, <2>3, <2>4 DEF ControlInv
<1>5. Complete
  BY DEF Init, Complete
<1> QED BY <1>3, <1>4, <1>5 DEF IInv

(* The copy ends once: by the first failure or with its last unit.         *)
LEMMA EndSteps ==
  ASSUME ControlInv, [Next]_vars
  PROVE  \/ UNCHANGED endVars /\ (hadError => out' = out)
         \/ failed' = TRUE
         \/ hadError' = TRUE /\ failed' = FALSE /\ (total' = fsize \/ (fsize = 0 /\ out' = out))
<1> DEFINE G == \/ UNCHANGED endVars /\ (hadError => out' = out)
                \/ failed' = TRUE
                \/ /\ hadError' = TRUE /\ failed' = FALSE
                   /\ total' = fsize \/ (fsize = 0 /\ out' = out)
<1>1. CASE SrcOpened
  BY <1>1 DEF SrcOpened, copyVars
<1>2. CASE Statted
  BY <1>2 DEF Statted, Throw, copyVars
<1>3. CASE DstOpened
  BY <1>3 DEF DstOpened, copyVars
<1>4. CASE ModeSet
  BY <1>4 DEF ModeSet
<1>5. CASE TimesSet
  BY <1>5 DEF TimesSet, copyVars
<1>6. ASSUME NEW s \in Sides, Closed(s) PROVE G
  BY <1>6 DEF Closed, copyVars
<1>7. ASSUME NEW op \in ops, ReadDone(op) PROVE G
  BY <1>7 DEF ReadDone, Finish
<1>8. ASSUME NEW op \in ops, WriteDone(op) PROVE G
  BY <1>8 DEF WriteDone, Finish, AllWritten, Over
<1>9. ASSUME NEW op \in ops, PauseTimer(op) PROVE G
  BY <1>9 DEF PauseTimer
<1>10. CASE Pause \/ Resume \/ Destroy \/ Kill \/ ChannelCloses
  BY <1>10 DEF Pause, Resume, Destroy, Kill, ChannelCloses, copyVars
<1>11. CASE UNCHANGED vars
  BY <1>11 DEF vars, copyVars
<1> QED
  BY <1>1, <1>2, <1>3, <1>4, <1>5, <1>6, <1>7, <1>8, <1>9, <1>10, <1>11 DEF Next, Callback

LEMMA SameSource == [Next]_vars => fsize' = fsize
  BY StepShapes DEF Rests, Starts, Fills, Writes, Retries, optionVars

LEMMA IInvStep == IInv /\ [Next]_vars => IInv'
<1> SUFFICES ASSUME IInv, [Next]_vars PROVE IInv'
  OBVIOUS
<1>1. ControlInv'
  BY ControlStep DEF IInv
<1>2. DataInv'
  <2>1. Untouched
    BY DEF IInv, ControlInv, StageInv, Untouched
  <2> QED BY <2>1, DataStep DEF IInv
<1>3. fsize' = fsize
  BY SameSource
<1>4. Complete'
  <2>1. CASE UNCHANGED endVars /\ (hadError => out' = out)
    BY <2>1 DEF IInv, Complete, Placed, endVars
  <2>2. CASE failed' = TRUE
    BY <2>2 DEF Complete
  <2>3. CASE total' = fsize
    <3>1. CountingTells'
      BY <1>2, CountingIsEnough, PTL
    <3> QED BY <1>3, <2>3, <3>1 DEF Complete, CountingTells
  <2>4. CASE fsize = 0 /\ out' = out
    <3>1. DOMAIN out = {}
      BY <2>4 DEF IInv, DataInv, DataOK
    <3> QED BY <2>4, <3>1 DEF Complete, Placed
  <2> QED BY <2>1, <2>2, <2>3, <2>4, EndSteps DEF IInv
<1> QED BY <1>1, <1>2, <1>4 DEF IInv

LEMMA Inductive == Spec => []IInv
  BY IInvInit, IInvStep, PTL DEF Spec

-----------------------------------------------------------------------------
(* The theorems.                                                           *)

LEMMA IInvImpliesType == IInv => TypeOK
  BY CountingIsEnough DEF IInv, DataInv, DataOK, ControlInv, ControlOK, CountingTells, TypeOK

LEMMA IInvImpliesApart == IInv => RequestsApart
<1> SUFFICES ASSUME IInv, NEW a \in ops
             PROVE  /\ BufferRange(a) \subseteq 0 .. BufSize - 1
                    /\ FileRange(a) \subseteq 0 .. pdst - 1
                    /\ \A b \in ops \ {a} :
                         /\ BufferRange(a) \cap BufferRange(b) = {}
                         /\ FileRange(a) \cap FileRange(b) = {}
  BY DEF RequestsApart
<1>1. DataOK /\ Geometry
  BY DEF IInv, DataInv
<1>2. \A b \in ops : {b.slot, b.pos, b.len, b.n} \subseteq Nat
  BY <1>1, RequestNumbers
<1>3. BufSize \in Nat /\ ChunkSize \in Nat /\ pdst \in Nat
  BY <1>1, SlotFacts, SizesAssumption DEF DataOK
<1>4. a.slot + a.len <= BufSize /\ a.pos + a.len <= pdst /\ a.len <= ChunkSize
  BY <1>1 DEF Geometry
<1>5. ASSUME NEW b \in ops \ {a}
      PROVE  BufferRange(a) \cap BufferRange(b) = {} /\ FileRange(a) \cap FileRange(b) = {}
  <2>1. b.len <= ChunkSize /\ (a.pos + a.len <= b.pos \/ b.pos + b.len <= a.pos)
    BY <1>1 DEF Geometry
  <2>2. a.slot + ChunkSize <= b.slot \/ b.slot + ChunkSize <= a.slot
    BY <1>1, BufferApart
  <2> QED BY <1>2, <1>3, <1>4, <2>1, <2>2 DEF BufferRange, FileRange
<1> QED BY <1>2, <1>3, <1>4, <1>5 DEF BufferRange, FileRange

(* The variables keep their types; in particular total never counts more   *)
(* units than the source has.                                              *)
THEOREM TypeCorrect == Spec => []TypeOK
  BY Inductive, IInvImpliesType, PTL

(* For every size of file and chunk and any number of requests, no two of  *)
(* them share a byte of the buffer or of the file.                         *)
THEOREM RequestsKeepApart == Spec => []RequestsApart
  BY Inductive, IInvImpliesApart, PTL

(* No read overwrites what another request has read but not yet written.   *)
THEOREM WritesTakeTheirOwn == Spec => []WritesOwnData
<1>1. IInv => WritesOwnData
  BY DEF IInv, DataInv
<1> QED BY Inductive, <1>1, PTL

(* Once the client was told the result, no handle is closed twice, neither *)
(* by the transfer nor by the kill() that follows.                         *)
THEOREM HandlesCloseOnce == Spec => []ReportedClosesOnce
<1>1. IInv => ReportedClosesOnce
  BY DEF IInv, ControlInv, HandleInv
<1> QED BY Inductive, <1>1, PTL

-----------------------------------------------------------------------------
(* The transfer is a FileCopy.                                             *)

(* A unit that reached its place stays there.                              *)
LEMMA PlacedGrows ==
  ASSUME DataInv, Untouched, [Next]_vars
  PROVE  DOMAIN out' = DOMAIN out /\ Placed \subseteq Placed' /\ Placed' \subseteq DOMAIN out
<1>1. CASE out' = out
  BY <1>1 DEF Placed
<1>2. ASSUME NEW op \in ops, Writes(op)
      PROVE  DOMAIN out' = DOMAIN out /\ Placed \subseteq Placed' /\ Placed' \subseteq DOMAIN out
  BY <1>2, WritesPlace DEF Placed
<1> QED BY <1>1, <1>2, StepShapes DEF Rests, Starts, Fills, Retries

(* The client is told at most once, unless it has cancelled.               *)
Silent == UNCHANGED <<sent, onDestroy>>

Cancels == onDestroy' = TRUE /\ UNCHANGED <<sent, out>>

Tells ==
  /\ sent = << >> /\ ~onDestroy /\ onDestroy' = onDestroy
  /\ sent' = <<"err">> \/ (sent' = <<"end">> /\ hadError' /\ ~failed')

LEMMA SendSteps ==
  ASSUME ControlInv, UNCHANGED <<onDestroy>>, sent = << >>, NEW m \in {"end", "err"}, Send(m),
         m = "end" => hadError' /\ ~failed'
  PROVE  Silent \/ Tells
  BY SendFacts DEF ControlInv, ControlOK, Silent, Tells

LEMMA FinishTells ==
  ASSUME ControlInv, UNCHANGED <<onDestroy>>, sent = << >>, NEW bad \in BOOLEAN, Finish(bad)
  PROVE  Silent \/ Tells
<1>1. hadError' = TRUE /\ failed' = bad
  BY DEF Finish
<1>2. UNCHANGED sent \/ Report(bad)
  BY DEF Finish, CloseHandles
<1> QED BY <1>1, <1>2, SendSteps DEF Report, Silent

LEMMA TellSteps ==
  ASSUME ControlInv, [Next]_vars
  PROVE  Silent \/ Cancels \/ Tells
<1> USE DEF userVars
<1>1. StageInv /\ ControlOK
  BY DEF ControlInv
<1>2. stage # "over" => sent = << >>
  BY <1>1 DEF StageInv
<1>3. CASE SrcOpened
  BY <1>2, <1>3, SendSteps DEF SrcOpened, GiveUp, Silent
<1>4. CASE Statted
  <2>1. Throw => Silent
    BY DEF Throw, Silent
  <2> QED BY <1>2, <1>4, <2>1, SendSteps DEF Statted, GiveUp, Silent
<1>5. CASE DstOpened
  BY <1>2, <1>5, SendSteps DEF DstOpened, GiveUp, Silent
<1>6. CASE ModeSet
  BY <1>6 DEF ModeSet, Silent
<1>7. CASE TimesSet
  <2>1. hadError /\ ~failed /\ sent = << >> /\ UNCHANGED <<hadError, failed, onDestroy>>
    BY <1>1, <1>2, <1>7 DEF TimesSet, StageInv, endVars
  <2>2. UNCHANGED sent \/ Send("end")
    BY <1>7 DEF TimesSet, CloseHandles, Report
  <2> QED BY <2>1, <2>2, SendSteps DEF Silent
<1>8. ASSUME NEW s \in Sides, Closed(s) PROVE Silent \/ Tells
  <2>1. hadError /\ sent = << >> /\ UNCHANGED <<hadError, failed, onDestroy>>
    BY <1>1, <1>2, <1>8 DEF Closed, StageInv, endVars
  <2>2. UNCHANGED sent \/ Send(IF failed THEN "err" ELSE "end")
    BY <1>8 DEF Closed, Report
  <2> QED BY <1>1, <2>1, <2>2, SendSteps DEF Silent
<1>9. ASSUME NEW op \in ops, ReadDone(op) \/ WriteDone(op) PROVE Silent \/ Tells
  <2>1. onDestroy' = onDestroy
    BY <1>9 DEF ReadDone, WriteDone
  <2>2. UNCHANGED sent \/ (~Over /\ \E bad \in BOOLEAN : Finish(bad))
    BY <1>9 DEF ReadDone, WriteDone
  <2>3. ~Over => sent = << >>
    BY <1>1, <1>2 DEF StageInv, Over
  <2> QED BY <2>1, <2>2, <2>3, FinishTells DEF Silent
<1>10. ASSUME NEW op \in ops, PauseTimer(op) PROVE Silent
  BY <1>10 DEF PauseTimer, Silent
<1>11. CASE Pause \/ Resume \/ Kill \/ ChannelCloses
  BY <1>11 DEF Pause, Resume, Kill, ChannelCloses, Silent
<1>12. CASE Destroy
  BY <1>12 DEF Destroy, Cancels
<1>13. CASE UNCHANGED vars
  BY <1>13 DEF vars, Silent
<1> QED
  BY <1>3, <1>4, <1>5, <1>6, <1>7, <1>8, <1>9, <1>10, <1>11, <1>12, <1>13 DEF Next, Callback

LEMMA CopyStep == IInv /\ IInv' /\ [Next]_vars => [Copy!Next]_(Copy!vars)
<1> SUFFICES ASSUME IInv, IInv', [Next]_vars PROVE [Copy!Next]_(Copy!vars)
  OBVIOUS
<1>1. DataInv /\ ControlInv /\ Untouched
  BY DEF IInv, ControlInv, StageInv, Untouched
<1>2. DOMAIN out' = DOMAIN out /\ Placed \subseteq Placed' /\ Placed' \subseteq DOMAIN out
  BY <1>1, PlacedGrows
<1>3. CASE Silent
  <2>1. \E some \in SUBSET (DOMAIN out \ Placed) : Placed' = Placed \cup some
    <3>1. /\ Placed' \ Placed \in SUBSET (DOMAIN out \ Placed)
          /\ Placed' = Placed \cup (Placed' \ Placed)
      BY <1>2
    <3> QED BY <3>1
  <2>2. Copy!Arrive
    BY <1>2, <1>3, <2>1 DEF Copy!Arrive, Silent
  <2> QED BY <2>2 DEF Copy!Next
<1>4. CASE Cancels
  <2>1. Copy!Cancel
    BY <1>4 DEF Copy!Cancel, Cancels, Placed
  <2> QED BY <2>1 DEF Copy!Next
<1>5. CASE Tells
  <2>1. sent' = <<"end">> => Placed' = DOMAIN out
    BY <1>2, <1>5 DEF Tells, IInv, Complete
  <2>2. Copy!Tell("err") \/ Copy!Tell("end")
    BY <1>2, <1>5, <2>1 DEF Copy!Tell, Tells
  <2> QED BY <2>2 DEF Copy!Next
<1> QED BY <1>1, <1>3, <1>4, <1>5, TellSteps

(* Whatever the sizes, the number of requests, the order of the callbacks, *)
(* the failures and the user's calls, the transfer is a FileCopy: what was *)
(* copied stays, the client is told once, and of success only when every   *)
(* unit of the source is in its place.                                     *)
THEOREM CopiesAsFileCopy == Spec => ImplementsFileCopy
<1>1. Init => Copy!Init
  BY NothingPlaced DEF Init, Copy!Init
<1> QED BY <1>1, Inductive, CopyStep, PTL DEF Spec, ImplementsFileCopy, Copy!Spec
=============================================================================
