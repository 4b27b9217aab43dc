--------------------------- MODULE TransferEngine ---------------------------
(***************************************************************************)
(* One file transfer of a session process (class Transfer of               *)
(* src/app/server/transfer.js, its fastXfer path): the source is read in   *)
(* chunks by several requests at once into one buffer, each chunk is       *)
(* written when it has been read, and a request that is done takes the     *)
(* next chunk.  Every callback of fs or of the sftp client is an action;   *)
(* callbacks come in any order, reads may be short, anything may fail, and *)
(* the user pauses, resumes or cancels at any time.  A unit of data is     *)
(* known by its offset in the source.                                      *)
(***************************************************************************)
EXTENDS Integers, Sequences, FiniteSets

CONSTANTS
  FileSizes,    \* the sizes that sources may have
  ChunkSize,    \* options.chunkSize, 32768 by default
  Concurrency,  \* options.concurrency, 64 by default
  None          \* nothing read, nothing written

Sides == {"src", "dst"}

ASSUME SizesAssumption ==
  /\ FileSizes \subseteq Nat /\ ChunkSize \in Nat \ {0} /\ Concurrency \in Nat \ {0}
ASSUME NoneAssumption == None \notin Int

VARIABLES
  fsize,      \* attrs.size, the size of the source
  sftp,       \* the remote side: "src" when downloading, "dst" when uploading
  hasMode,    \* options.mode is given
  stage,      \* the callback that the transfer as a whole waits for
  ops,        \* the chunks' requests under way
  pdst,       \* where the next chunk starts
  total,      \* units written
  buf,        \* readbuf: the source offset of each unit in it
  out,        \* the destination file: the source offset of each unit in it
  hadError,   \* the copy is over, by an error or by success (hadError)
  failed,     \* it is over by an error
  ref,        \* srcHandle and dstHandle: "unset", "set"
  recorded,   \* the sides whose handle was ever set
  opens,      \* sides that were opened
  closing,    \* sides that onerror() will close or is closing
  closes,     \* close() calls for each side
  pausing,
  onDestroy,  \* destroy() was called
  killed,     \* and kill() ran: src and dst are null
  channel,    \* the sftp channel: "open" or "closed"
  sent,       \* 'transfer:end' and 'transfer:err' messages sent to the client
  crashed     \* an uncaught exception, which ends the whole session process

optionVars == <<fsize, sftp, hasMode>>
copyVars == <<optionVars, ops, pdst, total, buf, out>>
endVars == <<hadError, failed>>
handleVars == <<ref, recorded, opens, closing, closes>>
userVars == <<pausing, onDestroy, killed>>
vars == <<stage, copyVars, endVars, handleVars, userVars, channel, sent, crashed>>

(* The buffer is shrunk to whole chunks that the file fills, or to the     *)
(* file when it is smaller than one chunk.                                 *)
Width ==
  IF fsize < ChunkSize THEN 1
  ELSE IF fsize < ChunkSize * Concurrency THEN fsize \div ChunkSize
  ELSE Concurrency
BufSize == IF fsize < ChunkSize THEN fsize ELSE Width * ChunkSize

Stages == {"srcOpen", "fstat", "stat", "dstOpen", "fchmod", "copy", "futimes",
           "close", "over"}

Request == [kind : {"read", "write", "paused"}, slot : Nat, pos : Nat, len : Nat, n : Nat]

TypeOK ==
  /\ fsize \in FileSizes /\ sftp \in Sides /\ hasMode \in BOOLEAN
  /\ stage \in Stages
  /\ ops \subseteq Request
  /\ pdst \in 0 .. fsize
  /\ total \in 0 .. fsize
  /\ buf \in [0 .. BufSize - 1 -> Int \cup {None}]
  /\ out \in [0 .. fsize - 1 -> Int \cup {None}]
  /\ hadError \in BOOLEAN /\ failed \in BOOLEAN
  /\ ref \in [Sides -> {"unset", "set"}]
  /\ recorded \subseteq Sides /\ opens \subseteq Sides /\ closing \subseteq Sides
  /\ closes \in [Sides -> Nat]
  /\ pausing \in BOOLEAN /\ onDestroy \in BOOLEAN /\ killed \in BOOLEAN
  /\ channel \in {"open", "closed"}
  /\ sent \in Seq({"end", "err"})
  /\ crashed \in BOOLEAN

Init ==
  /\ fsize \in FileSizes /\ sftp \in Sides /\ hasMode \in BOOLEAN
  /\ stage = "srcOpen"
  /\ ops = {} /\ pdst = 0 /\ total = 0
  /\ buf = [i \in 0 .. BufSize - 1 |-> None]
  /\ out = [i \in 0 .. fsize - 1 |-> None]
  /\ hadError = FALSE /\ failed = FALSE
  /\ ref = [s \in Sides |-> "unset"]
  /\ recorded = {} /\ opens = {} /\ closing = {}
  /\ closes = [s \in Sides |-> 0]
  /\ pausing = FALSE /\ onDestroy = FALSE /\ killed = FALSE
  /\ channel = "open"
  /\ sent = << >>
  /\ crashed = FALSE

-----------------------------------------------------------------------------
(* What a side can still do: the local file system always works, the       *)
(* remote one while its channel is open.                                   *)
Reachable(s) == s # sftp \/ channel = "open"

(* onEnd and onError: destroy() has set ws to null.                        *)
Send(m) == sent' = IF onDestroy THEN sent ELSE Append(sent, m)

(* An error before the copy: report it.  The handles that are open stay so *)
(* until the client, told of the error, closes the transfer.               *)
GiveUp ==
  /\ Send("err")
  /\ stage' = "over"

Throw ==
  /\ crashed' = TRUE
  /\ UNCHANGED <<stage, copyVars, endVars, handleVars, userVars, channel, sent>>

(* th.srcHandle and th.dstHandle once the side was opened                  *)
Record(s) ==
  /\ ref' = [ref EXCEPT ![s] = "set"]
  /\ recorded' = recorded \cup {s}

-----------------------------------------------------------------------------
(* onSrcOpen.  A handle that arrives after destroy() is dropped, open.     *)
SrcOpened ==
  /\ stage = "srcOpen"
  /\ \/ /\ Reachable("src")
        /\ opens' = opens \cup {"src"}
        /\ \/ /\ onDestroy
              /\ stage' = "over"
              /\ UNCHANGED <<ref, recorded>>
           \/ /\ ~onDestroy
              /\ Record("src")
              /\ stage' = "fstat"
        /\ UNCHANGED sent
     \/ GiveUp /\ UNCHANGED <<ref, recorded, opens>>
  /\ UNCHANGED <<copyVars, endVars, closing, closes, userVars, channel, crashed>>

(* tryStat, also called by the callback of stat(), which is tried when an  *)
(* sftp server knows no fstat().  It does not look at onDestroy: after     *)
(* kill() src and dst are null and it throws.                              *)
Statted ==
  /\ stage \in {"fstat", "stat"}
  /\ \/ killed /\ Throw
     \/ /\ ~killed
        /\ \/ Reachable("src") /\ stage' = "dstOpen" /\ UNCHANGED sent
           \/ stage = "fstat" /\ sftp = "src" /\ stage' = "stat" /\ UNCHANGED sent
           \/ (stage = "stat" \/ sftp = "dst") /\ GiveUp
        /\ UNCHANGED <<copyVars, endVars, handleVars, userVars, channel, crashed>>
     \/ /\ killed /\ stage = "stat"   \* stat() failed too: onError, no throw
        /\ GiveUp
        /\ UNCHANGED <<copyVars, endVars, handleVars, userVars, channel, crashed>>

-----------------------------------------------------------------------------
\* mutant of Chunk: the last chunk is not cut at the end of the file
Chunk_uncut(pos) == ChunkSize

Chunk(pos) == IF pos + ChunkSize > fsize THEN fsize - pos ELSE ChunkSize

(* singleRead: nothing once the copy is over or destroyed, a timer while   *)
(* it pauses, else a read.                                                 *)
Issue(slot, pos, len) ==
  IF onDestroy \/ hadError THEN {}
  ELSE {[kind |-> IF pausing THEN "paused" ELSE "read",
         slot |-> slot, pos |-> pos, len |-> len, n |-> 0]}

FirstRequests ==
  UNION {Issue(i * ChunkSize, i * ChunkSize, Chunk(i * ChunkSize)) : i \in 0 .. Width - 1}

StartReads ==
  /\ ops' = FirstRequests
  /\ pdst' = BufSize
  /\ stage' = "copy"

(* onerror's handles: the ones it can close, by the state of their channel *)
CanClose == {s \in Sides : ref[s] = "set" /\ Reachable(s)}

Report(bad) == Send(IF bad THEN "err" ELSE "end")

(* closeHandles.  A handle that kill() has taken away meanwhile makes      *)
(* close() throw.                                                          *)
CloseHandles(bad, sides) ==
  /\ closing' = sides
  /\ \/ /\ sides = {}
        /\ Report(bad)
        /\ stage' = "over"
        /\ UNCHANGED <<closes, crashed>>
     \/ /\ sides # {} /\ \A s \in sides : ref[s] = "set"
        /\ closes' = [s \in Sides |-> IF s \in sides THEN closes[s] + 1 ELSE closes[s]]
        /\ stage' = "close"
        /\ UNCHANGED <<sent, crashed>>
     \/ /\ \E s \in sides : ref[s] # "set"
        /\ crashed' = TRUE
        /\ UNCHANGED <<closes, stage, sent>>

(* onerror(err) and, when all is copied, onerror(): a destination that was *)
(* written gets the source's time first.                                   *)
Finish(bad) ==
  /\ hadError' = TRUE
  /\ failed' = bad
  /\ \/ /\ ~bad /\ "dst" \in CanClose
        /\ stage' = "futimes"
        /\ closing' = CanClose
        /\ UNCHANGED <<closes, sent, crashed>>
     \/ /\ bad \/ "dst" \notin CanClose
        /\ CloseHandles(bad, CanClose)

(* onDstOpen.  An empty file is complete at once.                          *)
DstOpened ==
  /\ stage = "dstOpen"
  /\ \/ /\ GiveUp
        /\ UNCHANGED <<copyVars, endVars, ref, recorded, opens, closing>>
     \/ /\ Reachable("dst") /\ onDestroy
        /\ opens' = opens \cup {"dst"}
        /\ stage' = "over"
        /\ UNCHANGED <<copyVars, endVars, ref, recorded, closing, sent>>
     \/ /\ Reachable("dst") /\ ~onDestroy
        /\ opens' = opens \cup {"dst"}
        /\ Record("dst")
        /\ \/ /\ fsize = 0
              /\ hadError' = TRUE /\ failed' = FALSE
              /\ closing' = {s \in Sides : Reachable(s)}
              /\ stage' = "futimes"
              /\ UNCHANGED <<copyVars, sent>>
           \/ /\ fsize > 0     \* no memory for the buffer
              /\ GiveUp
              /\ UNCHANGED <<copyVars, endVars, closing>>
           \/ /\ fsize > 0 /\ hasMode
              /\ stage' = "fchmod"
              /\ UNCHANGED <<copyVars, endVars, closing, sent>>
           \/ /\ fsize > 0 /\ ~hasMode
              /\ StartReads
              /\ UNCHANGED <<optionVars, total, buf, out, endVars, closing, sent>>
  /\ UNCHANGED <<closes, userVars, channel, crashed>>

(* tryAgain: chmod() is tried when fchmod() fails, its own failure is      *)
(* ignored.                                                                *)
ModeSet ==
  /\ stage = "fchmod"
  /\ StartReads
  /\ UNCHANGED <<optionVars, total, buf, out, endVars, handleVars, userVars, channel, sent, crashed>>

-----------------------------------------------------------------------------
\* mutant of Refill: the next chunk is taken without its start being moved on
Refill_pdstKept(op) ==
  /\ ops' = (ops \ {op}) \cup Issue(op.slot, pdst, Chunk(pdst))
  /\ pdst' = pdst

Refill(op) ==
  /\ ops' = (ops \ {op}) \cup Issue(op.slot, pdst, Chunk(pdst))
  /\ pdst' = pdst + Chunk(pdst)

\* mutant of Continue: a short read is taken for the whole chunk
Continue_dropped(op) == ops' = ops \ {op}

Continue(op) ==
  ops' = (ops \ {op}) \cup Issue(op.slot, op.pos + op.n, op.len - op.n)

\* mutant of WriteBegins: a fresh read is issued before the write is done
WriteBegins_eager(op, k) ==
  ops' = (ops \ {op}) \cup {[op EXCEPT !.kind = "write", !.n = k]}
                      \cup (IF pdst < fsize THEN Issue(op.slot, pdst, Chunk(pdst)) ELSE {})

WriteBegins(op, k) == ops' = (ops \ {op}) \cup {[op EXCEPT !.kind = "write", !.n = k]}

Over == hadError

\* mutant of AllWritten: the last chunk was handed out
AllWritten_handedOut == pdst >= fsize

AllWritten == total' = fsize

(* onread: k units came.  The source still has fsize units.             *)
ReadDone(op) ==
  /\ op.kind = "read"
  /\ \/ /\ Over \/ onDestroy
        /\ ops' = ops \ {op}
        /\ UNCHANGED <<stage, buf, endVars, closing, closes, sent, crashed>>
     \/ /\ ~Over
        /\ Finish(TRUE)
        /\ ops' = ops \ {op}
        /\ UNCHANGED buf
     \/ /\ ~Over /\ ~onDestroy /\ Reachable("src")
        /\ \E k \in 1 .. op.len :
             /\ buf' = [i \in DOMAIN buf |->
                          IF i \in op.slot .. op.slot + k - 1 THEN op.pos + i - op.slot
                          ELSE buf[i]]
             /\ WriteBegins(op, k)
        /\ UNCHANGED <<stage, endVars, closing, closes, sent, crashed>>
  /\ UNCHANGED <<optionVars, pdst, total, out, ref, recorded, opens, userVars, channel>>

(* writeCb.                                                                *)
WriteDone(op) ==
  /\ op.kind = "write"
  /\ \/ /\ Over
        /\ ops' = ops \ {op}
        /\ UNCHANGED <<stage, pdst, total, out, endVars, closing, closes, sent, crashed>>
     \/ /\ ~Over
        /\ Finish(TRUE)
        /\ ops' = ops \ {op}
        /\ UNCHANGED <<pdst, total, out>>
     \/ /\ ~Over /\ Reachable("dst")
        /\ out' = [i \in DOMAIN out |->
                     IF i \in op.pos .. op.pos + op.n - 1 THEN buf[op.slot + i - op.pos]
                     ELSE out[i]]
        /\ total' = total + op.n
        /\ \/ /\ op.n < op.len
              /\ Continue(op)
              /\ UNCHANGED <<stage, pdst, endVars, closing, closes, sent, crashed>>
           \/ /\ op.n = op.len /\ AllWritten
              /\ Finish(FALSE)
              /\ ops' = ops \ {op}
              /\ UNCHANGED pdst
           \/ /\ op.n = op.len /\ ~AllWritten /\ pdst >= fsize
              /\ ops' = ops \ {op}
              /\ UNCHANGED <<stage, pdst, endVars, closing, closes, sent, crashed>>
           \/ /\ op.n = op.len /\ ~AllWritten /\ pdst < fsize
              /\ Refill(op)
              /\ UNCHANGED <<stage, endVars, closing, closes, sent, crashed>>
  /\ UNCHANGED <<optionVars, buf, ref, recorded, opens, userVars, channel>>

(* The timer of a paused chunk: it pauses again or reads.                  *)
PauseTimer(op) ==
  /\ op.kind = "paused"
  /\ ops' = (ops \ {op}) \cup Issue(op.slot, op.pos, op.len)
  /\ UNCHANGED <<optionVars, stage, pdst, total, buf, out, endVars, handleVars, userVars, channel,
                 sent, crashed>>

-----------------------------------------------------------------------------
(* The callback of futimes(), or of utimes() when that failed.             *)
TimesSet ==
  /\ stage = "futimes"
  /\ CloseHandles(FALSE, closing)
  /\ UNCHANGED <<copyVars, endVars, ref, recorded, opens, userVars, channel>>

\* mutant of Forget: the handle is kept after its close()
Forget_kept(s) == ref' = ref

Forget(s) == ref' = [ref EXCEPT ![s] = "unset"]

(* The callback of close(), also with an error.                            *)
Closed(s) ==
  /\ stage = "close" /\ s \in closing
  /\ Forget(s)
  /\ closing' = closing \ {s}
  /\ \/ closing' # {} /\ UNCHANGED <<stage, sent>>
     \/ closing' = {} /\ Report(failed) /\ stage' = "over"
  /\ UNCHANGED <<copyVars, endVars, recorded, opens, closes, userVars, channel, crashed>>

-----------------------------------------------------------------------------
Pause ==
  /\ ~onDestroy /\ ~pausing
  /\ pausing' = TRUE
  /\ UNCHANGED <<stage, copyVars, endVars, handleVars, onDestroy, killed, channel, sent, crashed>>

Resume ==
  /\ ~onDestroy /\ pausing
  /\ pausing' = FALSE
  /\ UNCHANGED <<stage, copyVars, endVars, handleVars, onDestroy, killed, channel, sent, crashed>>

(* destroy: by the user, or because the client closed the transfer's       *)
(* WebSocket, which it does once it was told the result.                   *)
Destroy ==
  /\ ~onDestroy
  /\ onDestroy' = TRUE
  /\ ops' = {op \in ops : op.kind # "paused"}
  /\ UNCHANGED <<optionVars, stage, pdst, total, buf, out, endVars, handleVars, pausing, killed,
                 channel, sent, crashed>>

\* mutant of KillCloses: the source is forgotten without being closed
KillCloses_dstOnly == {"dst"}

KillCloses == Sides

(* kill, 200 ms after destroy: closes what is still open and forgets it.   *)
Kill ==
  /\ onDestroy /\ ~killed
  /\ killed' = TRUE
  /\ closes' = [s \in Sides |-> IF s \in KillCloses /\ ref[s] = "set" THEN closes[s] + 1
                               ELSE closes[s]]
  /\ ref' = [s \in Sides |-> "unset"]
  /\ UNCHANGED <<stage, copyVars, endVars, recorded, opens, closing, pausing, onDestroy,
                 channel, sent, crashed>>

ChannelCloses ==
  /\ channel = "open"
  /\ channel' = "closed"
  /\ UNCHANGED <<stage, copyVars, endVars, handleVars, userVars, sent, crashed>>

-----------------------------------------------------------------------------
(* The callbacks of the operating system and of the sftp client.           *)
Callback ==
  \/ SrcOpened \/ Statted \/ DstOpened \/ ModeSet \/ TimesSet
  \/ \E s \in Sides : Closed(s)
  \/ \E op \in ops : ReadDone(op) \/ WriteDone(op)

(* Once it was told the result the client closes the WebSocket.            *)
ClientCloses == sent # << >> /\ Destroy

Next ==
  /\ ~crashed
  /\ \/ Callback
     \/ \E op \in ops : PauseTimer(op)
     \/ Pause \/ Resume \/ Destroy \/ Kill \/ ChannelCloses

Spec == Init /\ [][Next]_vars

(* Every call of fs and of the sftp client gets its callback, timers fire. *)
(* Reads of at least one unit cannot go on for ever.  Users owe nothing.   *)
Fairness ==
  /\ WF_vars(~crashed /\ Callback)
  /\ WF_vars(~crashed /\ \E op \in ops : PauseTimer(op))
  /\ WF_vars(~crashed /\ ClientCloses)
  /\ WF_vars(~crashed /\ Kill)

FairSpec == Spec /\ Fairness

-----------------------------------------------------------------------------
FileRange(op) == op.pos .. op.pos + op.len - 1
BufferRange(op) == op.slot .. op.slot + op.len - 1

(* Concurrent requests never share a byte of the buffer or of the file,    *)
(* stay inside both and cover no chunk that is still to be handed out.     *)
RequestsApart ==
  \A a \in ops :
    /\ BufferRange(a) \subseteq 0 .. BufSize - 1
    /\ FileRange(a) \subseteq 0 .. pdst - 1
    /\ \A b \in ops \ {a} :
         /\ BufferRange(a) \cap BufferRange(b) = {}
         /\ FileRange(a) \cap FileRange(b) = {}

(* What a write takes from the shared buffer is still what its own read    *)
(* put there.                                                              *)
WritesOwnData ==
  \A op \in ops : op.kind = "write" =>
    \A i \in 0 .. op.n - 1 : buf[op.slot + i] = op.pos + i

(* The transfer is a FileCopy: a unit that reached its place is never lost *)
(* to another request, the client gets one result however many of the      *)
(* concurrent requests fail, and it is told of success only when every     *)
(* unit of the source is in its place: counting units is enough, however   *)
(* short the reads were and in whatever order they came.                   *)
Placed == {i \in DOMAIN out : out[i] = i}

Copy == INSTANCE FileCopy
          WITH source <- DOMAIN out, placed <- Placed, told <- sent, cancelled <- onDestroy

ImplementsFileCopy == Copy!Spec

(* A handle of a transfer that reported its result is not closed a second  *)
(* time by the kill() that follows: the number could be another file's.    *)
ReportedClosesOnce == sent # << >> => \A s \in Sides : closes[s] <= 1

(* Every handle the transfer knows of is closed in the end, also when it   *)
(* gave up half-way, unless the connection or the process ended.           *)
KnownHandlesClosed ==
  sent # << >> \/ onDestroy ~>
    \/ crashed
    \/ channel = "closed"
    \/ \A s \in recorded : closes[s] > 0

(* A transfer that does not stay paused ends with a result or by the       *)
(* user's cancel: no chunk is dropped when it pauses and resumes.          *)
Settles == <>[](~pausing) => <>(sent # << >> \/ onDestroy)
=============================================================================
