# Verification of electerm

TLA+ models of the parts of electerm in which several actors meet: processes, callbacks, sockets,
users, a serial line and a language model. TLC checks them on small instances; TLAPS proves their
invariants, their action properties and the safety part of their refinements for every size. The modules
follow the code in `src/`; `PROJECT.json` maps every definition to the lines it stands for.

## 1. The system

electerm is an Electron terminal and file manager. Five kinds of actors run at the same time:

| actor | code | state it keeps |
|---|---|---|
| client (renderer) | `src/client` | the store (tabs, bookmarks, transfers, chats), open sockets, agent runs |
| main process | `src/app/app.js`, `src/app/lib` | windows, configuration, the database, requests to AI providers |
| server process | `src/app/server/server.js`, `dispatch-center.js`, `session-process.js` | which child serves which tab, ports under assignment |
| session process, one per tab | `src/app/server/session-server.js` and `session-*.js` | the session, its file sessions and transfers, agent commands |
| remote side | ssh, sftp, ftp, vnc, ... | outside |

The client talks to the server process over one "common" WebSocket and to session processes over
their own sockets; the server process forks the session processes and talks to them over IPC; the main
process calls AI providers for the client. Each process is one JavaScript thread: the code between two
awaits cannot be interrupted, and everything hard happens at awaits, callbacks and messages.

### Inventory

| component | state | operations | hard behaviour | what makes it correct |
|---|---|---|---|---|
| session process registry (`session-process.js`) | `activeTerminals`, `lastPort`, `pendingPorts` | `terminal`, `testConnection`, `getPort`, `terminals(pid).*`, clean-up | calls overlap at five awaits; children exit at any time; ports are probed before they are used | a port reaches only its own child; a tab leads to a live child of its own; no process is left behind |
| session server (`session-server.js`, `remote-common.js`, `global-state.js`) | sessions by id, output buffer, `firstWsConnected` | socket routes, IPC messages, clean-up, timers | sockets close in any order; any exception ends the process | sessions end with their sockets, and only then; output keeps its order |
| session types (`session-ssh.js` ...) | connection, channel | connect, run, resize, kill | kill while connecting | each connection is ended once |
| file transfer engine (`transfer.js`) | buffer, counters, handles, flags | open, stat, concurrent reads and writes, pause, resume, cancel, close | up to 64 requests share a buffer; short reads; cancel anywhere | the copy is right when success is reported; one result; handles closed once |
| transfer list of the client (`transfer-queue.jsx`, `transports-action-store.jsx`, `transfer.jsx`) | the list, a queue of updates, transfers being started | add, start, progress, pause all, resume all, cancel all | reactions and timers interleave with a list that may be replaced | every transfer is started or removed; a limit of running ones |
| agent command execution (`agent-command-execution.js`) | running executions, background jobs | run, start, status, cancel | a channel is granted after the cancel; ids come again; late events | what runs can be cancelled; jobs say the truth; a cancel is never a success |
| agent run kernel (`agent-run.js`, `agent-runtime.js`, `agent-verification.js`) | turn counters, tools, evidence, outcome | ask, call tools, approve, verify, recover, stop | the user stops at any await; the model may reply anything | success is backed by evidence, commands one by one, deletions approved, nothing left running |
| agent tools (`agent-tools.js`, `mcp-handler.js`) | tasks known to the client | run, start in background, status | start and stop cross on the way | a stopped run's jobs are cancelled |
| agent queue and approvals (`agent.js`) | one promise chain per terminal, pending approvals | start, stop, confirm, reject | approvals keyed by the provider's call ids, expiring | one task per terminal at a time; an approval reaches its own call |
| client channels (`ws.js`, `fetch-from-server.js`, `sftp.js`) | one-time listeners | send, wait for an answer | the socket closes between question and answer | every question is settled |
| storage (`sqlite.js`, `db.js`) | rows, locked rows | find, insert, update, remove | encrypted rows that cannot be read | a locked row is never overwritten |
| migration (`migrate-1-to-2.js`, `upgrade/`) | old and new tables | copy, rename | a crash between copy and rename, then edits | no record is lost or reverted |
| known hosts (`ssh-known-hosts.js`) | one file | look up, replace | several processes edit one file | a changed key is noticed; no entry is lost |
| data sync (`sync.js`) | whole sets, last sync time | upload, download | two machines, edits during a download | what one machine added is not lost by another's upload |
| xmodem sessions (`xmodem.js`) | block number, offset, retries, one timer | send, receive, cancel | lost, damaged and repeated packets and answers | what is stored is the file; the session ends by itself |
| zmodem and trzsz sessions (`zmodem.js`, `trzsz.js`) | the state of a library | take and give back the terminal's data | | |
| tunnels, proxies, remote desktops, widgets, windows, user interface | little or none | | | |

`PROJECT.json` lists every component with what is modelled or why it is not, and under `hazards`
what can go wrong at which line.

## 2. The modules

### SessionProcess

The registry with its children, their clients, foreign programs that hold ports, and the death of the
server process itself. A call of `terminal()` or `testConnection()` is a *request*; it forks at most
one child, so that the child carries its name. `phase` says at which await the request stands.

| code | actions |
|---|---|
| `getPort` up to `findFreePort` | `StartRequest` |
| `find-free-port` answering | `ProbeBusy` (go on), `ProbeFree` (take the port and fork) |
| `session-server.js` `runServer`, `uncaughtException` | `ChildListens`, `ChildListenFails` |
| `process.on('message')` | `ChildAnswersCreate`, `ChildAnswersCall` |
| socket routes, `onClose`, `noConnectionTimer`, `disconnect`, `cleanup` | `ClientJoins`, `ChildCloses`, `ChildIdleTimeout`, `ChildDisconnected`, `ChildExits` |
| the rest of `terminal()`, `testConnection()` | `HandleInited`, `HandleCreated`, `HandleRefused`, `HandleExit` |
| `cleanupTerminals`, a crash of either side | `ParentStops`, `ParentCrashes`, `ChildCrashes` |
| `sendMsgToChildProcess` | `StartCall`, `Hears` |

The model keeps behaviour that a reader may not expect and that no text of the repository denies: a
child that exits before it listens leaves its caller waiting for ever, a refused connection test
leaves its child to the two-minute timer, and an ftp tab's child is ended by that timer even when used.

### SessionChild and SessionServer

`SessionChild` is what a session process promises to the server process and to the machine: it goes
through the life none, starting, up, closing, gone once, is joined only while it serves, and ends when its
parent is gone, when no client comes, and when it has begun to close. Two modules implement it. In
`SessionProcess` every child does (`ChildrenKeepPromise`, one instance per request); in `SessionServer` the
process seen from inside does (`ImplementsSessionChild`).

`SessionServer` has the terminal's route with its output (`Prints`, `FlushTimer`, `InBand`,
`TerminalCloses`), the file route (`FileNew`, `FileCall`, `Connected`, `FileDestroy`, `FileCloses`), the transfer
route (`TransferNew`, `TransferCall`, `TransferDestroy`, `TransferCloses`) and the ends of the process
(`Uncaught`, `Disconnected`, `IdleTimeout`, `Exits`, `Crashes`). `stored` is the session map of `global-state.js`,
`channel` what a file session holds. `Kill` and `Cleanup` are the functions of the same names. A chunk of
output is its number; `shown` is what went to the tab, `taken` what an in-band session took. Messages
of one socket keep their order, those of different sockets do not; a socket that this side closed
still delivers what was under way. As in the code, a call on a session that is gone is never answered, and
the two-minute timer looks at the terminal's socket alone.

### TransferEngine and FileCopy

One `Transfer` on its `fastXfer` path, one action per callback (`SrcOpened`, `Statted`, `DstOpened`,
`ModeSet`, `ReadDone`, `WriteDone`, `TimesSet`, `Closed`, ...), the 2-ms timers of paused requests, and the
user's `Pause`, `Resume`, `Destroy` and `Kill`. A unit of data is its offset in the source, so
that `buf` and `out` say where each unit came from. Size, direction and mode are chosen in the
initial state. Left out: the scp paths (a library), a source that shrinks and partial writes of `fs.write`
(both are noted with the hazard of counting to the end), and that `futimes` is also skipped for a source without a
time (`transfer.js:253`), which changes nothing that a property sees. `crashed` stands for the exception that a
stat answer raises after
`kill()`: the code has it, and the liveness properties are stated around it.

`FileCopy` is what the client is promised: units arrive at their places and stay, one message tells
the end, "end" is told of a complete copy only, and nothing is told once the client has cancelled.
`ImplementsFileCopy` maps `out` to the units in place and the messages to what was told.

### TransferQueue

The client's list of transfers: the store's list with its bulk operations (`Add`, `PauseAll`, `ResumeAll`,
`CancelAll`, `Drop`, `ItemButton`), the queue of single updates (`Process`, `ApplyStart`), the control that
starts waiting items up to a limit (`Control`, which runs in each `Render`), and the life of an item's
component (`stage`; `StatDone`, `CheckDone`, `Decide`, `Opened`, `CopyEnds`). React shows a change some time
after it was made, in one commit: `shown` is the state of the last commit, and everything the code decides
from props is decided from `shown`. `worker = "stuck"` is the queue whose start update lost its list.

### Xmodem

One XMODEM session in either direction, the serial line, which loses and damages, and a device that keeps
to the protocol but repeats itself, gives up or is switched off. Packets end with a CRC or a checksum: a device
that receives says which by its request ("C" or NAK) and may change to NAK after a "C" that was not answered, a
device that sends uses the one or the other whatever it is asked for, and `useCrc` is what electerm takes or makes.
A checksum packet is too short for electerm's parser; `buffered` says that such a beginning waits for more
bytes. Blocks are numbered modulo `Modulus`, 256 in the code, and more than 2 by `SizesAssumption`: with two
numbers the block after the next one looks like the one before. Data is counted in units of a block.

`slips` is a history variable: it records which of five things that the code is known to do wrong (see
Findings) has happened, so that the properties can say exactly where they stop:

| slip | what happened |
|---|---|
| `rewound` | a last block that is not full was taken back by a whole packet |
| `early` | a timer announced the end, where the last packet should have been sent again |
| `doubled` | a packet was sent again while it, or the answer to it, was still under way: a second request, a NAK, was heard as a refusal |
| `unsaved` | a block came before the path and was acknowledged |
| `misread` | data was read for control characters |

### AgentExecution

Executions and background jobs of one session. `registry` is `executions`, `jobs` is the insertion-
ordered `backgroundJobs` with its limit. An ssh session is granted its channel after the request
(`ChannelComes`), a local one has its process at once. Timers, cancels, errors and closes come in any
order and also after the command was settled.

### AgentRun

`createAgentRun` with the tools that own commands, composed with the session's process at the other
end of an ordered channel (`link`): `ProcessStarts`, `ProcessCancels` and `CommandEnds` are the part of
`agent-command-execution.js` that a run can observe. `pc` names the await at which the kernel stands;
`pc = "calls"` is the loop over the tool calls of a reply. The model's replies are an arbitrary choice
from `Replies`; the verifier's verdict cites any calls. `external` is the user's stop (`abortRef.current`),
`aborted` the controller's signal, set by the 50-ms timer (`AbortSeen`). A tool that was under way when the run
stopped goes on and its answer arrives late (`LateStart`). An answer goes to the request it belongs to
(`IsAwaited`), as `sendMsgToChildProcess` compares the ids of messages: what the process says of an older
command that had the same call id reaches nobody. A request that the process refuses (`answer = "refused"`) is
never answered, and the client gives any request up after 120 seconds (`promise-timeout.js`), answered or not
(`GivesUp`, and `LateGivesUp` when the run is over or told to stop): then `answer` is "lost", the client has
forgotten the task of a start and removed the abort listener of a command, and what the process may still do is
out of the run's reach. `forgotten` is a history variable that names those commands. `FreshIds` says whether the
provider ever uses a call id
again; nothing in the code makes it so. `dry` is a history variable: the turns without new evidence since
the last one.

`goal` is the task: its kind (`classifyAgentTask`) and whether files are attached. A conversation may be
answered without an observation (`Talk`), and so may a task with attachments that changes and copies
nothing (`Reading`, the scope "attachment" of `validateRunConclusion`); a candidate answer with attachments
goes on to the verifier where one without would be sent back for evidence (`Verdict`).

Classification of commands, prompts, texts and compaction of messages are abstracted: a call carries
its name, the identity of its action, its risk, whether it deletes, whether it is well formed.

## 3. The runs

| run | instance | distinct states | shows |
|---|---|---|---|
| `registry` | 2 requests, 2 tabs, 1 call, ports 1..3 with one foreign | 408 000 | all safety and liveness of the registry; each child implements `SessionChild` |
| `ports_twice` | 2 requests, 4 ports with one foreign | violation | two searches end on one port |
| `tab_twice` | 3 requests for one tab | violation | a late exit removes its successor's entry |
| `session_server` | 1 file session, 2 transfers, 3 chunks of output | 154 000 | nothing open is out of reach, output in order, the process implements `SessionChild` |
| `transfer` | sizes 0, 1, 5, chunk 2, 2 requests, both directions, mode or not | 97 000 | all properties of a transfer; it implements `FileCopy` |
| `transfers` | 3 transfers, 2 of them for one place, 2 clicks | 196 000 | the limit, no place lost or idle, what is over leaves the list |
| `transfers_stuck` | 2 transfers, 1 click | violation | all are cancelled during a start: the queue stops |
| `xmodem` | 0 to 9 units, blocks of 2, numbers modulo 4, either check, 3 faults | 303 000 | the stored file, and that the session ends |
| `xmodem_resend` | the same | violation | a last block is resent with other bytes |
| `execution` | 3 runs, 3 ids, 2 jobs, ssh or local | 689 000 | all properties of executions and jobs |
| `agent` | 3 turns, 5 replies of 7 calls, 2 tasks | 806 000 | all properties of a run |
| `agent_sameid` | 3 turns, two jobs, repeated call ids | violation | a job outlives its run |

**Why the bounds are enough to be interesting.** *registry*: with three ports a search can meet a foreign
port, a pending start, the port of the other child, and wrap around; two requests of one tab or two give
every overlap of two calls; the violation that needs three generations of one tab has a run of its own.
*transfer*: 5 units in chunks of 2 give a full chunk, a last partial one and a refill, size 1 the file
smaller than a chunk, size 0 the empty file; two concurrent requests suffice for every overlap of two.
*execution*: three runs under three ids allow reuse of an id before and after its former holder ended,
and one job more than there is room for. Its runs are taken in order of their numbers, which loses nothing
as they differ in nothing else. *session_server*: one file session is enough because sessions do not touch
each other but through the end of the process; two transfers of it are killed, dropped and closed in any
order; three chunks make one that waits, one that is large and one that comes after the flush. *transfers*:
two transfers compete for one place, a third one needs none; two clicks put a bulk operation and a
single one between an update and its display. *xmodem*: 9 units are five blocks, more than the numbers
modulo 4 can tell apart, with a last block that is not full; three faults use up two retries, and a device that
asks twice in NAK has its
doubled answers. *agent*: a repair, the idle limit and its reset by evidence all fit in three turns with one
repair and two idle turns; of the two tasks one may be answered from its attachments. The code's numbers (2
repairs, 3 idle turns, 32 jobs, 64
requests) are parameters. `MaxTurns` and `MaxCalls`, the calls of one reply, are the only bounds on
behaviour; the code has neither (see Findings).

Deadlock is not checked: every component may come to rest (all requests made, transfer over, run over).

### Fairness

Each live specification asks only for what the run-time system promises.

- `SessionProcess`: a probe that was begun answers, a message that was delivered is handled, a child's own timers fire
  and a closing child exits. No client joins, no call is made, nothing crashes or is stopped by obligation.
- `TransferEngine`: a callback of `fs` or of the sftp client comes (of `ssh2` also after its channel was closed: it
  fails its open requests then), timers fire, the client closes its
  socket after a result. Pausing and cancelling are free; progress is promised only if the transfer does
  not stay paused.
- `SessionServer`: the process listens or fails to, its timers fire, a closed IPC channel is noticed, and a socket
  that this side closed gets its close event. Clients, remote servers and users owe nothing.
- `TransferQueue`: microtasks, the 1-ms timer of a start and React's commits. No file operation has to end.
- `Xmodem`: bytes arrive on both sides and electerm's timers fire; the device, the line's quality and the user
  owe nothing.
- `AgentExecution`: only the timers.
- `AgentRun`: synchronous code goes on, the 50-ms timer fires, the channel to the session delivers, and a start
  that the run has left behind is answered or given up by
  the client's timer. Neither
  the provider, nor a tool, nor the user ever has to answer, and still a stopped run ends (`StopSettles`).

### Findings

1. `getPort` reserves the *start* of its search, not the port it finds; two overlapping searches can end
   on one port, against its comment. `AnsweredPortIsItsOwn` holds nevertheless: the second child fails to
   listen and its caller waits for ever.
2. The `exit` of a replaced child deletes its successor's entry; the next reconnect does not kill the
   successor, and two children serve one tab, against the comment in `terminal()`.
3. A background start that is refused because its id is taken makes the client forget the first job of
   that id, which then runs on after the run is over, against `docs/agent-run-kernel.md`. It needs a
   provider that repeats call ids.
4. When all transfers are cancelled in the millisecond before a start is applied, the queue of updates waits
   for ever for that start to show, against the comment that it "cannot stall" (`transfer-queue.jsx:108`; the
  comment is about the updates of progress and removal, which
stand behind the start that stalls).
5. A last block that is not full is sent again from a whole packet before the end of the file: other bytes under the
   same number, and the end of the file is missing, against the comment "Re-read and resend the same block"
   (`xmodem.js:673`).

Disagreements with a text of the repository that the model has, without a run of their own:

- `docs/agent-run-kernel.md:41` promises at most 30 turns; the loop (`agent-run.js:118`) has no such limit, and
  status requests for a job that runs keep it going.
- `docs/agent-run-kernel.md:34` lets only a conversation do without evidence; `validateRunConclusion`
  (`agent-verification.js:71-74`) also lets a task with attachments. `FinalIsBacked` says what the code does.
- `docs/agent-run-kernel.md:43` and the tool's own text (`agent-tools.js:785`) say that the end of a run cancels
  what it owns; a start whose request was given up after 120 seconds may still be carried out, and
  `mcpRunBackgroundCommand` has deleted its task by then (`mcp-handler.js:795`). `NothingLeftRunning` leaves out
  exactly these (`forgotten`), and the like for a command in the foreground.

Seen while modelling, without a text that says otherwise:

- transfers: a stat answer after a cancel ends the whole session process; a cancel during the final close
  closes a handle twice; an `open()` that succeeds after a cancel is never closed; a pause that comes before
  the transport exists is lost; resuming goes beyond the limit of running transfers.
- session process: a pause, a resume or a new transfer whose file session is gone is an exception that ends
  every session of the process; output that waits for the 10-ms timer is dropped when the session closes; a call
  on a file session that is gone is never answered; an ftp tab's process ends after two minutes though its
  sockets are in use.
- xmodem: the timeout of the last answer sends EOT in place of the packet; a device that asks twice with NAK before
  the first packet reaches it gets that packet twice and acknowledges it twice, so that every later answer comes one
  too early and a lost last packet ends in "complete" on a short file; the receiver asks with NAK, which means a
  checksum, and cannot read packets that end with one; any byte stops the timer for an acknowledgement; a block
  between `start-receive` and `set-save-path` is acknowledged and not written; after a lost header byte data is read
  as control characters;
  only the first of several chosen files is sent.

## 4. The proofs

Each of the seven modules that model code has a module of proofs; all theorems are about `Spec`, fairness
is not needed. Every invariant and every action property that a passing run checks is proved, but for the part of
`DeviceHasTheFile` that holds after a second request was taken for a refusal.

`SessionProcess_proofs` proves for every set of requests, tabs, calls and ports, under `PortsAssumption`
and `NamesAssumption`:

| theorem | statement |
|---|---|
| `TypeCorrect` | `Spec => []TypeOK` |
| `PortsTracked` | `Spec => []PendingMatchesProbes` |
| `RegistryServed` | `Spec => []RegistryIsServed` |
| `PortServed` | `Spec => []AnsweredPortIsItsOwn` |
| `ChildrenLiveAsPromised` | `Spec` implies the initial states and the steps of `SessionChild` for each request |

The inductive invariant `IInv` is the conjunction of `TypeOK`, `StageInv`, `PendingMatchesProbes` and
`RegistryIsServed`. `StageInv` is the strengthening, in four parts: `ChildStages` (a request that has not
forked has no child; a child that has not run has sent nothing and listens on nothing), `ExitedIsGone` (an exit
is handled after the end and the last message of its child), `Listeners` (who listens is alive, on a port no
foreign program and no other child listens on) and `AnnouncedListens` (a child that said `serverInited`
listens until it ends). It is needed because `terminal()` never looks at the port again: what keeps the
answered port its own is that a child only says `serverInited` after `listen` succeeded.
`AnsweredPortIsItsOwn` follows from `StageInv`. The theorem that a step preserves an invariant has one step
per action. `ChildrenLiveAsPromised` is the safety part of `ChildrenKeepPromise`: a step takes each child
along an arrow of its life or leaves it (`LivesStep`), and who joins finds it serving (`JoinsStep`); that a
call forks once, so that no child starts where one was, comes from `StageInv`.

`AgentExecution_proofs` proves for every set of commands and ids and every limit of jobs, under
`RunsAssumption`, `JobsAssumption` and `NoneAssumption`:

| theorem | statement |
|---|---|
| `TypeCorrect` | `Spec => []TypeOK`, with `Len(jobs) <= MaxJobs` |
| `CancelReachesWhatRuns` | `Spec => []RegistryHoldsRunning` |
| `ChannelsAreInterruptedOnce` | `Spec => []InterruptedOnce` |
| `JobStatusIsTrue` | `Spec => []JobsFollowRuns` |
| `StoppedNeverSucceeds` | `Spec => []StoppedIsNoSuccess` |

Here the four properties and `TypeOK` are one inductive invariant with `Stages`, which says what a
command can have done while its promise is in a given state: one that is not settled was not stopped and
has not seen its channel close, and a job names a command that was called. `FinishKeeps` carries the
argument that the first result counts and frees only its own id; `StopKeeps` and `EventKeeps` rest on it.
`EvictForgets` (which needs that a set of numbers has a least one) says that making room touches no job
that stays.

`SessionServer_proofs` proves for every set of file sessions and transfers and any number of chunks, under
`OutputAssumption`:

| theorem | statement |
|---|---|
| `TypeCorrect` | `Spec => []TypeOK` |
| `NothingOutOfReach` | `Spec => []Reachable` |
| `OutputKeepsOrder` | `Spec => []OutputInOrder` |
| `LivesAsSessionChild` | `Spec => Child!Init /\ [][Child!Next]_(Child!vars)` |

`Reachable` is inductive with `TypeOK`: whatever leaves the session map does so in `Kill`, which ends what it
held (`KillKeepsReach`), and `connect()` puts a session back when its channel comes. `OutputInOrder` needs
`FreshTerminal` (nothing is printed before the socket is there) and three facts about sequences: a prefix
of an increasing sequence is increasing, a younger chunk may be appended, and the range of a concatenation.
`LivesAsSessionChild` is the safety part of the refinement; with `ChildrenLiveAsPromised` it says that the
registry's model of a child and the child's own model keep the same promise.

`TransferEngine_proofs` proves for every set of file sizes, every size of a chunk and any number of
concurrent requests, under `SizesAssumption` and `NoneAssumption`:

| theorem | statement |
|---|---|
| `TypeCorrect` | `Spec => []TypeOK` |
| `RequestsKeepApart` | `Spec => []RequestsApart` |
| `WritesTakeTheirOwn` | `Spec => []WritesOwnData` |
| `HandlesCloseOnce` | `Spec => []ReportedClosesOnce` |
| `CopiesAsFileCopy` | `Spec => ImplementsFileCopy`, the whole refinement: `FileCopy` states no fairness |

The inductive invariant has three parts. `DataInv`: every request has one of the buffer's `Width` places and
a piece of the file of its own (`Geometry`, from the arithmetic of `SlotFacts` and `ChunkFacts`), writes
take their own data, and a unit of the destination is missing or right, missing wherever a request is under
way or none has been yet, so that `total` is the number of units in place (`Placement`). `ControlInv`:
requests only run during the copy or after its end is settled, the client is told last (`StageInv`), and a
handle that was closed is forgotten or its `close()` is under way (`HandleInv`). `Complete`: a copy that is
over without an error has every unit in place; it follows from `CountingIsEnough`, a fact about cardinalities.
`StepShapes` reduces a step to what it does to requests and data, one of five shapes, and `ReplaceKeeps` says
which request may take another's place; `TellSteps` does the same for what the client is told.

`TransferQueue_proofs` proves for every set of transfers, every limit and any number of clicks, under
`TransfersAssumption`, `CrossAssumption`, `NoneAssumption` and `LimitAssumption`:

| theorem | statement |
|---|---|
| `TypeCorrect` | `Spec => []TypeOK`, each item is listed once |
| `PlacesAreKept` | `Spec => []PlacesKept` |

The inductive invariant `PlaceInv` adds three parts to `TypeOK`. `Known`: an item whose component works is
shown as started. `Reserved`: a start under way, wherever it is - queued, at the worker, or waiting for the
next commit - is of an item that was mounted and that the control counts, and every place that the control
holds back belongs to one. `Counted`: what the control counts keeps to the limit as long as nothing was
resumed. The limit itself is about what works, and follows because all that works is counted
(`WorkIsCounted`). The bulk operations are loops over the list, written as recursive functions. The prover
has no induction over them; `LoopExists` and `ItemsFacts` get what is needed from the least index at which
a loop would go wrong (`LeastIn`, from the well-foundedness of the numbers).

`Xmodem_proofs` proves for files and blocks of every size, any number of retries, repetitions and faults, and
any `Modulus` greater than 2, under `SizesAssumption`:

| theorem | statement |
|---|---|
| `TypeCorrect` | `Spec => []TypeOK` |
| `DeviceStoresTheFile` | `Spec => []("doubled" \notin slips => DeviceHasTheFile)` |
| `SavedMatchesTheFile` | `Spec => []SavedIsTheFile` |

The inductive invariant `FileInv` has a half for each direction, and each half has a part that always holds and
one that holds until the code slips.

- `SendInv` always has `Unsent` (before the first packet the device has taken nothing), `AtBlock` (where the
  session is in the file) and `Queued`: the packets on the line are in the order of their blocks, none
  before the block behind the one the device waits for. As long as nothing was doubled it adds `OneAtATime`
  (one packet, or one answer to it, is under way), `OnTheLine` (it is the block the device waits for or the
  one before) and `Stored` (the device has the file up to there). An answer carries no block number; it is
  about the right block only because there is never a second one. That is what a second request breaks,
  which is why the theorem stops there: that the device still stores no block out of its place is then
  checked by TLC alone.
- `ReceiveInv` always has `Path` and `Behind` (electerm is at most one block ahead of the device, and the packets
  are in order). Until a block was not saved or data misread it adds `OneWord`, `FromDevice` and `Taken`:
  one word is under way, it is the device's present one, and electerm expects the block the device is at or
  the next, which two neighbouring numbers tell apart (`NumbersDiffer`).

The parts that always hold carry the type invariant: a block number stays within the file because packets are
never out of order (`NotBefore`: a packet with the number of the block that is waited for, which is at most one
block behind, is that block or a later one).

`AgentRun_proofs` proves for every set of calls and replies, with whatever limits of turns, repairs and idle
turns, and for tasks of every kind with and without attachments, under the assumptions of the module:

| theorem | statement |
|---|---|
| `TypeCorrect` | `Spec => []TypeOK` |
| `EachCallAnswered` | `Spec => []ToolsAnswered` |
| `LimitsKept` | `Spec => []WithinLimits` |
| `OverStays` | `Spec => OverIsFinal` |
| `DeletionsWait` | `Spec => DeletesWait` |
| `SuccessIsBacked` | `Spec => []FinalIsBacked` |
| `NothingOutlives` | if `FreshIds`, `Spec => []NothingLeftRunning` |

Each property has an inductive invariant of its own upon that of the ones before.

- `LoopInv` is `TypeOK`, `Counters` (a run that goes on has not used up its limits) and `InOrder` (all tools
  but the last are answered, and the last as `pc` says). The first five theorems of the table but
  `LimitsKept` follow from it.
- `LimitInv` adds `OneByOne` (a second command of a turn is not carried out) and `Counted` (what was begun
  was counted, `actions` keeps to the limit of each action).
- `WatchInv` adds `Watched`, while the run goes on, and `Backed`. A start under way that was not given up is
  awaited, has no answer and is the last message that is not a cancellation (`Awaiting`); so no other answer
  can be taken for its own. And every job at work is either about to be observed, was observed when it was
  begun, with `seen = "running"` whenever the job still runs, or was given up (`JobsKnown`): a verdict that finds no
  unfinished task therefore finds no job at work but those given up (`AllFinished`). This needs nothing of the ids.
- `WorkInv` adds that tools have different ids (`IdsApart`) and, while the run goes on, `Kept`: what is in the
  process or on its way there is there once and of a command of the run (`Traced`), a command that was answered
  has left it (`Settled`), and whatever is at work is reached by an abort, is cancelled already or was given up
  (`Safe(Reached)`). The end of the run sends the cancellations of all that an abort reaches (`ReleasesDoom`), so
  that from then on `Doomed` holds: what is or will be at work was given up or has its cancellation behind it
  (`Safe(forgotten)`).

`FreshIds` is a hypothesis of `NothingOutlives` alone, and cannot be spared: `agent_sameid` (finding 3) is
the counterexample without it.

What stays with TLC: everything that must eventually happen (`CallIsAnswered`, `SessionEnds`,
`EndsReachTheClient`, `KnownHandlesClosed`, the two `Settles`, `NoIdlePlace`, `OverLeaves`, `StopSettles`) and the
fairness that `ChildrenKeepPromise` and `ImplementsSessionChild` promise beyond their proved safety part: the
prover has no ENABLED. So do the violations, which are about one instance.

## 5. Plan

The runs are kept few enough to be checked together in reasonable time; what is added next takes the place of
something weaker.

1. **AgentQueue** (`agent.js`): tasks per terminal, stop before start, approvals by call id.
2. **Migration** (`migrate-1-to-2.js`) with a crash between any two steps; **LockedRows** (`sqlite.js`);
   **KnownHosts** (`ssh-known-hosts.js`).
3. **Channels** (`ws.js`, `fetch-from-server.js`): requests over a socket that closes and comes back.
4. Theorems: a module that takes the place of another brings its own; what is proved now covers every
   invariant and every action property of the runs.

## 6. Not modelled

- `ssh2`, `node-pty`, `basic-ftp`, `zmodem.js`, `trzsz2` and the code that only drives them (session types, ftp and
  scp transfers, zmodem and trzsz sessions, tunnels, proxies, remote desktops): little control of their own.
- Texts and patterns (agent policy, prompts, provider formats): their results are attributes of a call in
  `AgentRun`, chosen freely.
- Storage, store persistence, tabs, bookmarks, windows, widgets and the user interface: single statements,
  sequential updates on user events, rendering. Most of the repository's lines are of this kind, which is why
  the map covers a small share of them.
- The components of the plan above, until their modules are written.
