--------------------------- MODULE AgentExecution ---------------------------
(***************************************************************************)
(* The commands that an AI agent runs in one session                       *)
(* (src/app/server/agent-command-execution.js): each runs on an exec       *)
(* channel or in a process group of its own, under an execution id that    *)
(* the client chose; it can be cancelled by that id, times out, or runs as *)
(* a background job whose status is kept.  The channel of an ssh session   *)
(* is granted later and asynchronously, so that a command may be stopped   *)
(* before it has one.                                                      *)
(***************************************************************************)
EXTENDS Integers, Sequences, FiniteSets, SequencesExt

CONSTANTS
  Runs,     \* the calls of execute(), numbered as they come
  Ids,      \* the execution ids; the client may use one again
  MaxJobs,  \* background jobs that are kept, 32 in the code
  None

ASSUME RunsAssumption == Runs \subseteq Nat
ASSUME JobsAssumption == MaxJobs \in Nat \ {0}
ASSUME NoneAssumption == None \notin Ids \cup Runs

VARIABLES
  ssh,         \* the session is an ssh session, not a local shell
  state,       \* the promise of each run
  key,         \* its execution id
  result,      \* what it resolved to
  stopped,     \* stop() was called
  channel,     \* its exec channel or process
  interrupts,  \* how often that was asked to end
  registry,    \* executions.get(owner): the run that holds each id, or None
  jobs         \* backgroundJobs.get(owner), in the order of insertion

vars == <<ssh, state, key, result, stopped, channel, interrupts, registry, jobs>>

Job == [id : Ids, run : Runs, status : {"running", "completed", "failed", "cancelled"}]

(* Each variable has its type.                                             *)
TypeOK ==
  /\ ssh \in BOOLEAN
  /\ state \in [Runs -> {"new", "rejected", "running", "settled"}]
  /\ key \in [Runs -> Ids \cup {None}]
  /\ result \in [Runs -> {None, "exit", "signal", "error", "cancelled", "timeout"}]
  /\ stopped \in [Runs -> BOOLEAN]
  /\ channel \in [Runs -> {"none", "asked", "refused", "open", "closed"}]
  /\ interrupts \in [Runs -> Nat]
  /\ registry \in [Ids -> Runs \cup {None}]
  /\ jobs \in Seq(Job) /\ Len(jobs) <= MaxJobs

Init ==
  /\ ssh \in BOOLEAN
  /\ state = [r \in Runs |-> "new"]
  /\ key = [r \in Runs |-> None]
  /\ result = [r \in Runs |-> None]
  /\ stopped = [r \in Runs |-> FALSE]
  /\ channel = [r \in Runs |-> "none"]
  /\ interrupts = [r \in Runs |-> 0]
  /\ registry = [i \in Ids |-> None]
  /\ jobs = << >>

-----------------------------------------------------------------------------
\* mutant of JobStatus: the rejection handler is missing
JobStatus_unhandled(res) ==
  CASE res = "cancelled" -> "cancelled"
    [] res = "exit" -> "completed"
    [] res = "error" -> "running"
    [] OTHER -> "failed"

(* The status of a job whose run resolved to res.                          *)
JobStatus(res) ==
  CASE res = "cancelled" -> "cancelled"
    [] res = "exit" -> "completed"
    [] OTHER -> "failed"

Recorded(js, r, res) ==
  [i \in DOMAIN js |->
    IF js[i].run = r THEN [js[i] EXCEPT !.status = JobStatus(res)] ELSE js[i]]

\* mutant of Finish: the id is freed before the check of settled
Finish_freesFirst(r, res) ==
  /\ registry' = [registry EXCEPT ![key[r]] = None]
  /\ IF state[r] # "running" THEN UNCHANGED <<state, result, jobs>>
     ELSE /\ state' = [state EXCEPT ![r] = "settled"]
          /\ result' = [result EXCEPT ![r] = res]
          /\ jobs' = Recorded(jobs, r, res)

(* finish(): the first call counts, later ones do nothing.                 *)
Finish(r, res) ==
  IF state[r] # "running" THEN UNCHANGED <<state, result, registry, jobs>>
  ELSE /\ state' = [state EXCEPT ![r] = "settled"]
       /\ result' = [result EXCEPT ![r] = res]
       /\ registry' = [registry EXCEPT ![key[r]] = None]
       /\ jobs' = Recorded(jobs, r, res)

(* execute() for a run whose job, if it has one, is already in js.  An id  *)
(* that still runs is refused; ssh asks for a channel, which may throw at  *)
(* once; a local shell has its process at once.                            *)
Execute(r, id, js) ==
  /\ state[r] = "new" /\ \A q \in Runs : q < r => state[q] # "new"
  /\ key' = [key EXCEPT ![r] = id]
  /\ \/ /\ registry[id] # None
        /\ state' = [state EXCEPT ![r] = "rejected"]
        /\ jobs' = Recorded(js, r, "error")
        /\ UNCHANGED <<registry, channel, result>>
     \/ /\ registry[id] = None
        /\ state' = [state EXCEPT ![r] = "running"]
        /\ channel' = [channel EXCEPT ![r] = IF ssh THEN "asked" ELSE "open"]
        /\ registry' = [registry EXCEPT ![id] = r]
        /\ jobs' = js
        /\ UNCHANGED result
     \/ /\ registry[id] = None
        /\ state' = [state EXCEPT ![r] = "settled"]
        /\ result' = [result EXCEPT ![r] = "error"]
        /\ channel' = [channel EXCEPT ![r] = "refused"]
        /\ jobs' = Recorded(js, r, "error")
        /\ UNCHANGED registry
  /\ UNCHANGED <<ssh, stopped, interrupts>>

RunForeground(r, id) == Execute(r, id, jobs)

Finished(js) == {i \in DOMAIN js : js[i].status # "running"}

(* At the limit the oldest job that is over is forgotten: the loop stops   *)
(* after one, since the limit was never passed.                            *)
Evict(js) ==
  IF Len(js) < MaxJobs \/ Finished(js) = {} THEN js ELSE RemoveAt(js, Min(Finished(js)))

\* mutant of HasRoom: the limit is not checked
HasRoom_always(js) == TRUE

HasRoom(js) == Len(js) < MaxJobs

HasJob(id) == \E i \in DOMAIN jobs : jobs[i].id = id

(* startBackgroundCommand(): an id that has a job, or a full list, throws, *)
(* the latter after nothing could be forgotten.                            *)
StartBackground(r, id) ==
  /\ ~HasJob(id)
  /\ HasRoom(Evict(jobs))
  /\ Execute(r, id, Append(Evict(jobs), [id |-> id, run |-> r, status |-> "running"]))

-----------------------------------------------------------------------------
\* mutant of Interrupt: a channel that comes after the stop is left open
Interrupt_early(r) ==
  interrupts' = [interrupts EXCEPT ![r] = IF channel[r] = "open" THEN @ + 1 ELSE @]

(* The stop asks the channel to end, if it is there.  setInterrupt() does  *)
(* so when it comes later.                                                 *)
Interrupt(r) ==
  interrupts' = [interrupts EXCEPT ![r] = IF channel'[r] = "open" THEN @ + 1 ELSE @]

(* The callback of client.exec(): a channel, or an error.                  *)
ChannelComes(r) ==
  /\ channel[r] = "asked"
  /\ \/ /\ channel' = [channel EXCEPT ![r] = "open"]
        /\ IF stopped[r] THEN Interrupt(r) ELSE UNCHANGED interrupts
        /\ UNCHANGED <<state, result, registry, jobs>>
     \/ /\ channel' = [channel EXCEPT ![r] = "refused"]
        /\ Finish(r, "error")
        /\ UNCHANGED interrupts
  /\ UNCHANGED <<ssh, key, stopped>>

(* The 'close' event with an exit code, or without one.                    *)
ChannelCloses(r) ==
  /\ channel[r] = "open"
  /\ channel' = [channel EXCEPT ![r] = "closed"]
  /\ \E res \in {"exit", "signal"} : Finish(r, res)
  /\ UNCHANGED <<ssh, key, stopped, interrupts>>

(* The 'error' event; 'close' may still follow.                            *)
ChannelErrs(r) ==
  /\ channel[r] = "open"
  /\ state[r] = "running"
  /\ Finish(r, "error")
  /\ UNCHANGED <<ssh, key, stopped, channel, interrupts>>

\* mutant of Stop: the result is left to the close event
Stop_waits(r, res) ==
  /\ state[r] = "running" /\ ~stopped[r]
  /\ stopped' = [stopped EXCEPT ![r] = TRUE]
  /\ UNCHANGED <<channel, state, result, registry, jobs>>
  /\ Interrupt(r)
  /\ UNCHANGED <<ssh, key>>

(* stop(): the result is settled before the channel is asked to end, so    *)
(* that its close event cannot pass for the end of the command.            *)
Stop(r, res) ==
  /\ state[r] = "running"
  /\ stopped' = [stopped EXCEPT ![r] = TRUE]
  /\ Finish(r, res)
  /\ UNCHANGED channel
  /\ Interrupt(r)
  /\ UNCHANGED <<ssh, key>>

(* cancelCommand(): nothing happens for an id that nobody holds.           *)
Cancel(id) == registry[id] # None /\ Stop(registry[id], "cancelled")

\* mutant of Timeout: the timer starts when the channel is there
Timeout_late(r) == channel[r] = "open" /\ Stop(r, "timeout")

Timeout(r) == Stop(r, "timeout")

Next ==
  \/ \E r \in Runs :
       \/ \E id \in Ids : RunForeground(r, id) \/ StartBackground(r, id)
       \/ ChannelComes(r) \/ ChannelCloses(r) \/ ChannelErrs(r) \/ Timeout(r)
  \/ \E id \in Ids : Cancel(id)

Spec == Init /\ [][Next]_vars

(* Only the timers are sure to come.                                       *)
FairSpec == Spec /\ \A r \in Runs : WF_vars(Timeout(r))

-----------------------------------------------------------------------------
(* An id is held exactly by the run that uses it and is not over: a late   *)
(* event of a run that was cancelled never frees the id of its successor,  *)
(* and cancelling always reaches what runs.                                *)
RegistryHoldsRunning ==
  /\ \A i \in Ids : registry[i] # None => state[registry[i]] = "running" /\ key[registry[i]] = i
  /\ \A r \in Runs : state[r] = "running" => registry[key[r]] = r

(* A stopped command's channel is asked to end exactly once, whether it    *)
(* came before the stop or after; no other channel ever is.                *)
InterruptedOnce ==
  \A r \in Runs :
    interrupts[r] = IF stopped[r] /\ channel[r] \in {"open", "closed"} THEN 1 ELSE 0

(* A job is said to run exactly while its command does.                    *)
JobsFollowRuns ==
  \A i \in DOMAIN jobs : (jobs[i].status = "running") <=> (state[jobs[i].run] = "running")

(* A command that was stopped is never reported as completed, though its   *)
(* channel may close with an exit code afterwards.                         *)
StoppedIsNoSuccess ==
  \A r \in Runs : stopped[r] =>
    /\ result[r] \notin {"exit", "signal"}
    /\ \A i \in DOMAIN jobs : jobs[i].run = r => jobs[i].status # "completed"

(* Every command gets its result, with or without a channel.               *)
Settles == \A r \in Runs : state[r] = "running" ~> state[r] = "settled"
=============================================================================
