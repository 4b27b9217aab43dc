------------------------------ MODULE AgentRun ------------------------------
(***************************************************************************)
(* One run of the AI agent (createAgentRun of                              *)
(* src/client/components/ai/agent-run.js, with the tools of agent-tools.js *)
(* that own commands of a session).  The model is asked for a reply; the   *)
(* tool calls in it are carried out one by one; a reply without calls is   *)
(* a candidate answer, which a second request verifies.  The user may stop *)
(* the run at any time.  What runs between two awaits is one step or, at   *)
(* pc = "calls", a sequence of steps that no callback can interrupt.       *)
(*                                                                         *)
(* Commands run in the session's process, which gets messages over one     *)
(* channel in order (session-api.js, agent-command-execution.js).  A       *)
(* request that it refuses is never answered, and the client gives up any  *)
(* request that is not answered in time (promise-timeout.js), whatever     *)
(* becomes of it in the process.                                           *)
(***************************************************************************)
EXTENDS Integers, Sequences, FiniteSets, SequencesExt

CONSTANTS
  Calls,           \* the tool calls a reply may contain
  Replies,         \* the replies: sequences of calls
  Outputs,         \* the results of commands, as far as they differ
  MaxTurns,        \* bound: replies of the model in one behaviour
  MaxCalls,        \* bound: calls in a reply
  MaxRepairs,      \* MAX_NO_ACTION_REPAIRS, 2 in the code
  MaxIdle,         \* turns without new evidence that end a run, 3 in the code
  Tasks,           \* the tasks a run may be given
  FreshIds,        \* the provider never uses a call id again
  None

Commands == {"send_terminal_command", "run_background_command"}
Monitoring == {"get_background_task_status"}
Names == Commands \cup Monitoring \cup {"sftp_list", "sftp_del"}

ASSUME CallsAssumption ==
  \A c \in Calls :
    /\ c.name \in Names
    /\ c.risk \in {"low", "high"}
    /\ c.deletes \in BOOLEAN /\ c.valid \in BOOLEAN
    /\ c.name = "sftp_del" => c.deletes /\ c.risk = "high"
(* An action is a tool's name with its arguments (actionKey), which the    *)
(* risk depends on.                                                        *)
ASSUME ActionsAssumption ==
  \A c, d \in Calls : c.action = d.action => c.name = d.name /\ c.risk = d.risk
ASSUME RepliesAssumption ==
  Replies \subseteq Seq(Calls) /\ \A r \in Replies : Len(r) <= MaxCalls
ASSUME BoundsAssumption ==
  /\ MaxTurns \in Nat /\ MaxCalls \in Nat
  /\ MaxRepairs \in Nat /\ MaxIdle \in Nat \ {0}
ASSUME FlagsAssumption == FreshIds \in BOOLEAN

(* What classifyAgentTask() makes of a task, and if files are attached.    *)
Kinds == {"conversation", "terminal", "mutation", "transfer"}
ASSUME TasksAssumption == Tasks \subseteq [kind : Kinds, attached : BOOLEAN]

VARIABLES
  goal,        \* the task: its kind, and if files are attached to it
  pc,          \* what the run waits for
  turn,        \* replies asked for (iteration + 1)
  requested,   \* requestedToolChoice === 'required'
  todo,        \* calls of the reply that are still to be handled
  recovered,   \* the calls come from requestRecoveryAction
  handled,     \* commandsHandled > 0
  fresh,       \* newEvidence
  awaiting,    \* awaitingWork
  tools,       \* the tools of the run
  actions,     \* how often each action was started
  repairs,
  noProgress,
  last,        \* lastObservation
  dry,         \* turns since the last new evidence, without those that waited
  runtime,     \* entry.agentRuntime.state
  cited,       \* entry.agentRuntime.evidence: the call ids in it
  response,    \* entry.response
  streaming,   \* entry.streamingResponse is not empty
  streamOpen,  \* the client still reads the model's stream
  external,    \* abortRef.current
  aborted,     \* controller.signal.aborted
  listening,   \* background calls whose abort listener is registered
  known,       \* backgroundTasks of mcp-handler.js
  starting,    \* the background call that waits for its start, or None
  answer,      \* what the session's process answered to the last request
  link,        \* messages on their way to the session's process
  exec,        \* execution ids that run there
  job,         \* its background jobs
  forgotten    \* a history variable: commands whose request the run gave up

loopVars == <<turn, requested, todo, recovered, handled, fresh, awaiting>>
countVars == <<repairs, noProgress, last, dry>>
entryVars == <<runtime, cited, response, streaming, streamOpen>>
stopVars == <<external, aborted>>
workVars == <<listening, known, starting, answer, link, exec, job, forgotten>>
vars == <<goal, pc, loopVars, tools, actions, countVars, entryVars, stopVars, workVars>>

-----------------------------------------------------------------------------
Ids == (0 .. MaxTurns + 1) \X (0 .. MaxCalls)
ASSUME NoneAssumption == None \notin Ids
JobStates == {"none", "running", "completed", "failed", "cancelled"}
Actions == {c.action : c \in Calls}
Final == {"FINAL", "BLOCKED", "CANCELLED"}
Answered == {"completed", "error", "skipped"}

(* A result, as far as it differs from others; results of a running job    *)
(* are all different, since they carry its duration.                       *)
Out == (Outputs \cup JobStates \cup {"", "started", "timeout"}) \X Nat
NoOut == <<"", 0>>

Tool == [id : Ids, turn : Nat, call : Calls,
         status : {"running", "pending_confirm", "cancelled"} \cup Answered,
         executed : BOOLEAN, out : Out,
         usable : BOOLEAN, task : Ids \cup {None}, seen : JobStates]

(* Each variable has its type; the counters keep to the limits that end a  *)
(* run.                                                                    *)
TypeOK ==
  /\ goal \in Tasks
  /\ pc \in {"new", "model", "verify", "recover", "calls", "approval", "tool", "over"}
  /\ turn \in 0 .. MaxTurns + 1 /\ todo \in Seq(Calls)
  /\ \A b \in {requested, recovered, handled, fresh, awaiting, streaming, streamOpen,
               external, aborted} : b \in BOOLEAN
  /\ tools \in Seq(Tool)
  /\ actions \in [Actions -> Nat]
  /\ repairs \in 0 .. MaxRepairs + 1 /\ noProgress \in 0 .. MaxIdle
  /\ last \in Out /\ dry \in Nat
  /\ runtime \in {"UNDERSTANDING", "PLANNING", "EXECUTING", "OBSERVING", "VERIFYING",
                  "AWAITING_APPROVAL"} \cup Final
  /\ cited \subseteq Ids
  /\ response \in {"none", "answer", "unfinished", "stopped"}
  /\ listening \subseteq Ids /\ known \subseteq Ids /\ exec \subseteq Ids
  /\ forgotten \subseteq Ids
  /\ starting \in Ids \cup {None}
  /\ answer \in {"none", "started", "ended", "refused", "lost"}
  /\ link \in Seq([op : {"run", "start", "cancel"}, id : Ids])
  /\ job \in [Ids -> JobStates]

Init ==
  /\ goal \in Tasks
  /\ pc = "new" /\ turn = 0 /\ todo = << >> /\ tools = << >>
  /\ requested = FALSE /\ recovered = FALSE /\ handled = FALSE
  /\ fresh = FALSE /\ awaiting = FALSE
  /\ actions = [a \in Actions |-> 0]
  /\ repairs = 0 /\ noProgress = 0 /\ last = NoOut /\ dry = 0
  /\ runtime = "UNDERSTANDING" /\ cited = {} /\ response = "none"
  /\ streaming = FALSE /\ streamOpen = FALSE /\ external = FALSE /\ aborted = FALSE
  /\ listening = {} /\ known = {} /\ starting = None /\ answer = "none"
  /\ link = << >> /\ exec = {} /\ job = [i \in Ids |-> "none"]
  /\ forgotten = {}

-----------------------------------------------------------------------------
(* transitionAgentRuntime(): a final state is left only by CANCEL.         *)
Moved(state) == IF runtime \in Final /\ state # "CANCELLED" THEN runtime ELSE state

Current == tools[Len(tools)]

(* What the abort listeners send: background calls cancel their task if    *)
(* the client still knows it, a command that is awaited cancels itself,    *)
(* unless its request was given up, which removes its listener.            *)
Cancels(ids) ==
  LET own == IF pc = "tool" /\ Current.call.name = "send_terminal_command" /\ answer # "lost"
             THEN {Current.id} ELSE {}
  IN  SetToSeq({[op |-> "cancel", id |-> i] : i \in (ids \cap known) \cup own})

\* mutant of Release: the listeners are removed before the abort
Release_cleanupFirst ==
  /\ aborted' = TRUE
  /\ listening' = {}
  /\ link' = link \o Cancels({})

(* The finally block of start(), or the abort that came before it: the     *)
(* listeners run, then they are removed.                                   *)
Release ==
  /\ aborted' = TRUE
  /\ listening' = {}
  /\ link' = link \o Cancels(listening)

(* Tools that a cancelled run did not finish are marked so.                *)
Marked(state, ts) ==
  [i \in DOMAIN ts |->
    IF state = "CANCELLED" /\ ts[i].status \in {"running", "pending_confirm"}
    THEN [ts[i] EXCEPT !.status = "cancelled"] ELSE ts[i]]

(* The run ends: by an answer, by block(), or cancelled, and then a stream *)
(* may still be read.                                                      *)
Over(state, ts) ==
  /\ pc' = "over"
  /\ runtime' = Moved(state)
  /\ response' = CASE state = "FINAL" -> "answer"
                   [] state = "BLOCKED" -> "unfinished"
                   [] state = "CANCELLED" -> "stopped"
  /\ tools' = Marked(state, ts)
  /\ streaming' = FALSE
  /\ streamOpen' = (streamOpen /\ state = "CANCELLED")
  /\ Release

restOfOver == <<goal, known, starting, answer, exec, job, forgotten>>

End(state, ts) ==
  /\ Over(state, ts)
  /\ UNCHANGED <<loopVars, actions, countVars, cited, external, restOfOver>>

(* The next turn of the loop: the model is asked again.                    *)
AskModel(required) ==
  /\ pc' = "model"
  /\ turn' = turn + 1
  /\ requested' = required
  /\ streamOpen' = TRUE

-----------------------------------------------------------------------------
(* start(): a run that was stopped before it began ends at once.           *)
Start ==
  /\ pc = "new"
  /\ IF external \/ aborted
     THEN /\ Over("CANCELLED", << >>)
          /\ UNCHANGED loopVars
     ELSE /\ AskModel(FALSE)
          /\ runtime' = "PLANNING"
          /\ UNCHANGED <<todo, recovered, handled, fresh, awaiting, tools, response,
                         streaming, aborted, listening, link>>
  /\ UNCHANGED <<actions, countVars, cited, external, restOfOver>>

(* A promise resolves, and the run was not stopped meanwhile.              *)
Resumes(at) == pc = at /\ ~external

(* The model's reply: calls to be handled, or a candidate answer.          *)
ModelReplies ==
  /\ Resumes("model")
  /\ turn <= MaxTurns
  /\ streaming' = FALSE /\ streamOpen' = FALSE
  /\ \E reply \in Replies :
       IF reply = << >>
       THEN /\ pc' = "verify"
            /\ runtime' = Moved("VERIFYING")
            /\ UNCHANGED <<todo, recovered, handled, fresh, awaiting>>
       ELSE /\ pc' = "calls"
            /\ todo' = reply /\ recovered' = FALSE
            /\ handled' = FALSE /\ fresh' = FALSE /\ awaiting' = FALSE
            /\ UNCHANGED runtime
  /\ UNCHANGED <<goal, turn, requested, tools, actions, countVars, cited, response, stopVars,
                 workVars>>

(* requestModel() fails: the run is blocked.                               *)
ModelFails == Resumes("model") /\ End("BLOCKED", tools)

\* mutant of Shown: text is shown although the run was stopped
Shown_late == streamOpen

Shown == streamOpen /\ ~aborted

(* onDelta(): a piece of the reply arrives, perhaps after the run ended.   *)
Delta ==
  /\ Shown
  /\ streaming' = TRUE
  /\ UNCHANGED <<goal, pc, loopVars, tools, actions, countVars, runtime, cited, response,
                 streamOpen, stopVars, workVars>>

-----------------------------------------------------------------------------
Observations == {i \in DOMAIN tools : tools[i].executed}

(* The observation that an evidence reference of the verifier finds.       *)
Observed(id) ==
  LET found == {i \in Observations : tools[i].id = id}
  IN  IF found = {} THEN None ELSE tools[Min(found)]

(* The background tasks of the run whose last observed status is not over. *)
Unfinished ==
  {id \in Ids :
    LET about == {i \in Observations : tools[i].task = id}
        begun == {i \in about : tools[i].call.name = "run_background_command"}
    IN  begun # {} /\ tools[Max(about)].seen = "running"}

(* What may be concluded without having done anything.                     *)
Talk == goal.kind = "conversation"
Reading == goal.attached /\ goal.kind \notin {"mutation", "transfer"}

\* mutant of Accepts: attachments serve as evidence for any kind of task
Accepts_anyKind(scope, refs, quoted) ==
  /\ Unfinished = {}
  /\ \/ refs # {}
     \/ Observations = {} /\ scope = "conversation" /\ Talk
     \/ Observations = {} /\ scope = "attachment" /\ goal.attached
  /\ \A id \in refs : quoted /\ Observed(id) # None /\ Observed(id).usable

(* validateRunConclusion() for a verdict that says "complete".  A scope    *)
(* "attachment" that names other files than the task's is "execution".     *)
Accepts(scope, refs, quoted) ==
  /\ Unfinished = {}
  /\ \/ refs # {}
     \/ Observations = {} /\ scope = "conversation" /\ Talk
     \/ Observations = {} /\ scope = "attachment" /\ Reading
  /\ \A id \in refs : quoted /\ Observed(id) # None /\ Observed(id).usable

\* mutant of RepairsSpent: the limit is passed by one
RepairsSpent_offByOne == repairs > MaxRepairs

RepairsSpent == repairs >= MaxRepairs

(* The verification failed and there is no call to make: the model is      *)
(* asked to repair its answer, a few times.                                *)
NoAction(needsTools) ==
  /\ repairs' = repairs + 1
  /\ IF RepairsSpent
     THEN Over("BLOCKED", tools) /\ UNCHANGED <<loopVars, dry>>
     ELSE /\ AskModel(needsTools)
          /\ dry' = dry + 1
          /\ runtime' = Moved("PLANNING")
          /\ UNCHANGED <<todo, recovered, handled, fresh, awaiting, tools, response,
                         streaming, aborted, listening, link>>
  /\ UNCHANGED <<noProgress, last>>

(* The conclusion is to be mended: by tools if the verifier asked for      *)
(* them, and then by a request for one call if the model was already told  *)
(* to make one.                                                            *)
Continue(needsTools) ==
  IF needsTools /\ requested
  THEN /\ pc' = "recover"
       /\ runtime' = Moved("PLANNING")
       /\ UNCHANGED <<loopVars, tools, countVars, response, streaming, streamOpen, aborted,
                      listening, link>>
  ELSE NoAction(needsTools)

(* The verdict, or the failure of the request for it, which counts as      *)
(* "continue".  A verdict that is malformed in any way is "continue" too.  *)
Verdict ==
  /\ Resumes("verify")
  /\ \/ \E scope \in {"execution", "conversation", "attachment"}, quoted \in BOOLEAN,
          refs \in {{}} \cup {{id} : id \in {tools[i].id : i \in DOMAIN tools}} :
          IF Accepts(scope, refs, quoted)
          THEN /\ Over("FINAL", tools)
               /\ cited' = refs
               /\ UNCHANGED <<loopVars, countVars>>
          ELSE Continue(FALSE) /\ UNCHANGED cited
     \/ /\ Over("BLOCKED", tools)
        /\ UNCHANGED <<loopVars, countVars, cited>>
     \/ \E nextAction \in {"tool", "answer", "none"} :
          /\ Continue(nextAction = "tool" \/ (nextAction = "none" /\ ~goal.attached /\ ~Talk))
          /\ UNCHANGED cited
  /\ UNCHANGED <<actions, external, restOfOver>>

(* requestRecoveryAction() gives one call, or fails.                       *)
Recovered ==
  /\ Resumes("recover")
  /\ \/ \E call \in Calls :
          /\ pc' = "calls"
          /\ todo' = <<call>> /\ recovered' = TRUE
          /\ handled' = FALSE /\ fresh' = FALSE /\ awaiting' = FALSE
          /\ UNCHANGED <<turn, requested, tools, countVars, runtime, response, streaming,
                         streamOpen, aborted, listening, link>>
     \/ NoAction(TRUE)
  /\ UNCHANGED <<actions, cited, external, restOfOver>>

-----------------------------------------------------------------------------
CallId ==
  LET k == Cardinality({i \in DOMAIN tools : tools[i].turn = turn})
  IN  IF recovered THEN <<turn, 0>> ELSE <<IF FreshIds THEN turn ELSE 0, k + 1>>

\* mutant of NewTool: a malformed call gets no result
NewTool_unpaired(call, status) ==
  [id |-> CallId, turn |-> turn, call |-> call,
   status |-> IF status = "error" THEN "running" ELSE status, executed |-> FALSE,
   out |-> NoOut, usable |-> FALSE, task |-> None, seen |-> "none"]

NewTool(call, status) ==
  [id |-> CallId, turn |-> turn, call |-> call, status |-> status, executed |-> FALSE,
   out |-> NoOut, usable |-> FALSE, task |-> None, seen |-> "none"]

(* An action is started at most twice, one that changes something once;    *)
(* monitoring is free.                                                     *)
Repeated(call) ==
  /\ call.name \notin Monitoring
  /\ actions[call.action] >= IF call.risk = "low" THEN 2 ELSE 1

(* A second command of the same turn is skipped, and so is a repetition.   *)
Skipped(call) == (call.name \in Commands /\ handled) \/ Repeated(call)

(* executeTool() is called: what it does before its first await.           *)
Begin(call, id) ==
  /\ pc' = "tool"
  /\ actions' = [actions EXCEPT ![call.action] = @ + 1]
  /\ runtime' = Moved("EXECUTING")
  /\ CASE call.name = "send_terminal_command" ->
            /\ answer' = "none"
            /\ link' = Append(link, [op |-> "run", id |-> id])
            /\ UNCHANGED <<listening, known, starting>>
       [] call.name = "run_background_command" ->
            /\ answer' = "none"
            /\ listening' = listening \cup {id}
            /\ known' = known \cup {id}
            /\ starting' = id
            /\ link' = Append(link, [op |-> "start", id |-> id])
       [] OTHER -> UNCHANGED <<answer, link, listening, known, starting>>

\* mutant of NeedsApproval: only sftp_del asks
NeedsApproval_sftpOnly(call) == call.name = "sftp_del"

NeedsApproval(call) == call.deletes

(* The next call of the reply: refused, skipped, put before the user, or   *)
(* begun.                                                                  *)
HandleCall ==
  /\ pc = "calls" /\ todo # << >>
  /\ todo' = Tail(todo)
  /\ LET call == Head(todo)
     IN  \/ /\ ~call.valid
            /\ tools' = Append(tools, NewTool(call, "error"))
            /\ UNCHANGED <<pc, handled, actions, runtime, listening, known, starting, answer, link>>
         \/ /\ call.valid /\ Skipped(call)
            /\ tools' = Append(tools, NewTool(call, "skipped"))
            /\ handled' = (handled \/ call.name \in Commands)
            /\ UNCHANGED <<pc, actions, runtime, listening, known, starting, answer, link>>
         \/ /\ call.valid /\ ~Skipped(call) /\ NeedsApproval(call)
            /\ pc' = "approval"
            /\ tools' = Append(tools, NewTool(call, "pending_confirm"))
            /\ handled' = (handled \/ call.name \in Commands)
            /\ runtime' = Moved("AWAITING_APPROVAL")
            /\ UNCHANGED <<actions, listening, known, starting, answer, link>>
         \/ /\ call.valid /\ ~Skipped(call) /\ ~NeedsApproval(call)
            /\ tools' = Append(tools, NewTool(call, "running"))
            /\ handled' = (handled \/ call.name \in Commands)
            /\ Begin(call, CallId)
  /\ UNCHANGED <<turn, requested, recovered, fresh, awaiting, countVars, cited, response,
                 streaming, streamOpen, stopVars, exec, job, forgotten, goal>>

(* The user approves, or rejects, or lets the request expire.              *)
Approve ==
  /\ Resumes("approval")
  /\ tools' = [tools EXCEPT ![Len(tools)].status = "running"]
  /\ Begin(Current.call, Current.id)
  /\ UNCHANGED <<loopVars, countVars, cited, response, streaming, streamOpen, stopVars, exec, job,
                 forgotten, goal>>

Reject ==
  /\ Resumes("approval")
  /\ End("BLOCKED", [tools EXCEPT ![Len(tools)].status = "skipped"])

-----------------------------------------------------------------------------
(* executeTool() resolves: the result is an observation, and new evidence  *)
(* unless it is the same as the last one.                                  *)
ToolCompletes(out, usable, task, seen) ==
  /\ pc' = "calls"
  /\ tools' = [tools EXCEPT ![Len(tools)] =
       [@ EXCEPT !.status = "completed", !.executed = TRUE, !.out = out,
                 !.usable = usable, !.task = task, !.seen = seen]]
  /\ fresh' = (fresh \/ out # last)
  /\ last' = out
  /\ awaiting' = (awaiting \/ (Current.call.name \in Monitoring /\ seen = "running"))
  /\ runtime' = Moved("OBSERVING")

ToolFails ==
  /\ pc' = "calls"
  /\ tools' = [tools EXCEPT ![Len(tools)].status = "error"]
  /\ runtime' = Moved("OBSERVING")
  /\ UNCHANGED <<fresh, awaiting, last>>

Awaited(name) == Resumes("tool") /\ Current.call.name = name

restOfTool == <<goal, turn, requested, todo, recovered, handled, actions, repairs, noProgress, dry,
                cited, response, streaming, streamOpen, stopVars, listening, exec, job>>

(* A request is given up in the client after two minutes, whatever its     *)
(* answer is or will be.  The handlers of a start forget the task, those   *)
(* of a command remove its abort listener; what was not refused goes on.   *)
GivesUp ==
  /\ known' = known \ {starting}
  /\ starting' = None
  /\ answer' = "lost"
  /\ forgotten' = IF pc = "over" \/ answer = "refused" THEN forgotten
                  ELSE forgotten \cup {Current.id}

(* send_terminal_command: the answer of the process, the client's own      *)
(* timer, which cancels the command, or the end of the request.            *)
CommandReturns ==
  /\ Awaited("send_terminal_command")
  /\ \/ /\ answer = "ended"
        /\ \E out \in Outputs, usable \in BOOLEAN : ToolCompletes(<<out, 0>>, usable, None, "none")
        /\ UNCHANGED <<known, starting, answer, link, forgotten>>
     \/ /\ ToolCompletes(<<"timeout", 0>>, FALSE, None, "none")
        /\ link' = Append(link, [op |-> "cancel", id |-> Current.id])
        /\ UNCHANGED <<known, starting, answer, forgotten>>
     \/ ToolFails /\ GivesUp /\ UNCHANGED link
  /\ UNCHANGED restOfTool

(* run_background_command, mcpRunBackgroundCommand().                      *)
StartReturns ==
  /\ Awaited("run_background_command")
  /\ \/ /\ answer = "started"
        /\ ToolCompletes(<<"started", Len(tools)>>, FALSE, Current.id, "running")
        /\ starting' = None
        /\ UNCHANGED <<known, answer, forgotten>>
     \/ ToolFails /\ GivesUp
  /\ UNCHANGED <<restOfTool, link>>

restOfLate == <<goal, pc, loopVars, tools, actions, countVars, entryVars, stopVars, listening,
                exec, job>>

(* A start that returns after the run has ended is cancelled.              *)
LateStart ==
  /\ pc = "over" /\ starting # None /\ answer = "started"
  /\ link' = IF starting \in known
             THEN Append(link, [op |-> "cancel", id |-> starting]) ELSE link
  /\ starting' = None
  /\ UNCHANGED <<known, answer, forgotten, restOfLate>>

(* A request is given up after the run has ended, or when it was told to   *)
(* stop and does not know it yet: then the handlers come before the abort. *)
LateGivesUp ==
  /\ \/ pc = "over" /\ starting # None
     \/ pc = "tool" /\ external /\ Current.call.name \in Commands /\ answer # "lost"
  /\ GivesUp
  /\ UNCHANGED <<link, restOfLate>>

(* get_background_task_status: what the job is when the wait ends.  While  *)
(* it runs the result carries a new duration and so differs each time.     *)
StatusReturns ==
  /\ Awaited("get_background_task_status")
  /\ \/ \E id \in known :
          LET seen == job[id]
          IN  ToolCompletes(<<seen, IF seen = "running" THEN Len(tools) ELSE 0>>,
                            seen \in {"completed", "failed"}, id, seen)
     \/ ToolFails
  /\ UNCHANGED <<restOfTool, known, starting, answer, link, forgotten>>

(* The other tools.                                                        *)
ToolReturns ==
  /\ Resumes("tool") /\ Current.call.name \in {"sftp_list", "sftp_del"}
  /\ \/ \E out \in Outputs : ToolCompletes(<<out, 0>>, TRUE, None, "none")
     \/ ToolFails
  /\ UNCHANGED <<restOfTool, known, starting, answer, link, forgotten>>

\* mutant of RepairsAfter: any turn with a tool call counts as progress
RepairsAfter_any == 0

RepairsAfter == IF fresh THEN 0 ELSE repairs

(* All calls are handled: a turn with new evidence starts the counters     *)
(* anew, one that only waited for a running task does not count, others    *)
(* end the run when they are too many.                                     *)
TurnEnds ==
  /\ pc = "calls" /\ todo = << >>
  /\ IF ~fresh /\ ~awaiting /\ noProgress + 1 >= MaxIdle
     THEN /\ noProgress' = noProgress + 1
          /\ Over("BLOCKED", tools)
          /\ UNCHANGED <<loopVars, repairs, dry>>
     ELSE /\ AskModel(FALSE)
          /\ repairs' = RepairsAfter
          /\ noProgress' = IF fresh THEN 0 ELSE IF awaiting THEN noProgress ELSE noProgress + 1
          /\ dry' = IF fresh THEN 0 ELSE IF awaiting THEN dry ELSE dry + 1
          /\ UNCHANGED <<todo, recovered, handled, fresh, awaiting, tools, runtime, response,
                         streaming, aborted, listening, link>>
  /\ UNCHANGED <<actions, last, cited, external, restOfOver>>

-----------------------------------------------------------------------------
(* The user stops the run: by stop(), which rejects what is awaited at     *)
(* once, or by abortRef alone, which is seen by a timer or by whatever     *)
(* resumes first.                                                          *)
Awaits == pc \in {"model", "verify", "recover", "approval", "tool"}

StopRun == Awaits /\ End("CANCELLED", tools)

SetAbortRef ==
  /\ pc \notin {"calls", "over"}
  /\ external' = TRUE
  /\ UNCHANGED <<goal, pc, loopVars, tools, actions, countVars, entryVars, aborted, workVars>>

\* mutant of AbortSeen: a tool or an approval is awaited without looking
AbortSeen_requests ==
  external /\ pc \in {"model", "verify", "recover"} /\ End("CANCELLED", tools)

AbortSeen == external /\ Awaits /\ End("CANCELLED", tools)

-----------------------------------------------------------------------------
restOfProcess == <<goal, pc, loopVars, tools, actions, countVars, entryVars, stopVars, listening,
                   known, starting, forgotten>>

(* An answer goes to the request it belongs to, once: what is awaited sent *)
(* the last message of its id.                                             *)
IsAwaited(id) ==
  /\ answer = "none" /\ ((pc = "tool" /\ Current.id = id) \/ starting = id)
  /\ \A j \in DOMAIN link' : link'[j].op = "cancel" \/ link'[j].id # id

Reply(id, what) == answer' = IF IsAwaited(id) THEN what ELSE answer

(* The session's process takes a message: a command or a job is started or *)
(* refused, which a full list of jobs or a used id does; what runs is      *)
(* cancelled.  A job whose id a command holds is begun and fails.          *)
ProcessStarts ==
  /\ link # << >> /\ Head(link).op \in {"run", "start"}
  /\ link' = Tail(link)
  /\ LET id == Head(link).id
         background == Head(link).op = "start"
     IN  \/ /\ ~background /\ id \notin exec
            /\ exec' = exec \cup {id}
            /\ UNCHANGED <<job, answer>>
         \/ /\ background /\ job[id] = "none"
            /\ exec' = exec \cup {id}
            /\ job' = [job EXCEPT ![id] = IF id \in exec THEN "failed" ELSE "running"]
            /\ Reply(id, "started")
         \/ /\ background \/ id \in exec
            /\ Reply(id, "refused")
            /\ UNCHANGED <<exec, job>>
  /\ UNCHANGED restOfProcess

Ended(id, state) ==
  /\ exec' = exec \ {id}
  /\ IF job[id] = "running"
     THEN job' = [job EXCEPT ![id] = state] /\ UNCHANGED answer
     ELSE Reply(id, "ended") /\ UNCHANGED job

ProcessCancels ==
  /\ link # << >> /\ Head(link).op = "cancel"
  /\ link' = Tail(link)
  /\ IF Head(link).id \in exec THEN Ended(Head(link).id, "cancelled")
     ELSE UNCHANGED <<exec, job, answer>>
  /\ UNCHANGED restOfProcess

CommandEnds ==
  /\ UNCHANGED link
  /\ \E id \in exec, state \in {"completed", "failed"} : Ended(id, state)
  /\ UNCHANGED restOfProcess

Kernel ==
  \/ Start \/ ModelReplies \/ ModelFails \/ Verdict \/ Recovered \/ HandleCall
  \/ Approve \/ Reject \/ CommandReturns \/ StartReturns \/ StatusReturns \/ ToolReturns
  \/ TurnEnds \/ LateStart \/ LateGivesUp

Process == ProcessStarts \/ ProcessCancels \/ CommandEnds

Next == Kernel \/ Delta \/ StopRun \/ SetAbortRef \/ AbortSeen \/ Process

Spec == Init /\ [][Next]_vars

(* The 50 ms timer sees the abort; messages are delivered and handled.     *)
FairSpec ==
  /\ Spec
  /\ WF_vars(Start) /\ WF_vars(HandleCall) /\ WF_vars(TurnEnds) /\ WF_vars(AbortSeen)
  /\ WF_vars(ProcessStarts) /\ WF_vars(ProcessCancels) /\ WF_vars(LateStart) /\ WF_vars(LateGivesUp)

-----------------------------------------------------------------------------
(* A run that reports success has cited what it did: every citation is an  *)
(* observation that can serve as evidence; only a conversation, or a task  *)
(* with attachments that changes and copies nothing, does without, and     *)
(* only if nothing was carried out; and no background command is at work,  *)
(* other than one whose start the run was told had failed.                 *)
FinalIsBacked ==
  runtime = "FINAL" =>
    /\ cited # {} \/ (Observations = {} /\ (Talk \/ Reading))
    /\ \A id \in cited : \E i \in Observations : tools[i].id = id /\ tools[i].usable
    /\ \A id \in Ids : job[id] = "running" => id \in forgotten

(* The model is never asked again before each of its tool calls has got a  *)
(* result: also those that were refused, skipped or failed.                *)
ToolsAnswered ==
  pc \in {"model", "verify", "recover"} =>
    todo = << >> /\ \A i \in DOMAIN tools : tools[i].status \in Answered

(* The limits of a run hold together.  Between two replies of the model at *)
(* most one command is carried out, so that the next depends on what was   *)
(* observed; no action is carried out more than twice, one that may change *)
(* something only once, monitoring apart; and turns that neither bring new *)
(* evidence nor wait for a running task are counted across repairs and     *)
(* tool calls, so that a run that gets nowhere ends.                       *)
OneCommandPerTurn ==
  \A i, k \in Observations :
    tools[i].call.name \in Commands /\ tools[k].call.name \in Commands
    /\ tools[i].turn = tools[k].turn => i = k

RepeatsBounded ==
  \A i \in Observations :
    LET same == {k \in Observations : tools[k].call.action = tools[i].call.action}
    IN  tools[i].call.name \in Monitoring
        \/ Cardinality(same) <= IF tools[i].call.risk = "low" THEN 2 ELSE 1

DryTurnsBounded == dry <= MaxRepairs + MaxIdle - 1

WithinLimits == OneCommandPerTurn /\ RepeatsBounded /\ DryTurnsBounded

(* When the run is over, whatever way, and its messages are handled, none  *)
(* of its commands and background jobs is at work in the session: those    *)
(* that it started are cancelled, a start that was under way included.     *)
(* Excepted is a command whose request the run gave up before it ended.    *)
NothingLeftRunning ==
  pc = "over" /\ link = << >> /\ starting = None => exec \subseteq forgotten

(* Once a run is over, nothing that arrives late changes what it shows.    *)
OverIsFinal ==
  [][pc = "over" => UNCHANGED <<pc, runtime, response, tools, streaming, cited>>]_vars

(* Something that deletes data is started only after it has waited for the *)
(* user's approval, and never in the step that requests it.                *)
DeletesWait ==
  [][\A i \in DOMAIN tools' :
       tools'[i].call.deletes /\ tools'[i].status = "running" =>
         i \in DOMAIN tools /\ tools[i].status \in {"pending_confirm", "running"}]_vars

(* A run that was told to stop is over in the end, whatever it waits for.  *)
StopSettles == external ~> pc = "over"
=============================================================================
