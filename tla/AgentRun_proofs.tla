--------------------------- MODULE AgentRun_proofs ---------------------------
(***************************************************************************)
(* Proofs about AgentRun: for every set of calls and replies, and whatever *)
(* the limits are, the tools of a run are answered before the model is     *)
(* asked again, the limits hold together, nothing that deletes starts      *)
(* before it has waited, success is backed by what was observed, and what  *)
(* is over stays as it is; and if the provider does not use a call id      *)
(* again, no command outlives the run but those that it gave up.           *)
(***************************************************************************)
EXTENDS AgentRun, FiniteSetTheorems, SequenceTheorems, WellFoundedInduction,
        TLAPS

(* Where a run stands: outside of the calls of a reply, or among them.     *)
Asking == {"new", "model", "verify", "recover"}
Handling == {"calls", "approval", "tool"}

(* A run that is not over has not used up its limits, and turns without    *)
(* new evidence are counted by one of the two counters.                    *)
Counters ==
  /\ dry <= MaxRepairs + MaxIdle - 1
  /\ pc # "over" =>
       /\ runtime \notin Final /\ ~aborted
       /\ repairs <= MaxRepairs /\ noProgress < MaxIdle
       /\ dry <= repairs + noProgress
  /\ pc = "over" => aborted
  /\ pc = "new" => tools = << >>
  /\ turn = MaxTurns + 1 => pc \in {"model", "over"}

-----------------------------------------------------------------------------
(* The tools of a run.                                                     *)

OfTurn == {i \in DOMAIN tools : tools[i].turn = turn}

(* All tools but the last are answered, and the last is as the run needs   *)
(* it; there is room for the calls of a reply.                             *)
InOrder ==
  /\ \A i \in DOMAIN tools : tools[i].turn <= turn
  /\ pc \in Asking => todo = << >> /\ OfTurn = {}
  /\ pc \in Asking \cup {"calls"} => \A i \in DOMAIN tools : tools[i].status \in Answered
  /\ pc \in {"approval", "tool"} =>
       /\ tools # << >> /\ Current.turn = turn
       /\ \A i \in DOMAIN tools : i # Len(tools) => tools[i].status \in Answered
       /\ ~Current.executed
  /\ pc = "approval" => Current.status = "pending_confirm"
  /\ pc = "tool" => Current.status = "running"
  /\ pc \in Handling /\ ~recovered => Cardinality(OfTurn) + Len(todo) <= MaxCalls
  /\ pc \in Handling /\ recovered => todo = << >> \/ (Len(todo) = 1 /\ OfTurn = {})

(* The commands of a turn that are, were or may be carried out.            *)
Carried(i) == tools[i].executed \/ tools[i].status \in {"running", "pending_confirm"}

OneByOne ==
  /\ \A i, k \in DOMAIN tools :
       /\ Carried(i) /\ Carried(k) /\ tools[i].turn = tools[k].turn
       /\ tools[i].call.name \in Commands /\ tools[k].call.name \in Commands
       => i = k
  /\ pc \in Handling =>
       \A i \in OfTurn : Carried(i) /\ tools[i].call.name \in Commands => handled

(* What was carried out was counted, and nothing is counted above limit.   *)
Begun(a) ==
  {i \in DOMAIN tools : (tools[i].executed \/ tools[i].status = "running")
                        /\ tools[i].call.action = a}

Limit(call) == IF call.risk = "low" THEN 2 ELSE 1

Counted ==
  /\ \A a \in Actions : Cardinality(Begun(a)) <= actions[a]
  /\ \A c \in Calls : c.name \notin Monitoring => actions[c.action] <= Limit(c)
  /\ pc = "approval" => ~Repeated(Current.call)

-----------------------------------------------------------------------------
(* The commands at work.                                                   *)

(* With fresh ids, no two tools have the same.                             *)
IdsApart ==
  FreshIds =>
    /\ \A i \in DOMAIN tools : tools[i].id[1] = tools[i].turn
    /\ \A i \in OfTurn : tools[i].id[2] <= Cardinality(OfTurn)
    /\ \A i, k \in DOMAIN tools : tools[i].id = tools[k].id => i = k

Msg(op, id) == [op |-> op, id |-> id]

Sent == {link[j] : j \in DOMAIN link}

(* A start that was not given up is the last message that is not a         *)
(* cancellation, and the run waits for it and has no answer.               *)
StartsAwaited ==
  \A j \in DOMAIN link : link[j].op = "start" /\ link[j].id \notin forgotten =>
    /\ starting = link[j].id /\ answer = "none"
    /\ \A k \in DOMAIN link : j < k => link[k].op = "cancel"

(* The run waits for a start until it is answered or given up.             *)
Awaiting ==
  /\ starting # None =>
       /\ pc = "tool" /\ Current.call.name = "run_background_command"
       /\ starting = Current.id /\ starting \in listening \cap known
       /\ answer = "started" => job[starting] # "none"
  /\ pc = "tool" /\ Current.call.name = "run_background_command" /\ starting = None =>
       answer = "lost"
  /\ StartsAwaited

(* Every job at work is about to be observed, was observed as begun or was *)
(* given up; the client knows only jobs that were started, and what it has *)
(* seen of a running job is that it runs.                                  *)
JobsKnown ==
  /\ \A id \in Ids : job[id] = "running" =>
       \/ starting = id /\ answer = "started"
       \/ id \in forgotten
       \/ \E i \in Observations :
            tools[i].task = id /\ tools[i].call.name = "run_background_command"
  /\ \A id \in known : starting = id \/ job[id] # "none"
  /\ \A i \in Observations : tools[i].task # None =>
       /\ job[tools[i].task] # "none"
       /\ job[tools[i].task] = "running" => tools[i].seen = "running"

Watched == Awaiting /\ JobsKnown

(* The ids of the commands that were begun, and what is in the session's   *)
(* process or on its way there: each once, and of the run.                 *)
BegunIds ==
  {tools[i].id : i \in {k \in DOMAIN tools : tools[k].status # "pending_confirm"}}

Traced ==
  /\ exec \subseteq BegunIds
  /\ \A j \in DOMAIN link : link[j].op # "cancel" =>
       /\ link[j].id \in BegunIds /\ link[j].id \notin exec
       /\ \A k \in DOMAIN link : link[k].op # "cancel" /\ link[k].id = link[j].id => k = j

(* A command that has ended, or was refused, has left the process.         *)
Gone(id) ==
  id \notin exec /\ \A j \in DOMAIN link : link[j].id = id => link[j].op = "cancel"

Settled ==
  pc = "tool" /\ Current.call.name \in Commands /\ answer \in {"ended", "refused"} =>
    Gone(Current.id)

(* What an abort of the run cancels: the background commands that it       *)
(* listens for, and the command that it waits for.                         *)
Mine ==
  IF pc = "tool" /\ Current.call.name = "send_terminal_command" /\ answer # "lost"
  THEN {Current.id} ELSE {}

Reached == (listening \cap known) \cup Mine \cup forgotten

(* Whatever is at work, or will be, is one of these or is cancelled.       *)
Safe(these) ==
  /\ \A id \in exec : id \in these \/ Msg("cancel", id) \in Sent
  /\ \A j \in DOMAIN link : link[j].op # "cancel" =>
       \/ link[j].id \in these
       \/ \E k \in DOMAIN link : j < k /\ link[k] = Msg("cancel", link[j].id)

(* While the run goes on it can reach its commands; when it is over, only  *)
(* those that it gave up are not cancelled.                                *)
Kept == Traced /\ Settled /\ Safe(Reached)

Doomed == Safe(forgotten)

Backed ==
  runtime = "FINAL" =>
    /\ cited # {} \/ (Observations = {} /\ (Talk \/ Reading))
    /\ \A id \in cited : \E i \in Observations : tools[i].id = id /\ tools[i].usable
    /\ \A id \in Ids : job[id] = "running" => id \in forgotten
    /\ \A j \in DOMAIN link : link[j].op = "start" => link[j].id \in forgotten

(* What may happen to the commands whether or not the run goes on.         *)
Late == LateStart \/ LateGivesUp

-----------------------------------------------------------------------------
(* What is used of the records and sequences of the model.                 *)

(* A tool of the list stays a tool when its status changes or when it is   *)
(* completed.                                                              *)
LEMMA ToolStatus ==
  ASSUME NEW t \in Tool,
         NEW s \in {"running", "pending_confirm", "cancelled"} \cup Answered
  PROVE  /\ [t EXCEPT !.status = s] \in Tool
         /\ [t EXCEPT !.status = s].status = s
         /\ [t EXCEPT !.status = s].id = t.id /\ [t EXCEPT !.status = s].turn = t.turn
         /\ [t EXCEPT !.status = s].call = t.call
         /\ [t EXCEPT !.status = s].executed = t.executed
  BY DEF Tool

Completed(t, out, usable, task, seen) ==
  [t EXCEPT !.status = "completed", !.executed = TRUE, !.out = out,
            !.usable = usable, !.task = task, !.seen = seen]

LEMMA ToolCompleted ==
  ASSUME NEW t \in Tool, NEW out \in Out, NEW usable \in BOOLEAN,
         NEW task \in Ids \cup {None}, NEW seen \in JobStates,
         NEW u, u = Completed(t, out, usable, task, seen)
  PROVE  /\ u \in Tool
         /\ u.id = t.id /\ u.turn = t.turn /\ u.call = t.call
         /\ u.status = "completed" /\ u.executed
         /\ u.usable = usable /\ u.task = task /\ u.seen = seen
  BY DEF Tool, Completed, Answered

LEMMA LastReplaced ==
  ASSUME NEW ts \in Seq(Tool), ts # << >>, NEW u \in Tool,
         NEW us, us = [ts EXCEPT ![Len(ts)] = u]
  PROVE  /\ us \in Seq(Tool) /\ Len(us) = Len(ts) /\ DOMAIN us = DOMAIN ts
         /\ us # << >> /\ Len(ts) \in DOMAIN ts
         /\ us[Len(ts)] = u /\ \A i \in DOMAIN ts : i # Len(ts) => us[i] = ts[i]
<1>1. Len(ts) \in Nat /\ Len(ts) \in 1 .. Len(ts) /\ DOMAIN ts = 1 .. Len(ts)
  BY EmptySeq, LenProperties
<1>2. /\ us \in Seq(Tool) /\ Len(us) = Len(ts)
      /\ \A j \in 1 .. Len(ts) : us[j] = IF j = Len(ts) THEN u ELSE ts[j]
  BY <1>1, ExceptSeq
<1>3. us # << >>
  BY <1>1, <1>2, EmptySeq
<1> QED BY <1>1, <1>2, <1>3

LEMMA Appended ==
  ASSUME NEW S, NEW s \in Seq(S), NEW e \in S
  PROVE  /\ Append(s, e) \in Seq(S) /\ Len(Append(s, e)) = Len(s) + 1
         /\ Len(s) \in Nat /\ DOMAIN s = 1 .. Len(s)
         /\ DOMAIN Append(s, e) = 1 .. Len(s) + 1
         /\ Append(s, e)[Len(s) + 1] = e /\ Append(s, e) # << >>
         /\ \A i \in DOMAIN s : Append(s, e)[i] = s[i]
  BY AppendProperties, LenProperties

LEMMA MarkedFacts ==
  ASSUME NEW ts \in Seq(Tool), NEW state
  PROVE  /\ Marked(state, ts) \in Seq(Tool)
         /\ DOMAIN Marked(state, ts) = DOMAIN ts
         /\ \A i \in DOMAIN ts :
              Marked(state, ts)[i] \in {ts[i], [ts[i] EXCEPT !.status = "cancelled"]}
         /\ state # "CANCELLED" => Marked(state, ts) = ts
<1>1. Len(ts) \in Nat /\ DOMAIN ts = 1 .. Len(ts) /\ ts \in [1 .. Len(ts) -> Tool]
  BY LenProperties
<1>2. \A i \in DOMAIN ts : ts[i] \in Tool /\ [ts[i] EXCEPT !.status = "cancelled"] \in Tool
  BY <1>1, ToolStatus
<1>3. Marked(state, ts) \in [1 .. Len(ts) -> Tool]
  BY <1>1, <1>2 DEF Marked
<1>4. Marked(state, ts) \in Seq(Tool)
  BY <1>1, <1>3, SeqDef
<1> QED BY <1>1, <1>4 DEF Marked

LEMMA OverFacts ==
  ASSUME NEW state \in Final, NEW ts, Over(state, ts)
  PROVE  /\ pc' = "over" /\ runtime' = Moved(state) /\ tools' = Marked(state, ts)
         /\ response' \in {"answer", "unfinished", "stopped"}
         /\ streaming' = FALSE /\ streamOpen' = (streamOpen /\ state = "CANCELLED")
         /\ aborted' = TRUE /\ listening' = {} /\ link' = link \o Cancels(listening)
<1>1. response' \in {"answer", "unfinished", "stopped"}
  <2>1. CASE state = "FINAL" BY <2>1 DEF Over
  <2>2. CASE state = "BLOCKED" BY <2>2 DEF Over
  <2>3. CASE state = "CANCELLED" BY <2>3 DEF Over
  <2> QED BY <2>1, <2>2, <2>3 DEF Final
<1> QED BY <1>1 DEF Over, Release

LEMMA BeginFacts ==
  ASSUME NEW call, NEW id, Begin(call, id)
  PROVE  /\ pc' = "tool" /\ runtime' = Moved("EXECUTING")
         /\ actions' = [actions EXCEPT ![call.action] = @ + 1]
         /\ \/ /\ call.name = "send_terminal_command"
               /\ answer' = "none" /\ link' = Append(link, Msg("run", id))
               /\ UNCHANGED <<listening, known, starting>>
            \/ /\ call.name = "run_background_command"
               /\ answer' = "none" /\ link' = Append(link, Msg("start", id))
               /\ listening' = listening \cup {id} /\ known' = known \cup {id}
               /\ starting' = id
            \/ /\ call.name \notin Commands
               /\ UNCHANGED <<answer, link, listening, known, starting>>
<1>1. CASE call.name = "send_terminal_command"
  BY <1>1 DEF Begin, Msg
<1>2. CASE call.name = "run_background_command"
  BY <1>2 DEF Begin, Msg
<1>3. CASE call.name \notin Commands
  BY <1>3 DEF Begin, Commands
<1> QED BY <1>1, <1>2, <1>3 DEF Commands

LEMMA CurrentFacts ==
  ASSUME TypeOK, InOrder, pc \in {"approval", "tool"}
  PROVE  /\ tools # << >> /\ Len(tools) \in DOMAIN tools
         /\ Current \in Tool /\ Current = tools[Len(tools)]
         /\ Current.call \in Calls /\ Current.id \in Ids
<1>1. tools \in Seq(Tool) /\ tools # << >>
  BY DEF TypeOK, InOrder
<1>2. Len(tools) \in 1 .. Len(tools) /\ DOMAIN tools = 1 .. Len(tools)
  BY <1>1, EmptySeq, LenProperties
<1>3. tools[Len(tools)] \in Tool
  BY <1>1, <1>2, ElementOfSeq
<1> QED BY <1>1, <1>2, <1>3 DEF Current, Tool

LEMMA OfTurnFacts ==
  ASSUME TypeOK
  PROVE  IsFiniteSet(OfTurn) /\ Cardinality(OfTurn) \in Nat
<1>1. Len(tools) \in Nat /\ DOMAIN tools = 1 .. Len(tools)
  BY LenProperties DEF TypeOK
<1>2. IsFiniteSet(1 .. Len(tools))
  BY <1>1, FS_Interval
<1>3. OfTurn \subseteq 1 .. Len(tools)
  BY <1>1 DEF OfTurn
<1> QED BY <1>2, <1>3, FS_Subset, FS_CardinalityType

(* The id of a new tool.                                                   *)
LEMMA CallIdFacts ==
  ASSUME TypeOK, Counters, InOrder, pc = "calls", todo # << >>
  PROVE  /\ CallId = IF recovered THEN <<turn, 0>>
                     ELSE <<IF FreshIds THEN turn ELSE 0, Cardinality(OfTurn) + 1>>
         /\ CallId \in Ids
<1>1. CallId = IF recovered THEN <<turn, 0>>
               ELSE <<IF FreshIds THEN turn ELSE 0, Cardinality(OfTurn) + 1>>
  BY DEF CallId, OfTurn
<1>2. turn \in 0 .. MaxTurns + 1 /\ 0 \in 0 .. MaxCalls /\ 0 \in 0 .. MaxTurns + 1
  BY BoundsAssumption DEF TypeOK
<1>3. ~recovered => Cardinality(OfTurn) + 1 \in 0 .. MaxCalls
  <2>1. Len(todo) \in Nat \ {0}
    BY EmptySeq DEF TypeOK
  <2>2. Cardinality(OfTurn) \in Nat
    BY OfTurnFacts
  <2>3. ~recovered => Cardinality(OfTurn) + Len(todo) <= MaxCalls
    BY DEF InOrder, Handling
  <2> QED BY <2>1, <2>2, <2>3, BoundsAssumption
<1> QED BY <1>1, <1>2, <1>3 DEF Ids

LEMMA NewToolFacts ==
  ASSUME TypeOK, Counters, InOrder, pc = "calls", todo # << >>, NEW call \in Calls,
         NEW status \in {"error", "skipped", "pending_confirm", "running"},
         NEW t, t = NewTool(call, status)
  PROVE  /\ t \in Tool /\ t.id = CallId /\ t.turn = turn /\ t.call = call
         /\ t.status = status /\ ~t.executed
<1>1. CallId \in Ids
  BY CallIdFacts
<1>2. turn \in Nat
  BY BoundsAssumption DEF TypeOK
<1>3. NoOut \in Out
  BY DEF NoOut, Out
<1>4. None \in Ids \cup {None} /\ "none" \in JobStates /\ FALSE \in BOOLEAN
  BY DEF JobStates
<1>5. status \in {"running", "pending_confirm", "cancelled"} \cup Answered
  BY DEF Answered
<1> QED BY <1>1, <1>2, <1>3, <1>4, <1>5 DEF NewTool, Tool

-----------------------------------------------------------------------------
(* What one step does to the calls and the tools.                          *)

toolVars == <<pc, turn, todo, recovered, handled, tools, actions>>

Asks ==
  /\ pc \in {"new", "verify", "recover", "calls"} /\ todo = << >> /\ pc' = "model"
  /\ turn' = turn + 1
  /\ UNCHANGED <<todo, recovered, handled, tools, actions>>

Checks ==
  /\ pc \in {"model", "verify"} /\ pc' \in {"verify", "recover"}
  /\ pc = "model" => turn <= MaxTurns
  /\ UNCHANGED <<turn, todo, recovered, handled, tools, actions>>

Replied ==
  /\ pc \in {"model", "recover"} /\ pc' = "calls"
  /\ pc = "model" => turn <= MaxTurns
  /\ handled' = FALSE
  /\ \/ recovered' = FALSE /\ todo' \in Replies
     \/ recovered' = TRUE /\ \E c \in Calls : todo' = <<c>>
  /\ UNCHANGED <<turn, tools, actions>>

Counts(call) == actions' = [actions EXCEPT ![call.action] = @ + 1]

Handles(call, status) ==
  /\ pc = "calls" /\ todo # << >> /\ call = Head(todo) /\ todo' = Tail(todo)
  /\ tools' = Append(tools, NewTool(call, status))
  /\ UNCHANGED <<turn, recovered>>
  /\ \/ /\ status \in {"error", "skipped"} /\ pc' = "calls"
        /\ handled' \in BOOLEAN /\ (handled => handled')
        /\ UNCHANGED actions
     \/ /\ status = "pending_confirm" /\ pc' = "approval" /\ ~Skipped(call)
        /\ handled' = (handled \/ call.name \in Commands)
        /\ UNCHANGED actions
     \/ /\ status = "running" /\ pc' = "tool" /\ ~Skipped(call) /\ ~call.deletes
        /\ handled' = (handled \/ call.name \in Commands)
        /\ Counts(call)

Approved ==
  /\ pc = "approval" /\ pc' = "tool"
  /\ tools' = [tools EXCEPT ![Len(tools)] = [Current EXCEPT !.status = "running"]]
  /\ Counts(Current.call)
  /\ UNCHANGED <<turn, todo, recovered, handled>>

Returns(t) ==
  /\ pc = "tool" /\ pc' = "calls"
  /\ t \in Tool /\ t.id = Current.id /\ t.turn = Current.turn /\ t.call = Current.call
  /\ t.status \in {"completed", "error"}
  /\ tools' = [tools EXCEPT ![Len(tools)] = t]
  /\ UNCHANGED <<turn, todo, recovered, handled, actions>>

Alike(t, u) ==
  /\ u.id = t.id /\ u.turn = t.turn /\ u.call = t.call /\ u.executed = t.executed
  /\ u.usable = t.usable /\ u.status \in {t.status, "cancelled", "skipped"}

Ends ==
  /\ pc # "over" /\ pc' = "over"
  /\ tools' \in Seq(Tool) /\ DOMAIN tools' = DOMAIN tools
  /\ \A i \in DOMAIN tools : Alike(tools[i], tools'[i])
  /\ UNCHANGED <<turn, todo, recovered, handled, actions>>

LEMMA EndShape ==
  ASSUME TypeOK, pc # "over", NEW state \in Final, NEW ts \in Seq(Tool),
         DOMAIN ts = DOMAIN tools,
         \A i \in DOMAIN tools : ts[i] \in {tools[i], [tools[i] EXCEPT !.status = "skipped"]},
         Over(state, ts), UNCHANGED <<turn, todo, recovered, handled, actions>>
  PROVE  Ends
<1>0. pc' = "over" /\ tools' = Marked(state, ts)
  BY OverFacts
<1>1. /\ pc' = "over" /\ tools' \in Seq(Tool) /\ DOMAIN tools' = DOMAIN tools
      /\ \A i \in DOMAIN ts : tools'[i] \in {ts[i], [ts[i] EXCEPT !.status = "cancelled"]}
  BY <1>0, MarkedFacts
<1>2. \A i \in DOMAIN tools : tools[i] \in Tool
  BY LenProperties, ElementOfSeq DEF TypeOK
<1>3. ASSUME NEW t \in Tool, NEW u, NEW v,
             u \in {t, [t EXCEPT !.status = "skipped"]},
             v \in {u, [u EXCEPT !.status = "cancelled"]}
      PROVE  Alike(t, v)
  BY <1>3 DEF Alike, Tool
<1>4. \A i \in DOMAIN tools : Alike(tools[i], tools'[i])
  BY <1>1, <1>2, <1>3
<1> QED BY <1>1, <1>4 DEF Ends

LEMMA PlainEnd ==
  ASSUME TypeOK, pc # "over", NEW state \in Final,
         Over(state, tools), UNCHANGED <<turn, todo, recovered, handled, actions>>
  PROVE  Ends
<1>1. tools \in Seq(Tool)
  BY DEF TypeOK
<1> QED BY <1>1, EndShape

LEMMA CompletesFacts ==
  ASSUME TypeOK, InOrder, pc = "tool", NEW out \in Out, NEW usable \in BOOLEAN,
         NEW task \in Ids \cup {None}, NEW seen \in JobStates,
         ToolCompletes(out, usable, task, seen),
         UNCHANGED <<turn, todo, recovered, handled, actions>>
  PROVE  /\ Returns(Completed(Current, out, usable, task, seen))
         /\ runtime' = Moved("OBSERVING") /\ last' = out
         /\ fresh' = (fresh \/ out # last)
         /\ awaiting' = (awaiting \/ (Current.call.name \in Monitoring /\ seen = "running"))
<1>1. Current \in Tool /\ tools # << >> /\ Len(tools) \in DOMAIN tools
      /\ Current = tools[Len(tools)]
  BY CurrentFacts
<1>2. tools' = [tools EXCEPT ![Len(tools)] = Completed(Current, out, usable, task, seen)]
  BY <1>1 DEF ToolCompletes, Completed
<1>3. ASSUME NEW u, u = Completed(Current, out, usable, task, seen)
      PROVE  u \in Tool /\ u.id = Current.id /\ u.turn = Current.turn /\ u.call = Current.call
             /\ u.status = "completed"
  BY <1>1, <1>3, ToolCompleted
<1>4. Returns(Completed(Current, out, usable, task, seen))
  BY <1>2, <1>3 DEF ToolCompletes, Returns
<1> QED BY <1>4 DEF ToolCompletes

LEMMA FailsFacts ==
  ASSUME TypeOK, InOrder, pc = "tool", ToolFails,
         UNCHANGED <<turn, todo, recovered, handled, actions>>
  PROVE  /\ Returns([Current EXCEPT !.status = "error"])
         /\ runtime' = Moved("OBSERVING")
         /\ UNCHANGED <<fresh, awaiting, last>>
<1>1. Current \in Tool /\ tools # << >> /\ Len(tools) \in DOMAIN tools
      /\ Current = tools[Len(tools)]
  BY CurrentFacts
<1>2. tools' = [tools EXCEPT ![Len(tools)] = [Current EXCEPT !.status = "error"]]
  BY <1>1 DEF ToolFails
<1>3. LET t == [Current EXCEPT !.status = "error"]
      IN  t \in Tool /\ t.id = Current.id /\ t.turn = Current.turn /\ t.call = Current.call
          /\ t.status = "error"
  <2>1. "error" \in {"running", "pending_confirm", "cancelled"} \cup Answered
    BY DEF Answered
  <2> HIDE DEF Current
  <2> QED BY <1>1, <2>1, ToolStatus
<1> QED BY <1>2, <1>3 DEF ToolFails, Returns

LEMMA OutFacts ==
  ASSUME NEW o \in Outputs \cup JobStates \cup {"", "started", "timeout"}, NEW n \in Nat
  PROVE  <<o, n>> \in Out
<1> DEFINE T == Outputs \cup JobStates \cup {"", "started", "timeout"}
<1>1. o \in T
  OBVIOUS
<1> HIDE DEF T
<1>2. <<o, n>> \in T \X Nat
  BY <1>1
<1> QED BY <1>2 DEF T, Out

(* The answers of tools: what is completed, or that it failed.             *)
ToolAnswers ==
  \/ ToolFails
  \/ \E out \in Out, usable \in BOOLEAN, task \in Ids \cup {None}, seen \in JobStates :
       ToolCompletes(out, usable, task, seen)

LEMMA AnswersAreTyped ==
  ASSUME TypeOK, InOrder,
         CommandReturns \/ StartReturns \/ StatusReturns \/ ToolReturns
  PROVE  ToolAnswers /\ pc = "tool" /\ ~external
<1>1. Len(tools) \in Nat
  BY LenProperties DEF TypeOK
<1>2. None \in Ids \cup {None} /\ "none" \in JobStates /\ "running" \in JobStates
  BY DEF JobStates
<1>3. 0 \in Nat /\ TRUE \in BOOLEAN /\ FALSE \in BOOLEAN
  OBVIOUS
<1>4. CASE CommandReturns
  <2>1. pc = "tool" /\ ~external
    BY <1>4 DEF CommandReturns, Awaited, Resumes
  <2>2. CASE \E out \in Outputs, usable \in BOOLEAN :
               ToolCompletes(<<out, 0>>, usable, None, "none")
    <3>1. PICK out \in Outputs, usable \in BOOLEAN :
                 ToolCompletes(<<out, 0>>, usable, None, "none")
      BY <2>2
    <3>2. <<out, 0>> \in Out
      BY OutFacts, <1>3
    <3> QED BY <1>2, <2>1, <3>1, <3>2 DEF ToolAnswers
  <2>3. CASE ToolFails
    BY <2>1, <2>3 DEF ToolAnswers
  <2>4. CASE ToolCompletes(<<"timeout", 0>>, FALSE, None, "none")
    <3>1. <<"timeout", 0>> \in Out
      BY OutFacts, <1>3
    <3> QED BY <1>2, <1>3, <2>1, <2>4, <3>1 DEF ToolAnswers
  <2> QED BY <1>4, <2>2, <2>3, <2>4 DEF CommandReturns
<1>5. CASE StartReturns
  <2>1. pc = "tool" /\ ~external
    BY <1>5 DEF StartReturns, Awaited, Resumes
  <2>2. CASE ToolCompletes(<<"started", Len(tools)>>, FALSE, Current.id, "running")
    <3>1. <<"started", Len(tools)>> \in Out
      BY OutFacts, <1>1
    <3>2. Current.id \in Ids \cup {None}
      BY CurrentFacts, <2>1
    <3> QED BY <1>2, <1>3, <2>1, <2>2, <3>1, <3>2 DEF ToolAnswers
  <2> QED BY <1>5, <2>1, <2>2 DEF StartReturns, ToolAnswers
<1>6. CASE StatusReturns
  <2>1. pc = "tool" /\ ~external
    BY <1>6 DEF StatusReturns, Awaited, Resumes
  <2>2. ASSUME NEW id \in known,
               ToolCompletes(<<job[id], IF job[id] = "running" THEN Len(tools) ELSE 0>>,
                             job[id] \in {"completed", "failed"}, id, job[id])
        PROVE  ToolAnswers
    <3>1. id \in Ids \cup {None} /\ job[id] \in JobStates
      BY DEF TypeOK
    <3>2. (job[id] \in {"completed", "failed"}) \in BOOLEAN
      OBVIOUS
    <3>3. (IF job[id] = "running" THEN Len(tools) ELSE 0) \in Nat
      BY <1>1
    <3>4. <<job[id], IF job[id] = "running" THEN Len(tools) ELSE 0>> \in Out
      BY OutFacts, <3>1, <3>3
    <3> HIDE DEF Out
    <3> QED BY <2>2, <3>1, <3>2, <3>4 DEF ToolAnswers
  <2> QED BY <1>6, <2>1, <2>2 DEF StatusReturns, ToolAnswers
<1>7. CASE ToolReturns
  <2>1. pc = "tool" /\ ~external
    BY <1>7 DEF ToolReturns, Resumes
  <2>2. ASSUME NEW out \in Outputs, ToolCompletes(<<out, 0>>, TRUE, None, "none")
        PROVE  ToolAnswers
    <3>1. <<out, 0>> \in Out
      BY OutFacts, <1>3
    <3> QED BY <1>2, <1>3, <2>2, <3>1 DEF ToolAnswers
  <2> QED BY <1>7, <2>1, <2>2 DEF ToolReturns, ToolAnswers
<1> QED BY <1>4, <1>5, <1>6, <1>7

LEMMA AnswersReturn ==
  ASSUME TypeOK, InOrder, pc = "tool", ToolAnswers,
         UNCHANGED <<turn, todo, recovered, handled, actions>>
  PROVE  (\E t \in Tool : Returns(t)) /\ runtime' = Moved("OBSERVING")
<1>1. CASE ToolFails
  BY <1>1, FailsFacts DEF Returns
<1>2. ASSUME NEW out \in Out, NEW usable \in BOOLEAN, NEW task \in Ids \cup {None},
             NEW seen \in JobStates, ToolCompletes(out, usable, task, seen)
      PROVE  (\E t \in Tool : Returns(t)) /\ runtime' = Moved("OBSERVING")
  BY <1>2, CompletesFacts DEF Returns
<1> QED BY <1>1, <1>2 DEF ToolAnswers

ToolStep ==
  \/ UNCHANGED toolVars \/ Asks \/ Checks \/ Replied
  \/ \E call \in Calls, status \in {"error", "skipped", "pending_confirm", "running"} :
       Handles(call, status)
  \/ Approved \/ (\E t \in Tool : Returns(t)) \/ Ends

LEMMA NotFinal ==
  ASSUME Counters, pc # "over", NEW state
  PROVE  Moved(state) = state
  BY DEF Counters, Moved

LEMMA RepairShape ==
  ASSUME TypeOK, InOrder, pc \in {"verify", "recover"}, NEW needsTools, NoAction(needsTools),
         UNCHANGED actions
  PROVE  Asks \/ Ends
<1>1. CASE RepairsSpent
  <2>1. Over("BLOCKED", tools) /\ UNCHANGED loopVars
    BY <1>1 DEF NoAction
  <2> QED BY <2>1, PlainEnd DEF loopVars, Final
<1>2. CASE ~RepairsSpent
  BY <1>2 DEF NoAction, AskModel, InOrder, Asking, Asks
<1> QED BY <1>1, <1>2

LEMMA ContinueShape ==
  ASSUME TypeOK, InOrder, pc = "verify", NEW needsTools, Continue(needsTools),
         UNCHANGED actions
  PROVE  Checks \/ Asks \/ Ends
<1>1. CASE needsTools /\ requested
  BY <1>1 DEF Continue, Checks, loopVars
<1>2. CASE ~(needsTools /\ requested)
  BY <1>2, RepairShape DEF Continue
<1> QED BY <1>1, <1>2

LEMMA HandleShape ==
  ASSUME TypeOK, HandleCall
  PROVE  \E call \in Calls, status \in {"error", "skipped", "pending_confirm", "running"} :
           Handles(call, status)
<1>1. /\ pc = "calls" /\ todo # << >> /\ Head(todo) \in Calls
      /\ todo' = Tail(todo) /\ UNCHANGED <<turn, recovered>> /\ handled \in BOOLEAN
  BY HeadTailProperties DEF HandleCall, TypeOK
<1> DEFINE call == Head(todo)
<1>2. CASE /\ tools' = Append(tools, NewTool(call, "error"))
           /\ UNCHANGED <<pc, handled, actions>>
  BY <1>1, <1>2 DEF Handles
<1>3. CASE /\ tools' = Append(tools, NewTool(call, "skipped"))
           /\ handled' = (handled \/ call.name \in Commands)
           /\ UNCHANGED <<pc, actions>>
  BY <1>1, <1>3 DEF Handles
<1>4. CASE /\ ~Skipped(call) /\ pc' = "approval"
           /\ tools' = Append(tools, NewTool(call, "pending_confirm"))
           /\ handled' = (handled \/ call.name \in Commands)
           /\ UNCHANGED actions
  BY <1>1, <1>4 DEF Handles
<1>5. CASE /\ ~Skipped(call) /\ ~NeedsApproval(call)
           /\ tools' = Append(tools, NewTool(call, "running"))
           /\ handled' = (handled \/ call.name \in Commands)
           /\ Begin(call, CallId)
  <2>1. pc' = "tool" /\ Counts(call)
    BY <1>5, BeginFacts DEF Counts
  <2> QED BY <1>1, <1>5, <2>1 DEF Handles, NeedsApproval
<1> QED BY <1>2, <1>3, <1>4, <1>5 DEF HandleCall

LEMMA ToolSteps ==
  ASSUME TypeOK, Counters, InOrder, [Next]_vars
  PROVE  ToolStep
<1> USE DEF loopVars, restOfOver
<1>1. CASE Start
  <2>1. pc = "new" /\ tools = << >> /\ todo = << >>
    BY <1>1 DEF Start, Counters, InOrder, Asking
  <2>2. CASE Over("CANCELLED", << >>)
    <3>1. pc' = "over"
      BY <2>2 DEF Over
    <3>2. UNCHANGED <<turn, todo, recovered, handled, actions>>
      BY <1>1, <2>1, <3>1 DEF Start, AskModel
    <3>3. Over("CANCELLED", tools)
      BY <2>1, <2>2
    <3> QED BY <2>1, <3>2, <3>3, PlainEnd DEF ToolStep, Final
  <2>3. CASE /\ AskModel(FALSE)
             /\ UNCHANGED <<todo, recovered, handled, tools, actions>>
    BY <2>1, <2>3 DEF AskModel, Asks, ToolStep
  <2> QED BY <1>1, <2>2, <2>3 DEF Start
<1>2. CASE ModelReplies
  <2>1. pc = "model" /\ turn <= MaxTurns /\ UNCHANGED <<turn, tools, actions>>
    BY <1>2 DEF ModelReplies, Resumes
  <2>2. PICK reply \in Replies :
          IF reply = << >> THEN pc' = "verify" /\ UNCHANGED <<todo, recovered, handled>>
          ELSE pc' = "calls" /\ todo' = reply /\ recovered' = FALSE /\ handled' = FALSE
    BY <1>2 DEF ModelReplies
  <2> QED BY <2>1, <2>2 DEF Checks, Replied, ToolStep
<1>3. CASE ModelFails
  BY <1>3, PlainEnd DEF ModelFails, Resumes, End, ToolStep, Final
<1>4. CASE Verdict
  <2>1. pc = "verify" /\ UNCHANGED actions
    BY <1>4 DEF Verdict, Resumes
  <2>2. CASE Over("FINAL", tools) /\ UNCHANGED loopVars
    BY <2>1, <2>2, PlainEnd DEF ToolStep, Final
  <2>3. CASE Over("BLOCKED", tools) /\ UNCHANGED loopVars
    BY <2>1, <2>3, PlainEnd DEF ToolStep, Final
  <2>4. CASE \E b \in BOOLEAN : Continue(b)
    BY <2>1, <2>4, ContinueShape DEF ToolStep
  <2>5. \/ Over("FINAL", tools) /\ UNCHANGED loopVars
        \/ Over("BLOCKED", tools) /\ UNCHANGED loopVars
        \/ \E b \in BOOLEAN : Continue(b)
    BY <1>4 DEF Verdict
  <2> QED BY <2>2, <2>3, <2>4, <2>5
<1>5. CASE Recovered
  <2>1. pc = "recover" /\ UNCHANGED actions
    BY <1>5 DEF Recovered, Resumes
  <2>2. CASE NoAction(TRUE)
    BY <2>1, <2>2, RepairShape DEF ToolStep
  <2>3. CASE \E c \in Calls :
               /\ pc' = "calls" /\ todo' = <<c>> /\ recovered' = TRUE /\ handled' = FALSE
               /\ UNCHANGED <<turn, tools>>
    BY <2>1, <2>3 DEF Replied, ToolStep
  <2> QED BY <1>5, <2>2, <2>3 DEF Recovered
<1>6. CASE HandleCall
  BY <1>6, HandleShape DEF ToolStep
<1>7. CASE Approve
  <2>1. pc = "approval" /\ UNCHANGED <<turn, todo, recovered, handled>>
    BY <1>7 DEF Approve, Resumes
  <2>2. pc' = "tool" /\ Counts(Current.call)
    BY <1>7, BeginFacts DEF Approve, Counts
  <2>3. tools' = [tools EXCEPT ![Len(tools)] = [Current EXCEPT !.status = "running"]]
    BY <1>7 DEF Approve, Current
  <2> QED BY <2>1, <2>2, <2>3 DEF Approved, ToolStep
<1>8. CASE Reject
  <2>1. pc = "approval" /\ UNCHANGED <<turn, todo, recovered, handled, actions>>
    BY <1>8 DEF Reject, Resumes, End
  <2> DEFINE ts == [tools EXCEPT ![Len(tools)].status = "skipped"]
  <2>2. Over("BLOCKED", ts)
    BY <1>8 DEF Reject, End
  <2>3. Current \in Tool /\ tools # << >> /\ Current = tools[Len(tools)]
    BY <2>1, CurrentFacts
  <2>4. [Current EXCEPT !.status = "skipped"] \in Tool
    <3>1. "skipped" \in {"running", "pending_confirm", "cancelled"} \cup Answered
      BY DEF Answered
    <3> QED BY <2>3, <3>1, ToolStatus
  <2>5. ts = [tools EXCEPT ![Len(tools)] = [Current EXCEPT !.status = "skipped"]]
    BY <2>3
  <2>6. /\ ts \in Seq(Tool) /\ DOMAIN ts = DOMAIN tools
        /\ ts[Len(tools)] = [Current EXCEPT !.status = "skipped"]
        /\ \A i \in DOMAIN tools : i # Len(tools) => ts[i] = tools[i]
    BY <2>3, <2>4, <2>5, LastReplaced DEF TypeOK
  <2> HIDE DEF ts
  <2>7. \A i \in DOMAIN tools : ts[i] \in {tools[i], [tools[i] EXCEPT !.status = "skipped"]}
    BY <2>3, <2>6
  <2>8. Ends
    BY <2>1, <2>2, <2>6, <2>7, EndShape DEF Final
  <2> QED BY <2>8 DEF ToolStep
<1>9. CASE CommandReturns \/ StartReturns \/ StatusReturns \/ ToolReturns
  <2>1. UNCHANGED <<turn, todo, recovered, handled, actions>>
    BY <1>9 DEF CommandReturns, StartReturns, StatusReturns, ToolReturns, restOfTool
  <2> QED BY <1>9, <2>1, AnswersAreTyped, AnswersReturn DEF ToolStep
<1>10. CASE TurnEnds
  <2>1. pc = "calls" /\ todo = << >> /\ UNCHANGED actions
    BY <1>10 DEF TurnEnds
  <2>2. CASE Over("BLOCKED", tools) /\ UNCHANGED loopVars
    BY <2>1, <2>2, PlainEnd DEF ToolStep, Final
  <2>3. CASE AskModel(FALSE) /\ UNCHANGED <<todo, recovered, handled, tools>>
    BY <2>1, <2>3 DEF AskModel, Asks, ToolStep
  <2> QED BY <1>10, <2>2, <2>3 DEF TurnEnds
<1>11. CASE StopRun \/ AbortSeen
  BY <1>11, PlainEnd DEF StopRun, AbortSeen, Awaits, End, ToolStep, Final
<1>12. CASE Late \/ Delta \/ SetAbortRef \/ Process \/ UNCHANGED vars
  BY <1>12 DEF Late, LateStart, LateGivesUp, restOfLate, Delta, SetAbortRef, Process, ProcessStarts, ProcessCancels,
     CommandEnds, restOfProcess, vars, toolVars, ToolStep
<1> QED
  BY <1>1, <1>2, <1>3, <1>4, <1>5, <1>6, <1>7, <1>8, <1>9, <1>10, <1>11, <1>12
  DEF Next, Kernel, Late

(* A call is handled: the list of tools grows by one.                      *)
LEMMA HandlesFacts ==
  ASSUME TypeOK, Counters, InOrder, NEW call \in Calls,
         NEW status \in {"error", "skipped", "pending_confirm", "running"},
         Handles(call, status)
  PROVE  /\ Len(tools) \in Nat /\ DOMAIN tools = 1 .. Len(tools)
         /\ tools' \in Seq(Tool) /\ tools' # << >>
         /\ Len(tools') = Len(tools) + 1 /\ DOMAIN tools' = 1 .. Len(tools) + 1
         /\ \A i \in DOMAIN tools : tools'[i] = tools[i]
         /\ tools'[Len(tools) + 1] = NewTool(call, status)
         /\ tools'[Len(tools) + 1] \in Tool
         /\ tools'[Len(tools) + 1].id = CallId /\ tools'[Len(tools) + 1].turn = turn
         /\ tools'[Len(tools) + 1].call = call /\ tools'[Len(tools) + 1].status = status
         /\ ~tools'[Len(tools) + 1].executed
         /\ OfTurn' = OfTurn \cup {Len(tools) + 1} /\ Len(tools) + 1 \notin OfTurn
         /\ Cardinality(OfTurn') = Cardinality(OfTurn) + 1
         /\ todo' \in Seq(Calls) /\ Len(todo) \in Nat \ {0} /\ Len(todo') = Len(todo) - 1
<1>1. pc = "calls" /\ todo # << >> /\ todo' = Tail(todo) /\ turn' = turn
      /\ tools' = Append(tools, NewTool(call, status))
  BY DEF Handles
<1> DEFINE t == NewTool(call, status)
<1>2. /\ t \in Tool /\ t.id = CallId /\ t.turn = turn /\ t.call = call
      /\ t.status = status /\ ~t.executed
  BY <1>1, NewToolFacts
<1> HIDE DEF t
<1>3. /\ Len(tools) \in Nat /\ DOMAIN tools = 1 .. Len(tools)
      /\ tools' \in Seq(Tool) /\ tools' # << >>
      /\ Len(tools') = Len(tools) + 1 /\ DOMAIN tools' = 1 .. Len(tools) + 1
      /\ \A i \in DOMAIN tools : tools'[i] = tools[i]
      /\ tools'[Len(tools) + 1] = t
  BY <1>1, <1>2, Appended DEF TypeOK, t
<1>4. OfTurn' = OfTurn \cup {Len(tools) + 1} /\ Len(tools) + 1 \notin OfTurn
  BY <1>1, <1>2, <1>3 DEF OfTurn
<1>5. Cardinality(OfTurn') = Cardinality(OfTurn) + 1
  BY <1>4, OfTurnFacts, FS_AddElement
<1>6. todo' \in Seq(Calls) /\ Len(todo) \in Nat \ {0} /\ Len(todo') = Len(todo) - 1
  BY <1>1, HeadTailProperties, EmptySeq DEF TypeOK
<1> QED BY <1>2, <1>3, <1>4, <1>5, <1>6 DEF t

(* The current tool changes, and nothing else in the list.                 *)
LEMMA ReplaceFacts ==
  ASSUME TypeOK, InOrder, pc \in {"approval", "tool"}, NEW t \in Tool,
         t.turn = Current.turn, turn' = turn,
         tools' = [tools EXCEPT ![Len(tools)] = t]
  PROVE  /\ tools' \in Seq(Tool) /\ tools' # << >> /\ Len(tools') = Len(tools)
         /\ DOMAIN tools' = DOMAIN tools /\ Len(tools) \in DOMAIN tools
         /\ Current = tools[Len(tools)] /\ Current' = t
         /\ tools'[Len(tools)] = t
         /\ \A i \in DOMAIN tools : i # Len(tools) => tools'[i] = tools[i]
         /\ OfTurn' = OfTurn
<1>1. Current \in Tool /\ tools # << >> /\ Current = tools[Len(tools)]
  BY CurrentFacts
<1>2. /\ tools' \in Seq(Tool) /\ tools' # << >> /\ Len(tools') = Len(tools)
      /\ DOMAIN tools' = DOMAIN tools /\ Len(tools) \in DOMAIN tools
      /\ tools'[Len(tools)] = t
      /\ \A i \in DOMAIN tools : i # Len(tools) => tools'[i] = tools[i]
  BY <1>1, LastReplaced DEF TypeOK
<1>3. OfTurn' = OfTurn
  BY <1>1, <1>2 DEF OfTurn
<1>4. Current' = t
  BY <1>2 DEF Current
<1> QED BY <1>1, <1>2, <1>3, <1>4

LEMMA ApprovedFacts ==
  ASSUME TypeOK, InOrder, Approved, NEW t, t = [Current EXCEPT !.status = "running"]
  PROVE  /\ t \in Tool /\ t.id = Current.id /\ t.turn = Current.turn /\ t.call = Current.call
         /\ t.status = "running" /\ t.executed = Current.executed
         /\ tools' = [tools EXCEPT ![Len(tools)] = t]
<1>1. Current \in Tool
  BY CurrentFacts DEF Approved
<1>2. "running" \in {"running", "pending_confirm", "cancelled"} \cup Answered
  OBVIOUS
<1> QED BY <1>1, <1>2, ToolStatus DEF Approved

ToolTypes ==
  /\ pc \in {"new", "model", "verify", "recover", "calls", "approval", "tool", "over"}
  /\ turn \in 0 .. MaxTurns + 1 /\ todo \in Seq(Calls)
  /\ recovered \in BOOLEAN /\ handled \in BOOLEAN
  /\ tools \in Seq(Tool)
  /\ actions \in [Actions -> Nat]

LEMMA CountsTyped ==
  ASSUME actions \in [Actions -> Nat], NEW call \in Calls, Counts(call)
  PROVE  /\ call.action \in Actions /\ actions' \in [Actions -> Nat]
         /\ actions'[call.action] = actions[call.action] + 1
         /\ \A a \in Actions : a # call.action => actions'[a] = actions[a]
<1>1. call.action \in Actions
  BY DEF Actions
<1> QED BY <1>1 DEF Counts

LEMMA ToolTypesKept ==
  ASSUME TypeOK, Counters, InOrder, ToolStep
  PROVE  ToolTypes'
<1>0. ToolTypes
  BY DEF TypeOK, ToolTypes
<1>1. CASE UNCHANGED toolVars
  BY <1>0, <1>1 DEF toolVars, ToolTypes
<1>2. CASE Asks
  BY <1>0, <1>2, BoundsAssumption DEF Asks, ToolTypes, Counters
<1>3. CASE Checks
  BY <1>0, <1>3 DEF Checks, ToolTypes
<1>4. CASE Replied
  <2>1. todo' \in Seq(Calls)
    <3>1. \A c \in Calls : <<c>> \in Seq(Calls)
      OBVIOUS
    <3> QED BY <1>4, <3>1, RepliesAssumption DEF Replied
  <2> QED BY <1>0, <1>4, <2>1 DEF Replied, ToolTypes
<1>5. ASSUME NEW call \in Calls,
             NEW status \in {"error", "skipped", "pending_confirm", "running"},
             Handles(call, status)
      PROVE  ToolTypes'
  <2>1. tools' \in Seq(Tool) /\ todo' \in Seq(Calls)
    BY <1>5, HandlesFacts
  <2>2. actions' \in [Actions -> Nat]
    BY <1>0, <1>5, CountsTyped DEF Handles, ToolTypes
  <2> QED BY <1>0, <1>5, <2>1, <2>2 DEF Handles, ToolTypes
<1>6. CASE Approved
  <2>1. tools' \in Seq(Tool)
    BY <1>6, ApprovedFacts, ReplaceFacts DEF Approved
  <2>2. actions' \in [Actions -> Nat]
    BY <1>0, <1>6, CurrentFacts, CountsTyped DEF Approved, ToolTypes
  <2> QED BY <1>0, <1>6, <2>1, <2>2 DEF Approved, ToolTypes
<1>7. ASSUME NEW t \in Tool, Returns(t) PROVE ToolTypes'
  <2>1. tools' \in Seq(Tool)
    BY <1>7, ReplaceFacts DEF Returns
  <2> QED BY <1>0, <1>7, <2>1 DEF Returns, ToolTypes
<1>8. CASE Ends
  BY <1>0, <1>8 DEF Ends, ToolTypes
<1> QED BY <1>1, <1>2, <1>3, <1>4, <1>5, <1>6, <1>7, <1>8 DEF ToolStep

-----------------------------------------------------------------------------
(* The calls of a reply are handled in order, and all before the model is  *)
(* asked again.                                                            *)
LEMMA InOrderKept ==
  ASSUME TypeOK, Counters, InOrder, ToolStep
  PROVE  InOrder'
<1> USE DEF Asking, Handling
<1>0. /\ turn \in Nat /\ turn' \in Nat /\ tools \in Seq(Tool)
      /\ \A i \in DOMAIN tools : tools[i].turn \in Nat
  <2>1. turn \in Nat /\ turn' \in Nat /\ tools \in Seq(Tool)
    BY ToolTypesKept, BoundsAssumption DEF TypeOK, ToolTypes
  <2>2. \A i \in DOMAIN tools : tools[i] \in Tool
    BY <2>1, LenProperties, ElementOfSeq
  <2> QED BY <2>1, <2>2 DEF Tool
<1>1. CASE UNCHANGED toolVars
  BY <1>1 DEF toolVars, InOrder, OfTurn, Current
<1>2. CASE Asks
  <2>1. OfTurn' = {}
    BY <1>0, <1>2 DEF Asks, OfTurn, InOrder, TypeOK, Tool
  <2>2. \A i \in DOMAIN tools' : tools'[i].turn <= turn'
    BY <1>0, <1>2 DEF Asks, InOrder
  <2>3. /\ pc \in Asking \cup {"calls"} /\ pc' = "model"
        /\ todo' = << >> /\ tools' = tools
    BY <1>2 DEF Asks
  <2> QED BY <2>1, <2>2, <2>3 DEF InOrder
<1>3. CASE Checks
  BY <1>3 DEF Checks, InOrder, OfTurn
<1>4. CASE Replied
  <2>1. OfTurn' = {} /\ Cardinality(OfTurn') = 0
    BY <1>4, FS_EmptySet DEF Replied, InOrder, OfTurn
  <2>2. recovered' = FALSE => Len(todo') \in Nat /\ Len(todo') <= MaxCalls
    <3>1. recovered' = FALSE => todo' \in Replies
      BY <1>4 DEF Replied
    <3> QED BY <3>1, RepliesAssumption, LenProperties
  <2>3. recovered' # FALSE => Len(todo') = 1
    <3>1. recovered' # FALSE => \E c \in Calls : todo' = <<c>>
      BY <1>4 DEF Replied
    <3>2. \A c \in Calls : Len(<<c>>) = 1
      OBVIOUS
    <3> QED BY <3>1, <3>2
  <2>4. recovered' \in BOOLEAN
    BY <1>4 DEF Replied
  <2> QED BY <1>4, <2>1, <2>2, <2>3, <2>4 DEF Replied, InOrder
<1>5. ASSUME NEW call \in Calls,
             NEW status \in {"error", "skipped", "pending_confirm", "running"},
             Handles(call, status)
      PROVE  InOrder'
  <2> DEFINE n == Len(tools) + 1
  <2>1. /\ Len(tools) \in Nat /\ DOMAIN tools = 1 .. Len(tools)
        /\ tools' # << >> /\ Len(tools') = n /\ DOMAIN tools' = 1 .. n
        /\ \A i \in DOMAIN tools : tools'[i] = tools[i]
        /\ tools'[n].turn = turn /\ tools'[n].status = status /\ ~tools'[n].executed
        /\ Cardinality(OfTurn') = Cardinality(OfTurn) + 1
        /\ todo' \in Seq(Calls) /\ Len(todo) \in Nat \ {0} /\ Len(todo') = Len(todo) - 1
    BY <1>5, HandlesFacts
  <2>2. /\ pc = "calls" /\ turn' = turn /\ recovered' = recovered
        /\ pc' \in {"calls", "approval", "tool"}
        /\ pc' = "calls" => status \in Answered
        /\ pc' = "approval" => status = "pending_confirm"
        /\ pc' = "tool" => status = "running"
    BY <1>5 DEF Handles, Answered
  <2>3. Current' = tools'[n]
    BY <2>1 DEF Current
  <2>4. \A i \in DOMAIN tools : tools[i].turn <= turn /\ tools[i].status \in Answered
    BY <2>2 DEF InOrder
  <2>5. \A i \in DOMAIN tools' : i \in DOMAIN tools \/ i = n
    BY <2>1
  <2>6. recovered => Len(todo') = 0
    BY <2>1, <2>2, EmptySeq DEF InOrder, TypeOK
  <2>7. recovered => todo' = << >>
    BY <2>1, <2>6, EmptySeq
  <2>8. ~recovered => Cardinality(OfTurn') + Len(todo') <= MaxCalls
    BY <2>1, <2>2, OfTurnFacts, BoundsAssumption DEF InOrder
  <2>9. \A i \in DOMAIN tools' : tools'[i].turn <= turn'
    BY <1>0, <2>1, <2>2, <2>4, <2>5
  <2>10. \A i \in DOMAIN tools' : i # n => tools'[i].status \in Answered
    BY <2>1, <2>4, <2>5
  <2> HIDE DEF n
  <2> QED BY <2>1, <2>2, <2>3, <2>7, <2>8, <2>9, <2>10 DEF InOrder
<1>6. CASE Approved
  <2> DEFINE t == [Current EXCEPT !.status = "running"]
  <2>1. /\ t \in Tool /\ t.turn = Current.turn /\ t.status = "running"
        /\ t.executed = Current.executed
        /\ tools' = [tools EXCEPT ![Len(tools)] = t]
    BY <1>6, ApprovedFacts
  <2>2. pc = "approval" /\ pc' = "tool" /\ UNCHANGED <<turn, todo, recovered>>
    BY <1>6 DEF Approved
  <2> HIDE DEF t
  <2>3. /\ tools' # << >> /\ Len(tools') = Len(tools) /\ DOMAIN tools' = DOMAIN tools
        /\ Current = tools[Len(tools)] /\ Current' = t /\ OfTurn' = OfTurn
        /\ tools'[Len(tools)] = t
        /\ \A i \in DOMAIN tools : i # Len(tools) => tools'[i] = tools[i]
    BY <2>1, <2>2, ReplaceFacts
  <2> QED BY <2>1, <2>2, <2>3 DEF InOrder
<1>7. ASSUME NEW t \in Tool, Returns(t) PROVE InOrder'
  <2>1. pc = "tool" /\ pc' = "calls" /\ UNCHANGED <<turn, todo, recovered>>
        /\ t.turn = Current.turn /\ t.status \in Answered
    BY <1>7 DEF Returns, Answered
  <2>2. /\ tools' # << >> /\ Len(tools') = Len(tools) /\ DOMAIN tools' = DOMAIN tools
        /\ Current = tools[Len(tools)] /\ OfTurn' = OfTurn
        /\ tools'[Len(tools)] = t
        /\ \A i \in DOMAIN tools : i # Len(tools) => tools'[i] = tools[i]
    BY <1>7, <2>1, ReplaceFacts DEF Returns
  <2> QED BY <2>1, <2>2 DEF InOrder
<1>8. CASE Ends
  BY <1>8 DEF Ends, InOrder, Alike
<1> QED BY <1>1, <1>2, <1>3, <1>4, <1>5, <1>6, <1>7, <1>8 DEF ToolStep

-----------------------------------------------------------------------------
(* The counters, and what a run shows.                                     *)

Steady == {"UNDERSTANDING", "PLANNING", "EXECUTING", "OBSERVING", "VERIFYING",
           "AWAITING_APPROVAL"}

EntryTypes ==
  /\ last \in Out
  /\ runtime \in Steady \cup Final /\ cited \subseteq Ids
  /\ response \in {"none", "answer", "unfinished", "stopped"}
  /\ requested \in BOOLEAN /\ fresh \in BOOLEAN /\ awaiting \in BOOLEAN
  /\ streaming \in BOOLEAN /\ streamOpen \in BOOLEAN
  /\ external \in BOOLEAN /\ aborted \in BOOLEAN

CountTypes == repairs \in 0 .. MaxRepairs + 1 /\ noProgress \in 0 .. MaxIdle /\ dry \in Nat

(* The counters when a step is not the end of the run, and when it is.     *)
CountsOn ==
  \/ UNCHANGED <<repairs, noProgress, dry>>
  \/ repairs < MaxRepairs /\ repairs' = repairs + 1 /\ dry' = dry + 1 /\ UNCHANGED noProgress
  \/ repairs' = 0 /\ noProgress' = 0 /\ dry' = 0
  \/ noProgress + 1 < MaxIdle /\ noProgress' = noProgress + 1 /\ dry' = dry + 1 /\ UNCHANGED repairs

CountsOut ==
  /\ dry' = dry
  /\ \/ UNCHANGED <<repairs, noProgress>>
     \/ repairs' = repairs + 1 /\ UNCHANGED noProgress
     \/ noProgress' = noProgress + 1 /\ UNCHANGED repairs

GoesOn ==
  /\ pc # "over" /\ pc' \notin {"over", "new"}
  /\ UNCHANGED aborted /\ runtime' \in Steady
  /\ CountsOn

IsOver ==
  /\ pc # "over" /\ pc' = "over" /\ aborted'
  /\ CountsOut

Stays == UNCHANGED <<pc, turn, tools, runtime, aborted, repairs, noProgress, dry>>

LEMMA CountersKept ==
  ASSUME TypeOK, Counters, InOrder, ToolStep, GoesOn \/ IsOver \/ Stays
  PROVE  Counters' /\ CountTypes'
<1>1. /\ repairs \in 0 .. MaxRepairs + 1 /\ noProgress \in 0 .. MaxIdle /\ dry \in Nat
      /\ MaxRepairs \in Nat /\ MaxIdle \in Nat \ {0} /\ MaxTurns \in Nat /\ turn \in Nat
  BY BoundsAssumption DEF TypeOK
<1>2. turn' = MaxTurns + 1 => pc' \in {"model", "over"}
  <2>1. turn = MaxTurns + 1 => pc \in {"model", "over"}
    BY DEF Counters
  <2>2. CASE UNCHANGED toolVars
    BY <2>1, <2>2 DEF toolVars
  <2>3. CASE Asks \/ Checks \/ Replied \/ Ends \/ Approved
    BY <1>1, <2>1, <2>3 DEF Asks, Checks, Replied, Ends, Approved
  <2>4. ASSUME NEW call, NEW status, Handles(call, status) PROVE turn' # MaxTurns + 1
    BY <2>1, <2>4 DEF Handles
  <2>5. ASSUME NEW t, Returns(t) PROVE turn' # MaxTurns + 1
    BY <2>1, <2>5 DEF Returns
  <2> QED BY <2>2, <2>3, <2>4, <2>5 DEF ToolStep
<1>3. CASE GoesOn
  <2>1. /\ runtime \notin Final /\ ~aborted
        /\ repairs <= MaxRepairs /\ noProgress < MaxIdle /\ dry <= repairs + noProgress
    BY <1>3 DEF GoesOn, Counters
  <2>2. /\ CountTypes'
        /\ repairs' <= MaxRepairs /\ noProgress' < MaxIdle /\ dry' <= repairs' + noProgress'
    BY <1>1, <1>3, <2>1 DEF GoesOn, CountsOn, CountTypes
  <2>3. dry' <= MaxRepairs + MaxIdle - 1
    BY <1>1, <1>3, <2>1 DEF GoesOn, CountsOn
  <2>4. /\ pc' # "over" /\ pc' # "new" /\ ~aborted' /\ runtime' \notin Final
    BY <1>3, <2>1 DEF GoesOn, Steady, Final
  <2> QED BY <1>2, <2>2, <2>3, <2>4 DEF Counters
<1>4. CASE IsOver
  <2>1. repairs <= MaxRepairs /\ noProgress < MaxIdle /\ dry <= MaxRepairs + MaxIdle - 1
    BY <1>4 DEF IsOver, Counters
  <2>2. CountTypes' /\ dry' <= MaxRepairs + MaxIdle - 1
    BY <1>1, <1>4, <2>1 DEF IsOver, CountsOut, CountTypes
  <2>3. pc' = "over" /\ aborted'
    BY <1>4 DEF IsOver
  <2> QED BY <1>2, <2>2, <2>3 DEF Counters
<1>5. CASE Stays
  BY <1>1, <1>2, <1>5 DEF Stays, Counters, CountTypes
<1> QED BY <1>3, <1>4, <1>5

(* A run that ends.                                                        *)
LEMMA OverEntry ==
  ASSUME EntryTypes, Counters, pc # "over", NEW state \in Final, NEW ts, Over(state, ts),
         CountsOut, UNCHANGED <<last, requested, fresh, awaiting, external>>,
         cited' \subseteq Ids
  PROVE  EntryTypes' /\ IsOver
<1>1. /\ pc' = "over" /\ runtime' = Moved(state)
      /\ response' \in {"answer", "unfinished", "stopped"}
      /\ streaming' = FALSE /\ streamOpen' = (streamOpen /\ state = "CANCELLED")
      /\ aborted' = TRUE
  BY OverFacts
<1>2. runtime' \in Final
  BY <1>1, NotFinal
<1>3. streamOpen' \in BOOLEAN
  BY <1>1
<1> QED BY <1>1, <1>2, <1>3 DEF EntryTypes, IsOver

LEMMA RepairEntry ==
  ASSUME TypeOK, EntryTypes, Counters, pc \in {"verify", "recover"}, NEW needsTools \in BOOLEAN,
         NoAction(needsTools), UNCHANGED <<external, cited>>
  PROVE  EntryTypes' /\ (GoesOn \/ IsOver)
<1>1. CASE RepairsSpent
  <2>1. Over("BLOCKED", tools) /\ UNCHANGED <<last, requested, fresh, awaiting>>
        /\ CountsOut
    BY <1>1 DEF NoAction, loopVars, CountsOut
  <2>2. cited' \subseteq Ids
    BY DEF EntryTypes
  <2> QED BY <2>1, <2>2, OverEntry DEF Final
<1>2. CASE ~RepairsSpent
  <2>1. /\ pc' = "model" /\ requested' = needsTools /\ streamOpen' = TRUE
        /\ runtime' = Moved("PLANNING")
        /\ repairs' = repairs + 1 /\ dry' = dry + 1 /\ UNCHANGED noProgress
        /\ UNCHANGED <<fresh, awaiting, last, response, streaming, aborted>>
    BY <1>2 DEF NoAction, AskModel
  <2>2. runtime' \in Steady
    BY <2>1, NotFinal DEF Steady
  <2>3. repairs \in Nat /\ MaxRepairs \in Nat
    BY BoundsAssumption DEF TypeOK
  <2>4. CountsOn
    BY <1>2, <2>1, <2>3 DEF CountsOn, RepairsSpent
  <2> QED BY <2>1, <2>2, <2>4 DEF EntryTypes, GoesOn
<1> QED BY <1>1, <1>2

LEMMA ContinueEntry ==
  ASSUME TypeOK, EntryTypes, Counters, pc = "verify", NEW needsTools \in BOOLEAN,
         Continue(needsTools), UNCHANGED <<external, cited>>
  PROVE  EntryTypes' /\ (GoesOn \/ IsOver)
<1>1. CASE needsTools /\ requested
  <2>1. /\ pc' = "recover" /\ runtime' = Moved("PLANNING")
        /\ UNCHANGED <<repairs, noProgress, dry, last, requested, fresh, awaiting,
                       response, streaming, streamOpen, aborted>>
    BY <1>1 DEF Continue, loopVars, countVars
  <2>2. runtime' \in Steady
    BY <2>1, NotFinal DEF Steady
  <2> QED BY <2>1, <2>2 DEF EntryTypes, GoesOn, CountsOn
<1>2. CASE ~(needsTools /\ requested)
  BY <1>2, RepairEntry DEF Continue
<1> QED BY <1>1, <1>2

LEMMA EntrySteps ==
  ASSUME TypeOK, Counters, InOrder, [Next]_vars
  PROVE  EntryTypes' /\ (GoesOn \/ IsOver \/ Stays)
<1> USE DEF loopVars, countVars, stopVars
<1>0. EntryTypes
  BY DEF TypeOK, EntryTypes, Steady
<1>a. ASSUME pc # "over" PROVE runtime \in Steady
  BY <1>0, <1>a DEF EntryTypes, Counters
<1>1. CASE Start
  <2>1. pc = "new" /\ UNCHANGED <<repairs, noProgress, dry, last, cited, external>>
    BY <1>1 DEF Start
  <2>2. CASE Over("CANCELLED", << >>) /\ UNCHANGED loopVars
    <3>1. CountsOut /\ cited' \subseteq Ids
      BY <1>0, <2>1 DEF CountsOut, EntryTypes
    <3> QED BY <1>0, <2>1, <2>2, <3>1, OverEntry DEF Final
  <2>3. CASE /\ AskModel(FALSE) /\ runtime' = "PLANNING"
             /\ UNCHANGED <<fresh, awaiting, response, streaming, aborted>>
    BY <1>0, <2>1, <2>3 DEF AskModel, EntryTypes, GoesOn, CountsOn, Steady
  <2> QED BY <1>1, <2>2, <2>3 DEF Start
<1>2. CASE ModelReplies
  <2>1. /\ pc = "model" /\ streaming' = FALSE /\ streamOpen' = FALSE
        /\ UNCHANGED <<requested, repairs, noProgress, dry, last, cited, response,
                       external, aborted>>
    BY <1>2 DEF ModelReplies, Resumes
  <2>2. \/ pc' = "verify" /\ runtime' = Moved("VERIFYING") /\ UNCHANGED <<fresh, awaiting>>
        \/ pc' = "calls" /\ fresh' = FALSE /\ awaiting' = FALSE /\ UNCHANGED runtime
    BY <1>2 DEF ModelReplies
  <2>3. runtime' \in Steady
    BY <1>a, <2>1, <2>2, NotFinal DEF Steady
  <2> QED BY <1>0, <2>1, <2>2, <2>3 DEF EntryTypes, GoesOn, CountsOn
<1>3. CASE ModelFails \/ Reject \/ StopRun \/ AbortSeen
  <2>1. PICK state, ts : state \in {"BLOCKED", "CANCELLED"} /\ End(state, ts)
    BY <1>3 DEF ModelFails, Reject, StopRun, AbortSeen
  <2>2. pc # "over"
    BY <1>3 DEF ModelFails, Reject, StopRun, AbortSeen, Resumes, Awaits
  <2>3. /\ Over(state, ts) /\ CountsOut /\ cited' \subseteq Ids
        /\ UNCHANGED <<last, requested, fresh, awaiting, external>>
    BY <1>0, <2>1 DEF End, CountsOut, EntryTypes
  <2>4. state \in Final
    BY <2>1 DEF Final
  <2> QED BY <1>0, <2>2, <2>3, <2>4, OverEntry
<1>4. CASE Verdict
  <2>1. pc = "verify" /\ UNCHANGED external
    BY <1>4 DEF Verdict, Resumes
  <2>2. \/ \E refs \in {{}} \cup {{id} : id \in {tools[i].id : i \in DOMAIN tools}} :
             Over("FINAL", tools) /\ cited' = refs /\ UNCHANGED <<loopVars, countVars>>
        \/ Over("BLOCKED", tools) /\ UNCHANGED <<loopVars, countVars, cited>>
        \/ \E b \in BOOLEAN : Continue(b) /\ UNCHANGED cited
    BY <1>4 DEF Verdict
  <2>3. ASSUME NEW refs \in {{}} \cup {{id} : id \in {tools[i].id : i \in DOMAIN tools}},
               Over("FINAL", tools), cited' = refs, UNCHANGED <<loopVars, countVars>>
        PROVE  EntryTypes' /\ IsOver
    <3>1. \A i \in DOMAIN tools : tools[i] \in Tool
      BY LenProperties, ElementOfSeq DEF TypeOK
    <3>2. \A i \in DOMAIN tools : tools[i].id \in Ids
      BY <3>1 DEF Tool
    <3>3. cited' \subseteq Ids
      BY <2>3, <3>2
    <3> QED BY <1>0, <2>1, <2>3, <3>3, OverEntry DEF Final, CountsOut
  <2>4. CASE Over("BLOCKED", tools) /\ UNCHANGED <<loopVars, countVars, cited>>
    <3>1. cited' \subseteq Ids
      BY <1>0, <2>4 DEF EntryTypes
    <3> QED BY <1>0, <2>1, <2>4, <3>1, OverEntry DEF Final, CountsOut
  <2> QED BY <1>0, <2>1, <2>2, <2>3, <2>4, ContinueEntry
<1>5. CASE Recovered
  <2>1. pc = "recover" /\ UNCHANGED <<external, cited>>
    BY <1>5 DEF Recovered, Resumes
  <2>2. CASE NoAction(TRUE)
    BY <1>0, <2>1, <2>2, RepairEntry
  <2>3. CASE /\ pc' = "calls" /\ fresh' = FALSE /\ awaiting' = FALSE
             /\ UNCHANGED <<requested, countVars, runtime, response, streaming, streamOpen,
                            aborted>>
    <3>1. runtime' \in Steady
      BY <1>a, <2>1, <2>3
    <3> QED BY <1>0, <2>1, <2>3, <3>1 DEF EntryTypes, GoesOn, CountsOn
  <2> QED BY <1>5, <2>2, <2>3 DEF Recovered
<1>6. CASE HandleCall
  <2>1. /\ pc = "calls"
        /\ UNCHANGED <<requested, fresh, awaiting, repairs, noProgress, dry, last, cited,
                       response, streaming, streamOpen, external, aborted>>
    BY <1>6 DEF HandleCall
  <2>2. pc' \in {"calls", "approval", "tool"} /\ runtime' \in Steady
    <3>1. \/ pc' = pc /\ runtime' = runtime
          \/ pc' = "approval" /\ runtime' = Moved("AWAITING_APPROVAL")
          \/ Begin(Head(todo), CallId)
      BY <1>6 DEF HandleCall
    <3>2. ASSUME Begin(Head(todo), CallId)
          PROVE  pc' = "tool" /\ runtime' = Moved("EXECUTING")
      BY <3>2, BeginFacts
    <3> QED BY <1>a, <2>1, <3>1, <3>2, NotFinal DEF Steady
  <2> QED BY <1>0, <2>1, <2>2 DEF EntryTypes, GoesOn, CountsOn
<1>7. CASE Approve
  <2>1. /\ pc = "approval" /\ Begin(Current.call, Current.id)
        /\ UNCHANGED <<requested, fresh, awaiting, repairs, noProgress, dry, last, cited,
                       response, streaming, streamOpen, external, aborted>>
    BY <1>7 DEF Approve, Resumes
  <2>2. pc' = "tool" /\ runtime' = Moved("EXECUTING")
    BY <2>1, BeginFacts
  <2>3. runtime' \in Steady
    BY <2>1, <2>2, NotFinal DEF Steady
  <2> QED BY <1>0, <2>1, <2>2, <2>3 DEF EntryTypes, GoesOn, CountsOn
<1>8. CASE CommandReturns \/ StartReturns \/ StatusReturns \/ ToolReturns
  <2>1. /\ UNCHANGED <<requested, repairs, noProgress, dry, cited, response, streaming,
                       streamOpen, external, aborted>>
        /\ UNCHANGED <<turn, todo, recovered, handled, actions>>
    BY <1>8 DEF CommandReturns, StartReturns, StatusReturns, ToolReturns, restOfTool
  <2>2. ToolAnswers /\ pc = "tool"
    BY <1>8, AnswersAreTyped
  <2>3. pc' = "calls" /\ runtime' \in Steady
    <3>1. pc' = "calls" /\ runtime' = Moved("OBSERVING")
      BY <2>1, <2>2, AnswersReturn DEF Returns
    <3> QED BY <2>2, <3>1, NotFinal DEF Steady
  <2>4. last' \in Out /\ fresh' \in BOOLEAN /\ awaiting' \in BOOLEAN
    <3>1. CASE ToolFails
      BY <1>0, <3>1 DEF ToolFails, EntryTypes
    <3>2. ASSUME NEW out \in Out, NEW usable, NEW task, NEW seen,
                 ToolCompletes(out, usable, task, seen)
          PROVE  last' \in Out /\ fresh' \in BOOLEAN /\ awaiting' \in BOOLEAN
      BY <1>0, <3>2 DEF ToolCompletes, EntryTypes
    <3> QED BY <2>2, <3>1, <3>2 DEF ToolAnswers
  <2> QED BY <1>0, <2>1, <2>2, <2>3, <2>4 DEF EntryTypes, GoesOn, CountsOn
<1>9. CASE TurnEnds
  <2>1. pc = "calls" /\ UNCHANGED <<last, cited, external>>
    BY <1>9 DEF TurnEnds
  <2>2. CASE /\ noProgress' = noProgress + 1 /\ Over("BLOCKED", tools)
             /\ UNCHANGED <<loopVars, repairs, dry>>
    <3>1. CountsOut /\ cited' \subseteq Ids
      BY <1>0, <2>1, <2>2 DEF CountsOut, EntryTypes
    <3> QED BY <1>0, <2>1, <2>2, <3>1, OverEntry DEF Final
  <2>3. CASE /\ ~(~fresh /\ ~awaiting /\ noProgress + 1 >= MaxIdle)
             /\ AskModel(FALSE)
             /\ repairs' = RepairsAfter
             /\ noProgress' = IF fresh THEN 0 ELSE IF awaiting THEN noProgress ELSE noProgress + 1
             /\ dry' = IF fresh THEN 0 ELSE IF awaiting THEN dry ELSE dry + 1
             /\ UNCHANGED <<fresh, awaiting, runtime, response, streaming, aborted>>
    <3>1. CountsOn
      <4>1. noProgress \in Nat /\ MaxIdle \in Nat
        BY BoundsAssumption DEF TypeOK
      <4> QED BY <2>3, <4>1 DEF CountsOn, RepairsAfter
    <3>2. runtime' \in Steady
      BY <1>a, <2>1, <2>3
    <3> QED BY <1>0, <2>1, <2>3, <3>1, <3>2 DEF AskModel, EntryTypes, GoesOn
  <2> QED BY <1>9, <2>2, <2>3 DEF TurnEnds
<1>10. CASE Late \/ Delta \/ SetAbortRef \/ Process \/ UNCHANGED vars
  <2>1. /\ UNCHANGED <<pc, turn, tools, runtime, aborted, repairs, noProgress, dry, last, cited,
                       response, requested, fresh, awaiting, streamOpen>>
        /\ external' \in {external, TRUE} /\ streaming' \in {streaming, TRUE}
    BY <1>10 DEF Late, LateStart, LateGivesUp, restOfLate, Delta, SetAbortRef, Process, ProcessStarts, ProcessCancels,
       CommandEnds, restOfProcess, vars, entryVars
  <2> QED BY <1>0, <2>1 DEF Stays, EntryTypes
<1> QED
  BY <1>1, <1>2, <1>3, <1>4, <1>5, <1>6, <1>7, <1>8, <1>9, <1>10 DEF Next, Kernel, Late

-----------------------------------------------------------------------------
(* The messages to the session's process.                                  *)

Message == [op : {"run", "start", "cancel"}, id : Ids]

LEMMA MsgFacts ==
  ASSUME NEW op \in {"run", "start", "cancel"}, NEW id \in Ids
  PROVE  /\ Msg(op, id) \in Message
         /\ Msg(op, id).op = op /\ Msg(op, id).id = id
  BY DEF Msg, Message

LEMMA MsgIs ==
  ASSUME NEW m \in Message
  PROVE  m = Msg(m.op, m.id) /\ m.op \in {"run", "start", "cancel"} /\ m.id \in Ids
  BY DEF Msg, Message

LEMMA IdsFinite == IsFiniteSet(Ids)
<1>1. MaxTurns + 1 \in Int /\ MaxCalls \in Int
  BY BoundsAssumption
<1>2. IsFiniteSet(0 .. MaxTurns + 1) /\ IsFiniteSet(0 .. MaxCalls)
  BY <1>1, FS_Interval
<1> QED BY <1>2, FS_Product DEF Ids

(* SetToSeq puts each element of a finite set into a sequence.             *)
LEMMA SetToSeqFacts ==
  ASSUME NEW S, IsFiniteSet(S)
  PROVE  /\ SetToSeq(S) \in Seq(S)
         /\ \A x \in S : \E i \in DOMAIN SetToSeq(S) : SetToSeq(S)[i] = x
<1> DEFINE n == Cardinality(S)
           f == SetToSeq(S)
<1>1. n \in Nat /\ ExistsBijection(1 .. n, S)
  BY FS_CardinalityType
<1>2. \E g \in [1 .. n -> S] : IsInjective(g)
  BY <1>1 DEF ExistsBijection, Bijection, Injection
<1>3. f \in [1 .. n -> S] /\ IsInjective(f)
  BY <1>2 DEF SetToSeq
<1> HIDE DEF f
<1>4. f \in Injection(1 .. n, S)
  BY <1>3 DEF Injection
<1>5. Cardinality(1 .. n) = n
  BY <1>1, FS_Interval
<1>6. f \in Surjection(1 .. n, S)
  BY <1>4, <1>5, FS_Injection
<1>7. f \in Seq(S) /\ DOMAIN f = 1 .. n
  BY <1>1, <1>3, SeqDef
<1>8. \A x \in S : \E i \in 1 .. n : f[i] = x
  BY <1>6 DEF Surjection
<1> QED BY <1>7, <1>8 DEF f

(* What the end of a run sends are cancellations, of each background       *)
(* command that it listens for and knows, and of the one it waits for.     *)
LEMMA CancelsFacts ==
  ASSUME TypeOK, InOrder
  PROVE  /\ Cancels(listening) \in Seq(Message)
         /\ \A i \in DOMAIN Cancels(listening) : Cancels(listening)[i].op = "cancel"
         /\ \A id \in (listening \cap known) \cup Mine :
              \E i \in DOMAIN Cancels(listening) : Cancels(listening)[i] = Msg("cancel", id)
<1> DEFINE X == (listening \cap known) \cup Mine
           M == {Msg("cancel", i) : i \in X}
           g == [i \in X |-> Msg("cancel", i)]
<1>1. Cancels(listening) = SetToSeq(M)
  BY DEF Cancels, Mine, Msg
<1>2. X \subseteq Ids
  BY CurrentFacts DEF TypeOK, Mine
<1>3. IsFiniteSet(M)
  <2>1. IsFiniteSet(X)
    BY <1>2, IdsFinite, FS_Subset
  <2> HIDE DEF X
  <2>2. g \in Surjection(X, M)
    BY DEF Surjection
  <2> QED BY <2>1, <2>2, FS_Surjection
<1> HIDE DEF X
<1>4. M \subseteq Message /\ \A m \in M : m.op = "cancel"
  BY <1>2, MsgFacts
<1>5. \A id \in (listening \cap known) \cup Mine : Msg("cancel", id) \in M
  BY DEF X
<1> HIDE DEF M
<1>6. /\ SetToSeq(M) \in Seq(M)
      /\ \A x \in M : \E i \in DOMAIN SetToSeq(M) : SetToSeq(M)[i] = x
  BY <1>3, SetToSeqFacts
<1>7. SetToSeq(M) \in Seq(Message)
  BY <1>4, <1>6, SeqMonotonic
<1>8. \A i \in DOMAIN SetToSeq(M) : SetToSeq(M)[i] \in M
  BY <1>6, LenProperties, ElementOfSeq
<1> QED BY <1>1, <1>4, <1>5, <1>6, <1>7, <1>8

-----------------------------------------------------------------------------
(* What one step does to the commands at work.                             *)

BeginsWork(call, id) ==
  /\ UNCHANGED <<exec, job, forgotten>>
  /\ \/ /\ call.name = "send_terminal_command"
        /\ answer' = "none" /\ link' = Append(link, Msg("run", id))
        /\ UNCHANGED <<listening, known, starting>>
     \/ /\ call.name = "run_background_command"
        /\ answer' = "none" /\ link' = Append(link, Msg("start", id))
        /\ listening' = listening \cup {id} /\ known' = known \cup {id}
        /\ starting' = id
     \/ /\ call.name \notin Commands
        /\ UNCHANGED <<answer, link, listening, known, starting>>

Quiet == (UNCHANGED toolVars \/ Asks \/ Checks \/ Replied) /\ UNCHANGED workVars

HandlesWork(call, status) ==
  /\ Handles(call, status)
  /\ \/ status = "running" /\ BeginsWork(call, CallId)
     \/ status # "running" /\ UNCHANGED workVars

ApprovesWork == Approved /\ BeginsWork(Current.call, Current.id)

Answers == CommandReturns \/ StartReturns \/ StatusReturns \/ ToolReturns

Releases ==
  /\ Ends
  /\ listening' = {} /\ link' = link \o Cancels(listening)
  /\ UNCHANGED <<known, starting, answer, exec, job, forgotten>>

Aside == (Late \/ Process) /\ UNCHANGED toolVars

WorkStep ==
  \/ Quiet
  \/ \E call \in Calls, status \in {"error", "skipped", "pending_confirm", "running"} :
       HandlesWork(call, status)
  \/ ApprovesWork \/ Answers \/ Releases \/ Aside

LEMMA OverReleases ==
  ASSUME Ends, NEW state \in Final, NEW ts, Over(state, ts),
         UNCHANGED <<known, starting, answer, exec, job, forgotten>>
  PROVE  Releases
  BY OverFacts DEF Releases

(* A step that ends the run is one of those that say so.                   *)
LEMMA WorkSteps ==
  ASSUME TypeOK, Counters, InOrder, [Next]_vars
  PROVE  WorkStep
<1> USE DEF restOfOver
<1>0. ToolStep
  BY ToolSteps
<1>a. ASSUME pc' = "over", pc # "over" PROVE Ends
  <2>1. ASSUME NEW call, NEW status, Handles(call, status) PROVE pc' # "over"
    BY <2>1 DEF Handles
  <2>2. ASSUME NEW t, Returns(t) PROVE pc' # "over"
    BY <2>2 DEF Returns
  <2> QED BY <1>0, <1>a, <2>1, <2>2
          DEF ToolStep, toolVars, Asks, Checks, Replied, Approved
<1>b. ASSUME pc' # "over", pc \in {"new", "model", "verify", "recover"},
             UNCHANGED workVars
      PROVE  Quiet
  <2>1. ASSUME NEW call, NEW status, Handles(call, status) PROVE FALSE
    BY <1>b, <2>1 DEF Handles
  <2>2. ASSUME NEW t, Returns(t) PROVE FALSE
    BY <1>b, <2>2 DEF Returns
  <2> QED BY <1>0, <1>b, <2>1, <2>2 DEF ToolStep, Approved, Ends, Quiet
<1>c. ASSUME NEW state \in Final, NEW ts, Over(state, ts), pc # "over",
             UNCHANGED <<known, starting, answer, exec, job, forgotten>>
      PROVE  Releases
  <2>1. pc' = "over"
    BY <1>c DEF Over
  <2> QED BY <1>a, <1>c, <2>1, OverReleases
<1>1. CASE Start
  <2>1. pc = "new" /\ UNCHANGED restOfOver
    BY <1>1 DEF Start
  <2>2. CASE Over("CANCELLED", << >>)
    BY <1>c, <2>1, <2>2 DEF WorkStep, Final
  <2>3. CASE AskModel(FALSE) /\ UNCHANGED <<listening, link>>
    BY <1>b, <2>1, <2>3 DEF AskModel, WorkStep, workVars
  <2> QED BY <1>1, <2>2, <2>3 DEF Start
<1>2. CASE ModelReplies
  <2>1. pc = "model" /\ pc' \in {"verify", "calls"} /\ UNCHANGED workVars
    BY <1>2 DEF ModelReplies, Resumes
  <2> QED BY <1>b, <2>1 DEF WorkStep
<1>3. CASE ModelFails \/ Reject \/ StopRun \/ AbortSeen
  <2>1. PICK state, ts : state \in {"BLOCKED", "CANCELLED"} /\ End(state, ts)
    BY <1>3 DEF ModelFails, Reject, StopRun, AbortSeen
  <2>2. pc # "over"
    BY <1>3 DEF ModelFails, Reject, StopRun, AbortSeen, Resumes, Awaits
  <2> QED BY <1>c, <2>1, <2>2 DEF End, WorkStep, Final
<1>4. ASSUME pc \in {"verify", "recover"}, UNCHANGED restOfOver,
             NEW b \in BOOLEAN, NoAction(b)
      PROVE  WorkStep
  <2>1. CASE Over("BLOCKED", tools)
    BY <1>c, <1>4, <2>1 DEF WorkStep, Final
  <2>2. CASE AskModel(b) /\ UNCHANGED <<listening, link>>
    BY <1>b, <1>4, <2>2 DEF AskModel, WorkStep, workVars
  <2> QED BY <1>4, <2>1, <2>2 DEF NoAction
<1>5. CASE Verdict
  <2>1. pc = "verify" /\ UNCHANGED restOfOver
    BY <1>5 DEF Verdict, Resumes
  <2>2. \/ Over("FINAL", tools) \/ Over("BLOCKED", tools)
        \/ \E b \in BOOLEAN : Continue(b)
    BY <1>5 DEF Verdict
  <2>3. CASE Over("FINAL", tools) \/ Over("BLOCKED", tools)
    BY <1>c, <2>1, <2>3 DEF WorkStep, Final
  <2>4. ASSUME NEW b \in BOOLEAN, Continue(b) PROVE WorkStep
    <3>1. CASE b /\ requested
      <4>1. pc' = "recover" /\ UNCHANGED <<listening, link>>
        BY <2>4, <3>1 DEF Continue
      <4> QED BY <1>b, <2>1, <4>1 DEF WorkStep, workVars
    <3>2. CASE ~(b /\ requested)
      BY <1>4, <2>1, <2>4, <3>2 DEF Continue
    <3> QED BY <3>1, <3>2
  <2> QED BY <2>2, <2>3, <2>4
<1>6. CASE Recovered
  <2>1. pc = "recover" /\ UNCHANGED restOfOver
    BY <1>6 DEF Recovered, Resumes
  <2>2. CASE NoAction(TRUE)
    BY <1>4, <2>1, <2>2
  <2>3. CASE pc' = "calls" /\ UNCHANGED <<listening, link>>
    BY <1>b, <2>1, <2>3 DEF WorkStep, workVars
  <2> QED BY <1>6, <2>2, <2>3 DEF Recovered
<1>7. CASE HandleCall
  <2> DEFINE call == Head(todo)
  <2>1. /\ pc = "calls" /\ todo # << >> /\ call \in Calls /\ handled \in BOOLEAN
        /\ todo' = Tail(todo) /\ UNCHANGED <<turn, recovered, exec, job, forgotten>>
    BY <1>7, HeadTailProperties DEF HandleCall, TypeOK
  <2>2. CASE /\ tools' = Append(tools, NewTool(call, "error"))
             /\ UNCHANGED <<pc, handled, actions, listening, known, starting, answer, link>>
    <3>1. HandlesWork(call, "error")
      BY <2>1, <2>2 DEF HandlesWork, Handles, workVars
    <3> QED BY <2>1, <3>1 DEF WorkStep
  <2>3. CASE /\ tools' = Append(tools, NewTool(call, "skipped"))
             /\ handled' = (handled \/ call.name \in Commands)
             /\ UNCHANGED <<pc, actions, listening, known, starting, answer, link>>
    <3>1. HandlesWork(call, "skipped")
      BY <2>1, <2>3 DEF HandlesWork, Handles, workVars
    <3> QED BY <2>1, <3>1 DEF WorkStep
  <2>4. CASE /\ ~Skipped(call) /\ pc' = "approval"
             /\ tools' = Append(tools, NewTool(call, "pending_confirm"))
             /\ handled' = (handled \/ call.name \in Commands)
             /\ UNCHANGED <<actions, listening, known, starting, answer, link>>
    <3>1. HandlesWork(call, "pending_confirm")
      BY <2>1, <2>4 DEF HandlesWork, Handles, workVars
    <3> QED BY <2>1, <3>1 DEF WorkStep
  <2>5. CASE /\ ~Skipped(call) /\ ~NeedsApproval(call)
             /\ tools' = Append(tools, NewTool(call, "running"))
             /\ handled' = (handled \/ call.name \in Commands)
             /\ Begin(call, CallId)
    <3>1. pc' = "tool" /\ Counts(call)
      BY <2>5, BeginFacts DEF Counts
    <3>2. BeginsWork(call, CallId)
      BY <2>1, <2>5, BeginFacts DEF BeginsWork
    <3>3. HandlesWork(call, "running")
      BY <2>1, <2>5, <3>1, <3>2 DEF HandlesWork, Handles, NeedsApproval
    <3> QED BY <2>1, <3>3 DEF WorkStep
  <2> QED BY <1>7, <2>2, <2>3, <2>4, <2>5 DEF HandleCall
<1>8. CASE Approve
  <2>1. pc = "approval" /\ UNCHANGED <<turn, todo, recovered, handled, exec, job, forgotten>>
        /\ Begin(Current.call, Current.id)
    BY <1>8 DEF Approve, Resumes, loopVars
  <2>2. BeginsWork(Current.call, Current.id) /\ pc' = "tool" /\ Counts(Current.call)
    BY <2>1, BeginFacts DEF BeginsWork, Counts
  <2>3. Approved
    BY <1>8, <2>1, <2>2 DEF Approve, Approved, Current
  <2> QED BY <2>2, <2>3 DEF ApprovesWork, WorkStep
<1>9. CASE CommandReturns \/ StartReturns \/ StatusReturns \/ ToolReturns
  BY <1>9 DEF Answers, WorkStep
<1>10. CASE TurnEnds
  <2>1. pc = "calls" /\ todo = << >> /\ UNCHANGED <<actions, restOfOver>>
    BY <1>10 DEF TurnEnds
  <2>2. CASE Over("BLOCKED", tools)
    BY <1>c, <2>1, <2>2 DEF WorkStep, Final
  <2>3. CASE AskModel(FALSE) /\ UNCHANGED <<todo, recovered, handled, tools, listening, link>>
    BY <2>1, <2>3 DEF AskModel, Asks, Quiet, WorkStep, workVars
  <2> QED BY <1>10, <2>2, <2>3 DEF TurnEnds
<1>11. CASE Delta \/ SetAbortRef \/ UNCHANGED vars
  BY <1>11 DEF Delta, SetAbortRef, vars, toolVars, loopVars, Quiet, WorkStep
<1>12. CASE Late \/ Process
  BY <1>12 DEF Late, LateStart, LateGivesUp, restOfLate, Process, ProcessStarts, ProcessCancels, CommandEnds, restOfProcess,
     toolVars, loopVars, Aside, WorkStep
<1> QED
  BY <1>1, <1>2, <1>3, <1>5, <1>6, <1>7, <1>8, <1>9, <1>10, <1>11, <1>12
  DEF Next, Kernel, Late

WorkTypes ==
  /\ listening \subseteq Ids /\ known \subseteq Ids /\ exec \subseteq Ids
  /\ forgotten \subseteq Ids
  /\ starting \in Ids \cup {None}
  /\ answer \in {"none", "started", "ended", "refused", "lost"}
  /\ link \in Seq(Message)
  /\ job \in [Ids -> JobStates]

LEMMA WorkTyped == TypeOK => WorkTypes
  BY DEF TypeOK, WorkTypes, Message

(* The next message is taken from the channel.                             *)
LEMMA Taken ==
  ASSUME WorkTypes, link # << >>, link' = Tail(link)
  PROVE  /\ Head(link) \in Message /\ Head(link) = link[1]
         /\ link' \in Seq(Message) /\ Len(link) \in Nat \ {0} /\ Len(link') = Len(link) - 1
         /\ DOMAIN link = 1 .. Len(link) /\ DOMAIN link' = 1 .. Len(link) - 1
         /\ \A i \in DOMAIN link' : i + 1 \in DOMAIN link /\ link'[i] = link[i + 1]
<1>1. /\ Head(link) \in Message /\ link' \in Seq(Message) /\ Len(link') = Len(link) - 1
      /\ \A i \in 1 .. Len(link') : link'[i] = link[i + 1]
  BY HeadTailProperties DEF WorkTypes
<1>2. Len(link) \in Nat \ {0} /\ DOMAIN link = 1 .. Len(link) /\ DOMAIN link' = 1 .. Len(link')
  BY <1>1, EmptySeq, LenProperties DEF WorkTypes
<1>3. Head(link) = link[1]
  OBVIOUS
<1> QED BY <1>1, <1>2, <1>3

LEMMA ReplyTyped ==
  ASSUME WorkTypes, NEW id, NEW what \in {"started", "ended", "refused"}, Reply(id, what)
  PROVE  answer' \in {"none", "started", "ended", "refused", "lost"}
  BY DEF Reply, WorkTypes

(* Only a request that has no answer gets one.                             *)
LEMMA ReplyOnce ==
  ASSUME NEW id, NEW what, Reply(id, what)
  PROVE  answer' = answer \/ (answer = "none" /\ answer' = what)
  BY DEF Reply, IsAwaited

LEMMA EndedTyped ==
  ASSUME WorkTypes, NEW id \in exec, NEW state \in {"completed", "failed", "cancelled"},
         Ended(id, state)
  PROVE  /\ exec' \subseteq Ids /\ job' \in [Ids -> JobStates]
         /\ answer' \in {"none", "started", "ended", "refused", "lost"}
<1>1. state \in JobStates
  BY DEF JobStates
<1>2. CASE job[id] = "running"
  BY <1>1, <1>2 DEF Ended, WorkTypes
<1>3. CASE job[id] # "running"
  BY <1>3, ReplyTyped DEF Ended, WorkTypes
<1> QED BY <1>2, <1>3

LEMMA BeginsTyped ==
  ASSUME WorkTypes, NEW call, NEW id \in Ids, BeginsWork(call, id)
  PROVE  WorkTypes'
<1>1. Msg("run", id) \in Message /\ Msg("start", id) \in Message
  BY MsgFacts
<1>2. Append(link, Msg("run", id)) \in Seq(Message)
      /\ Append(link, Msg("start", id)) \in Seq(Message)
  BY <1>1, Appended DEF WorkTypes
<1> QED BY <1>2 DEF BeginsWork, WorkTypes

LEMMA WorkTypesKept ==
  ASSUME TypeOK, Counters, InOrder, WorkStep
  PROVE  WorkTypes'
<1>0. WorkTypes
  BY WorkTyped
<1>1. CASE UNCHANGED workVars
  BY <1>0, <1>1 DEF workVars, WorkTypes
<1>2. ASSUME NEW call \in Calls,
             NEW status \in {"error", "skipped", "pending_confirm", "running"},
             HandlesWork(call, status)
      PROVE  WorkTypes'
  <2>1. CallId \in Ids
    BY <1>2, CallIdFacts DEF HandlesWork, Handles
  <2> QED BY <1>0, <1>1, <1>2, <2>1, BeginsTyped DEF HandlesWork
<1>3. CASE ApprovesWork
  BY <1>0, <1>3, CurrentFacts, BeginsTyped DEF ApprovesWork, Approved
<1>4. CASE Answers
  <2>1. Current.id \in Ids
    BY <1>4, AnswersAreTyped, CurrentFacts DEF Answers
  <2>2. Append(link, [op |-> "cancel", id |-> Current.id]) \in Seq(Message)
    <3>1. Append(link, Msg("cancel", Current.id)) \in Seq(Message)
      BY <1>0, <2>1, MsgFacts, Appended DEF WorkTypes
    <3> QED BY <3>1 DEF Msg
  <2>3. CASE CommandReturns
    BY <1>0, <2>1, <2>2, <2>3 DEF CommandReturns, GivesUp, restOfTool, WorkTypes
  <2>4. CASE StartReturns
    BY <1>0, <2>1, <2>4 DEF StartReturns, GivesUp, restOfTool, WorkTypes
  <2>5. CASE StatusReturns \/ ToolReturns
    BY <1>0, <2>5 DEF StatusReturns, ToolReturns, restOfTool, WorkTypes
  <2> QED BY <1>4, <2>3, <2>4, <2>5 DEF Answers
<1>5. CASE Releases
  <2>1. link \o Cancels(listening) \in Seq(Message)
    BY <1>0, CancelsFacts, ConcatProperties DEF WorkTypes
  <2> QED BY <1>0, <1>5, <2>1 DEF Releases, WorkTypes
<1>6. CASE LateStart
  <2>1. starting \in Ids
    BY <1>0, <1>6 DEF LateStart, WorkTypes
  <2>2. Append(link, [op |-> "cancel", id |-> starting]) \in Seq(Message)
    <3>1. Append(link, Msg("cancel", starting)) \in Seq(Message)
      BY <1>0, <2>1, MsgFacts, Appended DEF WorkTypes
    <3> QED BY <3>1 DEF Msg
  <2>3. link' \in Seq(Message) /\ starting' = None
        /\ UNCHANGED <<listening, known, answer, exec, job, forgotten>>
    BY <1>0, <1>6, <2>2 DEF LateStart, restOfLate, WorkTypes
  <2> QED BY <1>0, <2>3 DEF WorkTypes
<1>10. CASE LateGivesUp
  <2>1. pc = "tool" => Current.id \in Ids
    BY CurrentFacts
  <2>2. pc = "tool" \/ pc = "over"
    BY <1>10 DEF LateGivesUp
  <2> QED BY <1>0, <1>10, <2>1, <2>2 DEF LateGivesUp, GivesUp, restOfLate, WorkTypes
<1>7. CASE ProcessStarts
  <2> DEFINE id == Head(link).id
  <2>1. link # << >> /\ link' = Tail(link) /\ UNCHANGED <<listening, known, starting, forgotten>>
    BY <1>7 DEF ProcessStarts, restOfProcess
  <2>2. link' \in Seq(Message) /\ id \in Ids
    BY <1>0, <2>1, Taken, MsgIs
  <2> HIDE DEF id
  <2>3. \/ exec' = exec \cup {id} /\ UNCHANGED <<job, answer>>
        \/ /\ exec' = exec \cup {id} /\ Reply(id, "started")
           /\ job' \in {[job EXCEPT ![id] = state] : state \in {"running", "failed"}}
        \/ Reply(id, "refused") /\ UNCHANGED <<exec, job>>
    BY <1>7 DEF ProcessStarts, id
  <2>4. exec' \subseteq Ids /\ job' \in [Ids -> JobStates]
    BY <1>0, <2>2, <2>3 DEF WorkTypes, JobStates
  <2>5. answer' \in {"none", "started", "ended", "refused", "lost"}
    BY <1>0, <2>3, ReplyTyped DEF WorkTypes
  <2> QED BY <1>0, <2>1, <2>2, <2>4, <2>5 DEF WorkTypes
<1>8. CASE ProcessCancels
  <2>1. link # << >> /\ link' = Tail(link) /\ UNCHANGED <<listening, known, starting, forgotten>>
    BY <1>8 DEF ProcessCancels, restOfProcess
  <2>2. link' \in Seq(Message)
    BY <1>0, <2>1, Taken
  <2>3. \/ Head(link).id \in exec /\ Ended(Head(link).id, "cancelled")
        \/ UNCHANGED <<exec, job, answer>>
    BY <1>8 DEF ProcessCancels
  <2> QED BY <1>0, <2>1, <2>2, <2>3, EndedTyped DEF WorkTypes
<1>9. CASE CommandEnds
  <2>1. UNCHANGED <<listening, known, starting, link, forgotten>>
    BY <1>9 DEF CommandEnds, restOfProcess
  <2>2. PICK id \in exec, state \in {"completed", "failed"} : Ended(id, state)
    BY <1>9 DEF CommandEnds
  <2> QED BY <1>0, <2>1, <2>2, EndedTyped DEF WorkTypes
<1> QED
  BY <1>1, <1>2, <1>3, <1>4, <1>5, <1>6, <1>7, <1>8, <1>9, <1>10
     DEF WorkStep, Quiet, Aside, Late, Process

-----------------------------------------------------------------------------
(* The types, and the order of the calls.                                  *)

LoopInv == TypeOK /\ Counters /\ InOrder

LEMMA TypeFromParts ==
  ASSUME goal \in Tasks, ToolTypes, EntryTypes, CountTypes, WorkTypes
  PROVE  TypeOK
  BY DEF ToolTypes, EntryTypes, CountTypes, WorkTypes, TypeOK, Steady, Message

LEMMA TypeFromPartsNext ==
  goal \in Tasks /\ ToolTypes /\ EntryTypes /\ CountTypes /\ WorkTypes => TypeOK
  BY TypeFromParts

(* The task of a run does not change.                                      *)
LEMMA GoalStays ==
  ASSUME [Next]_vars
  PROVE  goal' = goal
<1> USE DEF restOfOver, restOfTool, restOfLate, restOfProcess
<1>1. CASE Start \/ ModelReplies \/ Verdict \/ Recovered \/ TurnEnds
  BY <1>1 DEF Start, ModelReplies, Verdict, Recovered, TurnEnds
<1>2. CASE ModelFails \/ Reject \/ StopRun \/ AbortSeen
  BY <1>2 DEF ModelFails, Reject, StopRun, AbortSeen, End
<1>3. CASE HandleCall \/ Approve \/ Delta \/ SetAbortRef \/ UNCHANGED vars
  BY <1>3 DEF HandleCall, Approve, Delta, SetAbortRef, vars
<1>4. CASE CommandReturns \/ StartReturns \/ StatusReturns \/ ToolReturns
  BY <1>4 DEF CommandReturns, StartReturns, StatusReturns, ToolReturns
<1>5. CASE LateStart \/ LateGivesUp \/ Process
  BY <1>5 DEF LateStart, LateGivesUp, Process, ProcessStarts, ProcessCancels, CommandEnds
<1> QED BY <1>1, <1>2, <1>3, <1>4, <1>5 DEF Next, Kernel

LEMMA LoopInit == Init => LoopInv
<1> SUFFICES ASSUME Init PROVE LoopInv
  OBVIOUS
<1>1. ToolTypes
  <2>1. actions \in [Actions -> Nat]
    BY DEF Init
  <2>2. << >> \in Seq(Calls) /\ << >> \in Seq(Tool)
    BY EmptySeq
  <2>3. turn \in 0 .. MaxTurns + 1
    BY BoundsAssumption DEF Init
  <2> QED BY <2>1, <2>2, <2>3 DEF Init, ToolTypes
<1>2. EntryTypes
  <2>1. NoOut \in Out
    BY DEF NoOut, Out
  <2> QED BY <2>1 DEF Init, EntryTypes, Steady
<1>3. CountTypes
  BY BoundsAssumption DEF Init, CountTypes
<1>4. WorkTypes
  <2>1. << >> \in Seq(Message)
    BY EmptySeq
  <2>2. job \in [Ids -> JobStates]
    BY DEF Init, JobStates
  <2> QED BY <2>1, <2>2 DEF Init, WorkTypes
<1>5. Counters
  BY BoundsAssumption DEF Init, Counters, Final
<1>6. InOrder
  <2>1. DOMAIN tools = {}
    BY DEF Init
  <2> QED BY <2>1 DEF Init, InOrder, OfTurn, Asking, Handling
<1>7. goal \in Tasks
  BY DEF Init
<1> QED BY <1>1, <1>2, <1>3, <1>4, <1>5, <1>6, <1>7, TypeFromParts DEF LoopInv

LEMMA LoopNext == LoopInv /\ [Next]_vars => LoopInv'
<1> SUFFICES ASSUME LoopInv, [Next]_vars PROVE LoopInv'
  OBVIOUS
<1>1. TypeOK /\ Counters /\ InOrder
  BY DEF LoopInv
<1>2. ToolStep /\ WorkStep /\ EntryTypes' /\ (GoesOn \/ IsOver \/ Stays)
  BY <1>1, ToolSteps, WorkSteps, EntrySteps
<1>3. ToolTypes' /\ WorkTypes' /\ InOrder' /\ Counters' /\ CountTypes'
  BY <1>1, <1>2, ToolTypesKept, WorkTypesKept, InOrderKept, CountersKept
<1>4. (goal \in Tasks)'
  BY <1>1, GoalStays DEF TypeOK
<1>5. TypeOK'
  BY <1>2, <1>3, <1>4, TypeFromPartsNext, PTL
<1> QED BY <1>3, <1>5 DEF LoopInv

LEMMA LoopHolds == Spec => []LoopInv
  BY LoopInit, LoopNext, PTL DEF Spec

(* Each variable of the run has its type, and the counters that end a run  *)
(* never pass their limits (the loop of executeRun, agent-run.js).         *)
THEOREM TypeCorrect == Spec => []TypeOK
<1>1. LoopInv => TypeOK
  BY DEF LoopInv
<1> QED BY <1>1, LoopHolds, PTL

(* Each call of a reply has got its result before the model is asked again *)
(* (finishTool, agent-run.js).                                             *)
THEOREM EachCallAnswered == Spec => []ToolsAnswered
<1>1. LoopInv => ToolsAnswered
  BY DEF LoopInv, InOrder, ToolsAnswered, Asking
<1> QED BY <1>1, LoopHolds, PTL

LEMMA OverKeeps ==
  ASSUME LoopInv, [Next]_vars, pc = "over"
  PROVE  /\ UNCHANGED <<pc, runtime, response, tools, streaming, cited>>
         /\ Late \/ Process \/ UNCHANGED vars
<1>1. aborted
  BY DEF LoopInv, Counters
<1>2. ~Start /\ ~ModelReplies /\ ~ModelFails /\ ~Verdict /\ ~Recovered /\ ~HandleCall
      /\ ~Approve /\ ~Reject /\ ~CommandReturns /\ ~StartReturns /\ ~StatusReturns
      /\ ~ToolReturns /\ ~TurnEnds /\ ~StopRun /\ ~SetAbortRef /\ ~AbortSeen
  BY DEF Start, ModelReplies, ModelFails, Verdict, Recovered, HandleCall, Approve, Reject,
     CommandReturns, StartReturns, StatusReturns, ToolReturns, TurnEnds, StopRun,
     SetAbortRef, AbortSeen, Resumes, Awaited, Awaits
<1>3. ~Delta
  BY <1>1 DEF Delta, Shown
<1>4. Late \/ Process \/ UNCHANGED vars
  BY <1>2, <1>3 DEF Next, Kernel, Late
<1> QED BY <1>4 DEF Late, LateStart, LateGivesUp, restOfLate, Process, ProcessStarts, ProcessCancels, CommandEnds,
           restOfProcess, vars, entryVars

(* Nothing that arrives after the end of a run changes what it shows       *)
(* (onDelta and the checks of effect, agent-run.js).                       *)
THEOREM OverStays == Spec => OverIsFinal
<1>1. LoopInv /\ [Next]_vars =>
        (pc = "over" => UNCHANGED <<pc, runtime, response, tools, streaming, cited>>)
  BY OverKeeps
<1> QED BY <1>1, LoopHolds, PTL DEF Spec, OverIsFinal

(* What deletes is begun only in a later step than the one that put it     *)
(* before the user (requestApproval, agent-run.js).                        *)
THEOREM DeletionsWait == Spec => DeletesWait
<1> DEFINE A == \A i \in DOMAIN tools' :
                  tools'[i].call.deletes /\ tools'[i].status = "running" =>
                    i \in DOMAIN tools /\ tools[i].status \in {"pending_confirm", "running"}
<1>1. ASSUME LoopInv, [Next]_vars PROVE A
  <2>1. TypeOK /\ Counters /\ InOrder
    BY <1>1 DEF LoopInv
  <2>2. ToolStep
    BY <1>1, <2>1, ToolSteps
  <2>3. CASE UNCHANGED toolVars \/ Asks \/ Checks \/ Replied
    BY <2>3 DEF toolVars, Asks, Checks, Replied
  <2>4. ASSUME NEW call \in Calls,
               NEW status \in {"error", "skipped", "pending_confirm", "running"},
               Handles(call, status)
        PROVE  A
    <3>1. /\ DOMAIN tools = 1 .. Len(tools) /\ DOMAIN tools' = 1 .. Len(tools) + 1
          /\ Len(tools) \in Nat
          /\ \A i \in DOMAIN tools : tools'[i] = tools[i]
          /\ tools'[Len(tools) + 1].call = call /\ tools'[Len(tools) + 1].status = status
      BY <2>1, <2>4, HandlesFacts
    <3>2. status = "running" => ~call.deletes
      BY <2>4 DEF Handles
    <3>3. \A i \in DOMAIN tools' : i \in DOMAIN tools \/ i = Len(tools) + 1
      BY <3>1
    <3> QED BY <3>1, <3>2, <3>3
  <2>5. CASE Approved
    <3> DEFINE t == [Current EXCEPT !.status = "running"]
    <3>1. /\ pc = "approval" /\ turn' = turn /\ t \in Tool /\ t.turn = Current.turn
          /\ tools' = [tools EXCEPT ![Len(tools)] = t]
      BY <2>1, <2>5, ApprovedFacts DEF Approved
    <3> HIDE DEF t
    <3>2. /\ DOMAIN tools' = DOMAIN tools /\ Current = tools[Len(tools)]
          /\ \A i \in DOMAIN tools : i # Len(tools) => tools'[i] = tools[i]
      BY <2>1, <3>1, ReplaceFacts
    <3>3. Current.status = "pending_confirm"
      BY <2>1, <3>1 DEF InOrder
    <3> QED BY <3>2, <3>3
  <2>6. ASSUME NEW t \in Tool, Returns(t) PROVE A
    <3>1. /\ DOMAIN tools' = DOMAIN tools /\ tools'[Len(tools)] = t
          /\ \A i \in DOMAIN tools : i # Len(tools) => tools'[i] = tools[i]
      BY <2>1, <2>6, ReplaceFacts DEF Returns
    <3>2. t.status # "running"
      BY <2>6 DEF Returns
    <3> QED BY <3>1, <3>2
  <2>7. CASE Ends
    BY <2>7 DEF Ends, Alike
  <2> QED BY <2>2, <2>3, <2>4, <2>5, <2>6, <2>7 DEF ToolStep
<1> QED BY <1>1, LoopHolds, PTL DEF Spec, DeletesWait

-----------------------------------------------------------------------------
(* The limits of a run.                                                    *)

LEMMA OneByOneKept ==
  ASSUME TypeOK, Counters, InOrder, OneByOne, ToolStep
  PROVE  OneByOne'
<1> USE DEF Handling
<1>1. CASE UNCHANGED toolVars \/ Checks
  BY <1>1 DEF toolVars, Checks, OneByOne, Carried, OfTurn
<1>2. CASE Asks
  BY <1>2 DEF Asks, OneByOne, Carried
<1>3. CASE Replied
  <2>1. OfTurn' = {} /\ tools' = tools
    BY <1>3 DEF Replied, InOrder, OfTurn, Asking
  <2> QED BY <2>1 DEF OneByOne, Carried
<1>4. ASSUME NEW call \in Calls,
             NEW status \in {"error", "skipped", "pending_confirm", "running"},
             Handles(call, status)
      PROVE  OneByOne'
  <2>0. PICK n : n = Len(tools) + 1
    OBVIOUS
  <2>1. /\ Len(tools) \in Nat /\ DOMAIN tools = 1 .. Len(tools) /\ DOMAIN tools' = 1 .. n
        /\ \A i \in DOMAIN tools : tools'[i] = tools[i]
        /\ tools'[n].turn = turn /\ tools'[n].status = status /\ ~tools'[n].executed
        /\ tools'[n].call = call
        /\ OfTurn' = OfTurn \cup {n}
    BY <1>4, <2>0, HandlesFacts
  <2>2. \A i \in DOMAIN tools' : i \in DOMAIN tools \/ i = n
    BY <2>0, <2>1
  <2>3. n \notin DOMAIN tools
    BY <2>0, <2>1
  <2>4. /\ pc = "calls" /\ (handled => handled')
        /\ status \in {"pending_confirm", "running"} =>
             /\ ~(call.name \in Commands /\ handled)
             /\ handled' = (handled \/ call.name \in Commands)
    BY <1>4 DEF Handles, Skipped
  <2>5. \A i \in DOMAIN tools : Carried(i)' <=> Carried(i)
    BY <2>1 DEF Carried
  <2>6. Carried(n)' => status \in {"pending_confirm", "running"}
    BY <2>1 DEF Carried
  <2>7. \A i \in OfTurn : Carried(i) /\ tools[i].call.name \in Commands => handled
    BY <2>4 DEF OneByOne
  <2>8. \A i \in DOMAIN tools :
          ~(/\ Carried(i)' /\ Carried(n)' /\ tools'[i].turn = tools'[n].turn
            /\ tools'[i].call.name \in Commands /\ tools'[n].call.name \in Commands)
    BY <2>1, <2>4, <2>5, <2>6, <2>7 DEF OfTurn
  <2>9. \A i, k \in DOMAIN tools' :
          /\ Carried(i)' /\ Carried(k)' /\ tools'[i].turn = tools'[k].turn
          /\ tools'[i].call.name \in Commands /\ tools'[k].call.name \in Commands
          => i = k
    <3> TAKE i, k \in DOMAIN tools'
    <3>1. CASE i \in DOMAIN tools /\ k \in DOMAIN tools
      BY <2>1, <2>5, <3>1 DEF OneByOne
    <3>2. CASE i = n \/ k = n
      BY <2>2, <2>8, <3>2
    <3> QED BY <2>2, <3>1, <3>2
  <2>10. \A i \in OfTurn' : Carried(i)' /\ tools'[i].call.name \in Commands => handled'
    <3> TAKE i \in OfTurn'
    <3>1. CASE i \in OfTurn
      BY <2>1, <2>4, <2>5, <2>7, <3>1 DEF OfTurn
    <3>2. CASE i = n
      BY <2>1, <2>4, <2>6, <3>2
    <3> QED BY <2>1, <3>1, <3>2
  <2> QED BY <2>9, <2>10 DEF OneByOne
<1>5. ASSUME NEW t \in Tool, pc \in {"approval", "tool"}, pc' \in {"tool", "calls"},
             t.call = Current.call, t.turn = Current.turn, UNCHANGED <<turn, handled>>,
             tools' = [tools EXCEPT ![Len(tools)] = t]
      PROVE  OneByOne'
  <2>1. /\ DOMAIN tools' = DOMAIN tools /\ Len(tools) \in DOMAIN tools
        /\ Current = tools[Len(tools)]
        /\ tools'[Len(tools)] = t /\ OfTurn' = OfTurn
        /\ \A i \in DOMAIN tools : i # Len(tools) => tools'[i] = tools[i]
    BY <1>5, ReplaceFacts
  <2>2. Carried(Len(tools))
    BY <1>5, <2>1 DEF InOrder, Carried
  <2>3. \A i \in DOMAIN tools :
          /\ Carried(i)' => Carried(i)
          /\ tools'[i].call = tools[i].call /\ tools'[i].turn = tools[i].turn
    BY <1>5, <2>1, <2>2 DEF Carried
  <2> QED BY <1>5, <2>1, <2>3 DEF OneByOne, OfTurn
<1>6. CASE Approved
  BY <1>5, <1>6, ApprovedFacts DEF Approved
<1>7. ASSUME NEW t \in Tool, Returns(t) PROVE OneByOne'
  BY <1>5, <1>7 DEF Returns
<1>8. CASE Ends
  <2>1. \A i \in DOMAIN tools :
          /\ Carried(i)' => Carried(i)
          /\ tools'[i].call = tools[i].call /\ tools'[i].turn = tools[i].turn
    BY <1>8 DEF Ends, Alike, Carried
  <2> QED BY <1>8, <2>1 DEF Ends, OneByOne
<1> QED BY <1>1, <1>2, <1>3, <1>4, <1>6, <1>7, <1>8 DEF ToolStep

LEMMA BegunFinite ==
  ASSUME TypeOK, NEW a
  PROVE  IsFiniteSet(Begun(a)) /\ Cardinality(Begun(a)) \in Nat
<1>1. Len(tools) \in Nat /\ DOMAIN tools = 1 .. Len(tools)
  BY LenProperties DEF TypeOK
<1>2. IsFiniteSet(1 .. Len(tools))
  BY <1>1, FS_Interval
<1>3. Begun(a) \subseteq 1 .. Len(tools)
  BY <1>1 DEF Begun
<1> QED BY <1>2, <1>3, FS_Subset, FS_CardinalityType

(* An action is begun that has not reached its limit.                      *)
LEMMA BeginCounted ==
  ASSUME TypeOK, Counted, NEW call \in Calls, NEW k, ~Repeated(call), Counts(call),
         \A a \in Actions : Begun(a)' \subseteq
            IF a = call.action THEN Begun(a) \cup {k} ELSE Begun(a),
         pc' # "approval"
  PROVE  Counted'
<1>1. /\ call.action \in Actions /\ actions \in [Actions -> Nat]
      /\ actions'[call.action] = actions[call.action] + 1
      /\ \A a \in Actions : a # call.action => actions'[a] = actions[a]
  BY CountsTyped DEF TypeOK
<1>2. ASSUME NEW a \in Actions PROVE Cardinality(Begun(a)') <= actions'[a]
  <2>1. /\ IsFiniteSet(Begun(a)) /\ Cardinality(Begun(a)) \in Nat
        /\ Cardinality(Begun(a)) <= actions[a]
    BY BegunFinite DEF Counted
  <2>2. CASE a = call.action
    <3>1. /\ IsFiniteSet(Begun(a) \cup {k})
          /\ Cardinality(Begun(a) \cup {k}) \in {Cardinality(Begun(a)), Cardinality(Begun(a)) + 1}
      BY <2>1, FS_AddElement
    <3>2. Begun(a)' \subseteq Begun(a) \cup {k}
      BY <2>2
    <3>3. /\ Cardinality(Begun(a)') \in Nat
          /\ Cardinality(Begun(a)') <= Cardinality(Begun(a) \cup {k})
      BY <3>1, <3>2, FS_Subset, FS_CardinalityType
    <3> QED BY <1>1, <2>1, <2>2, <3>1, <3>3
  <2>3. CASE a # call.action
    <3>1. Begun(a)' \subseteq Begun(a)
      BY <2>3
    <3>2. Cardinality(Begun(a)') \in Nat /\ Cardinality(Begun(a)') <= Cardinality(Begun(a))
      BY <2>1, <3>1, FS_Subset, FS_CardinalityType
    <3> QED BY <1>1, <2>1, <2>3, <3>2
  <2> QED BY <2>2, <2>3
<1>3. ASSUME NEW c \in Calls, c.name \notin Monitoring
      PROVE  actions'[c.action] <= Limit(c)
  <2>1. c.action \in Actions /\ actions[c.action] <= Limit(c)
    BY <1>3 DEF Counted, Actions
  <2>2. CASE c.action = call.action
    <3>1. c.name = call.name /\ c.risk = call.risk
      BY <2>2, ActionsAssumption
    <3>2. ~(actions[call.action] >= Limit(c))
      BY <1>3, <3>1 DEF Repeated, Limit
    <3>3. Limit(c) \in Nat /\ actions[call.action] \in Nat
      BY <1>1 DEF Limit
    <3> QED BY <1>1, <2>2, <3>2, <3>3
  <2>3. CASE c.action # call.action
    BY <1>1, <2>1, <2>3
  <2> QED BY <2>2, <2>3
<1> QED BY <1>2, <1>3 DEF Counted

LEMMA RestCounted ==
  ASSUME TypeOK, Counted, actions' = actions,
         \A a \in Actions : Begun(a)' \subseteq Begun(a),
         pc' = "approval" => ~Repeated(Current.call)'
  PROVE  Counted'
<1>1. ASSUME NEW a \in Actions PROVE Cardinality(Begun(a)') <= actions'[a]
  <2>1. /\ IsFiniteSet(Begun(a)) /\ Cardinality(Begun(a)) \in Nat
        /\ Cardinality(Begun(a)) <= actions[a] /\ actions[a] \in Nat
    BY BegunFinite DEF Counted, TypeOK
  <2>2. Begun(a)' \subseteq Begun(a)
    OBVIOUS
  <2>3. Cardinality(Begun(a)') \in Nat /\ Cardinality(Begun(a)') <= Cardinality(Begun(a))
    BY <2>1, <2>2, FS_Subset, FS_CardinalityType
  <2> QED BY <2>1, <2>3
<1> QED BY <1>1 DEF Counted

LEMMA CountedKept ==
  ASSUME TypeOK, Counters, InOrder, Counted, ToolStep
  PROVE  Counted'
<1>1. CASE UNCHANGED toolVars
  BY <1>1 DEF toolVars, Counted, Begun, Repeated, Current
<1>2. CASE Asks \/ Checks \/ Replied
  <2>1. tools' = tools /\ actions' = actions /\ pc' # "approval"
    BY <1>2 DEF Asks, Checks, Replied
  <2> QED BY <2>1, RestCounted DEF Begun
<1>3. ASSUME NEW call \in Calls,
             NEW status \in {"error", "skipped", "pending_confirm", "running"},
             Handles(call, status)
      PROVE  Counted'
  <2>0. PICK n : n = Len(tools) + 1
    OBVIOUS
  <2>1. /\ Len(tools') = n /\ DOMAIN tools' = DOMAIN tools \cup {n}
        /\ \A i \in DOMAIN tools : tools'[i] = tools[i]
        /\ tools'[n].status = status /\ ~tools'[n].executed /\ tools'[n].call = call
    <3>1. /\ Len(tools) \in Nat /\ DOMAIN tools = 1 .. Len(tools) /\ DOMAIN tools' = 1 .. n
          /\ Len(tools') = n
          /\ \A i \in DOMAIN tools : tools'[i] = tools[i]
          /\ tools'[n].status = status /\ ~tools'[n].executed /\ tools'[n].call = call
      BY <1>3, <2>0, HandlesFacts
    <3>2. 1 .. n = (1 .. Len(tools)) \cup {n}
      BY <2>0, <3>1
    <3> QED BY <3>1, <3>2
  <2>2. CASE status # "running"
    <3>1. \A a \in Actions : Begun(a)' \subseteq Begun(a)
      BY <2>1, <2>2 DEF Begun
    <3>2. actions' = actions /\ (pc' = "approval" => ~Repeated(call))
      BY <1>3, <2>2 DEF Handles, Skipped
    <3>3. Current'.call = call
      BY <2>1 DEF Current
    <3>4. pc' = "approval" => ~Repeated(Current.call)'
      BY <3>2, <3>3 DEF Repeated
    <3> QED BY <3>1, <3>2, <3>4, RestCounted
  <2>3. CASE status = "running"
    <3>1. pc' # "approval" /\ ~Repeated(call) /\ Counts(call)
      BY <1>3, <2>3 DEF Handles, Skipped
    <3>2. \A a \in Actions : Begun(a)' \subseteq
            IF a = call.action THEN Begun(a) \cup {n} ELSE Begun(a)
      BY <2>1 DEF Begun
    <3> QED BY <3>1, <3>2, BeginCounted
  <2> QED BY <2>2, <2>3
<1>4. CASE Approved
  <2>0. PICK n : n = Len(tools)
    OBVIOUS
  <2> DEFINE t == [Current EXCEPT !.status = "running"]
  <2>1. /\ pc = "approval" /\ pc' = "tool" /\ turn' = turn /\ Counts(Current.call)
        /\ t \in Tool /\ t.turn = Current.turn /\ t.call = Current.call
        /\ tools' = [tools EXCEPT ![Len(tools)] = t]
    BY <1>4, ApprovedFacts DEF Approved
  <2> HIDE DEF t
  <2>2. /\ DOMAIN tools' = DOMAIN tools /\ Current = tools[n] /\ tools'[n] = t
        /\ \A i \in DOMAIN tools : i # n => tools'[i] = tools[i]
    BY <2>0, <2>1, ReplaceFacts
  <2>3. PICK call \in Calls : call = Current.call
    BY <2>1, CurrentFacts
  <2>4. ~Repeated(call) /\ Counts(call)
    BY <2>1, <2>3 DEF Counted
  <2>5. \A a \in Actions : Begun(a)' \subseteq
          IF a = call.action THEN Begun(a) \cup {n} ELSE Begun(a)
    BY <2>1, <2>2, <2>3 DEF Begun
  <2> QED BY <2>1, <2>4, <2>5, BeginCounted
<1>5. ASSUME NEW t \in Tool, Returns(t) PROVE Counted'
  <2>1. /\ pc = "tool" /\ pc' = "calls" /\ actions' = actions
        /\ t.call = Current.call /\ t.turn = Current.turn
        /\ tools' = [tools EXCEPT ![Len(tools)] = t] /\ turn' = turn
    BY <1>5 DEF Returns
  <2>2. /\ DOMAIN tools' = DOMAIN tools /\ Current = tools[Len(tools)]
        /\ tools'[Len(tools)] = t
        /\ \A i \in DOMAIN tools : i # Len(tools) => tools'[i] = tools[i]
    BY <2>1, ReplaceFacts
  <2>3. Current.status = "running"
    BY <2>1 DEF InOrder
  <2>4. \A a \in Actions : Begun(a)' \subseteq Begun(a)
    BY <2>1, <2>2, <2>3 DEF Begun
  <2> QED BY <2>1, <2>4, RestCounted
<1>6. CASE Ends
  <2>1. \A a \in Actions : Begun(a)' \subseteq Begun(a)
    BY <1>6 DEF Ends, Alike, Begun
  <2> QED BY <1>6, <2>1, RestCounted DEF Ends
<1> QED BY <1>1, <1>2, <1>3, <1>4, <1>5, <1>6 DEF ToolStep

LimitInv == LoopInv /\ OneByOne /\ Counted

LEMMA LimitInit == Init => LimitInv
<1> SUFFICES ASSUME Init PROVE LimitInv
  OBVIOUS
<1>1. LoopInv
  BY LoopInit
<1>2. DOMAIN tools = {} /\ pc = "new" /\ actions = [a \in Actions |-> 0]
  BY DEF Init
<1>3. OneByOne
  BY <1>2 DEF OneByOne, OfTurn, Handling
<1>4. Counted
  <2>1. \A a \in Actions : Begun(a) = {}
    BY <1>2 DEF Begun
  <2>2. \A a \in Actions : Cardinality(Begun(a)) <= actions[a]
    <3> TAKE a \in Actions
    <3>1. Cardinality(Begun(a)) = 0
      BY <2>1, FS_EmptySet
    <3>2. actions[a] = 0
      BY <1>2
    <3> QED BY <3>1, <3>2
  <2>3. \A c \in Calls : actions[c.action] <= Limit(c)
    BY <1>2 DEF Actions, Limit
  <2> QED BY <1>2, <2>2, <2>3 DEF Counted
<1> QED BY <1>1, <1>3, <1>4 DEF LimitInv

LEMMA LimitNext == LimitInv /\ [Next]_vars => LimitInv'
<1> SUFFICES ASSUME LimitInv, [Next]_vars PROVE LimitInv'
  OBVIOUS
<1>1. TypeOK /\ Counters /\ InOrder /\ LoopInv /\ OneByOne /\ Counted
  BY DEF LimitInv, LoopInv
<1>2. ToolStep /\ LoopInv'
  BY <1>1, ToolSteps, LoopNext
<1> QED BY <1>1, <1>2, OneByOneKept, CountedKept DEF LimitInv

LEMMA LimitsFollow == LimitInv => WithinLimits
<1> SUFFICES ASSUME LimitInv PROVE WithinLimits
  OBVIOUS
<1>0. TypeOK /\ Counters /\ OneByOne /\ Counted
  BY DEF LimitInv, LoopInv
<1>1. OneCommandPerTurn
  BY <1>0 DEF OneByOne, OneCommandPerTurn, Observations, Carried
<1>2. RepeatsBounded
  <2> SUFFICES ASSUME NEW i \in Observations, tools[i].call.name \notin Monitoring
               PROVE  Cardinality({k \in Observations :
                                     tools[k].call.action = tools[i].call.action})
                        <= Limit(tools[i].call)
    BY DEF RepeatsBounded, Limit
  <2> DEFINE c == tools[i].call
             same == {k \in Observations : tools[k].call.action = c.action}
  <2>1. c \in Calls /\ c.action \in Actions
    <3>1. i \in DOMAIN tools
      BY DEF Observations
    <3>2. tools[i] \in Tool
      BY <1>0, <3>1, LenProperties, ElementOfSeq DEF TypeOK
    <3> QED BY <3>2 DEF Tool, Actions
  <2>2. same \subseteq Begun(c.action)
    BY DEF Observations, Begun
  <2>3. IsFiniteSet(Begun(c.action)) /\ Cardinality(Begun(c.action)) \in Nat
    BY <1>0, BegunFinite
  <2>4. Cardinality(same) \in Nat /\ Cardinality(same) <= Cardinality(Begun(c.action))
    BY <2>2, <2>3, FS_Subset, FS_CardinalityType
  <2>5. /\ Cardinality(Begun(c.action)) <= actions[c.action]
        /\ actions[c.action] <= Limit(c)
        /\ actions[c.action] \in Nat /\ Limit(c) \in Nat
    BY <1>0, <2>1 DEF Counted, TypeOK, Limit
  <2> HIDE DEF c, same
  <2>6. Cardinality(same) <= Limit(c)
    BY <2>3, <2>4, <2>5
  <2> QED BY <2>6 DEF c, same
<1>3. DryTurnsBounded
  BY <1>0 DEF Counters, DryTurnsBounded
<1> QED BY <1>1, <1>2, <1>3 DEF WithinLimits

(* Between two replies at most one command is carried out, no action more  *)
(* often than its risk allows, and the turns that bring nothing are        *)
(* bounded, whatever the limits are (executeRun, agent-run.js).            *)
THEOREM LimitsKept == Spec => []WithinLimits
  BY LimitInit, LimitNext, LimitsFollow, PTL DEF Spec

-----------------------------------------------------------------------------
(* With fresh ids, an id names one tool.                                   *)

LEMMA SameIds ==
  ASSUME IdsApart, turn' = turn, DOMAIN tools' = DOMAIN tools,
         \A i \in DOMAIN tools :
           tools'[i].id = tools[i].id /\ tools'[i].turn = tools[i].turn
  PROVE  IdsApart'
<1>1. OfTurn' = OfTurn
  BY DEF OfTurn
<1> QED BY <1>1 DEF IdsApart, OfTurn

LEMMA ToolTyped ==
  ASSUME TypeOK, NEW i \in DOMAIN tools
  PROVE  /\ tools[i] \in Tool /\ tools[i].id \in Ids /\ tools[i].turn \in Nat
         /\ tools[i].id = <<tools[i].id[1], tools[i].id[2]>>
         /\ tools[i].id[1] \in Nat /\ tools[i].id[2] \in Nat
<1>1. tools[i] \in Tool
  BY LenProperties, ElementOfSeq DEF TypeOK
<1>2. tools[i].id \in Ids /\ tools[i].turn \in Nat
  BY <1>1 DEF Tool
<1> QED BY <1>1, <1>2, BoundsAssumption DEF Ids

LEMMA IdsApartKept ==
  ASSUME TypeOK, Counters, InOrder, IdsApart, ToolStep
  PROVE  IdsApart'
<1>1. CASE UNCHANGED toolVars \/ Checks \/ Replied
  BY <1>1, SameIds DEF toolVars, Checks, Replied
<1>2. CASE Asks
  <2>1. tools' = tools /\ turn' = turn + 1 /\ turn \in Nat
    BY <1>2, BoundsAssumption DEF Asks, TypeOK
  <2>2. OfTurn' = {}
    BY <2>1, ToolTyped DEF OfTurn, InOrder
  <2> QED BY <2>1, <2>2 DEF IdsApart
<1>3. ASSUME NEW call \in Calls,
             NEW status \in {"error", "skipped", "pending_confirm", "running"},
             Handles(call, status), FreshIds
      PROVE  IdsApart'
  <2>0. PICK n : n = Len(tools) + 1
    OBVIOUS
  <2>1. /\ Len(tools) \in Nat /\ DOMAIN tools = 1 .. Len(tools) /\ DOMAIN tools' = 1 .. n
        /\ \A i \in DOMAIN tools : tools'[i] = tools[i]
        /\ tools'[n].id = CallId /\ tools'[n].turn = turn
        /\ OfTurn' = OfTurn \cup {n} /\ Cardinality(OfTurn') = Cardinality(OfTurn) + 1
    BY <1>3, <2>0, HandlesFacts
  <2>2. \A i \in DOMAIN tools' : i \in DOMAIN tools \/ i = n
    BY <2>0, <2>1
  <2>3. pc = "calls" /\ todo # << >> /\ Len(todo) \in Nat \ {0}
    BY <1>3, HandlesFacts DEF Handles
  <2>4. Cardinality(OfTurn) \in Nat
    BY OfTurnFacts
  <2>5. PICK k \in Nat : /\ CallId = <<turn, k>> /\ k <= Cardinality(OfTurn) + 1
                         /\ \A i \in OfTurn : tools[i].id[2] < k
    <3>1. CASE recovered
      <4>1. CallId = <<turn, 0>> /\ OfTurn = {}
        BY <2>3, <3>1, CallIdFacts DEF InOrder, Handling
      <4> QED BY <2>4, <4>1
    <3>2. CASE ~recovered
      <4>1. CallId = <<turn, Cardinality(OfTurn) + 1>>
        BY <1>3, <2>3, <3>2, CallIdFacts
      <4>2. \A i \in OfTurn : tools[i].id[2] <= Cardinality(OfTurn) /\ tools[i].id[2] \in Nat
        BY <1>3, ToolTyped DEF IdsApart, OfTurn
      <4> QED BY <2>4, <4>1, <4>2
    <3> QED BY <3>1, <3>2
  <2>6. CallId[1] = turn /\ CallId[2] = k
    BY <2>5
  <2>7. \A i \in DOMAIN tools : tools[i].id # CallId
    <3> SUFFICES ASSUME NEW i \in DOMAIN tools, tools[i].id = CallId PROVE FALSE
      OBVIOUS
    <3>1. tools[i].turn = turn
      BY <1>3, <2>6 DEF IdsApart
    <3>2. tools[i].id[2] < k
      BY <2>5, <3>1 DEF OfTurn
    <3> QED BY <2>5, <2>6, <3>2
  <2>8. \A i \in DOMAIN tools' : tools'[i].id[1] = tools'[i].turn
    BY <1>3, <2>1, <2>2, <2>6 DEF IdsApart
  <2>9. \A i \in OfTurn' : tools'[i].id[2] <= Cardinality(OfTurn')
    <3> TAKE i \in OfTurn'
    <3>1. CASE i \in OfTurn
      <4>1. i \in DOMAIN tools /\ tools'[i] = tools[i] /\ tools[i].id[2] \in Nat
        BY <2>1, <3>1, ToolTyped DEF OfTurn
      <4>2. tools[i].id[2] < k
        BY <2>5, <3>1
      <4> QED BY <2>1, <2>4, <2>5, <4>1, <4>2
    <3>2. CASE i = n
      BY <2>1, <2>5, <2>6, <3>2
    <3> QED BY <2>1, <3>1, <3>2
  <2>10. \A i, j \in DOMAIN tools' : tools'[i].id = tools'[j].id => i = j
    BY <1>3, <2>1, <2>2, <2>7 DEF IdsApart
  <2> QED BY <2>8, <2>9, <2>10 DEF IdsApart
<1>4. CASE Approved
  <2>1. PICK t : t = [Current EXCEPT !.status = "running"]
    OBVIOUS
  <2>2. /\ pc = "approval" /\ turn' = turn /\ t \in Tool
        /\ t.id = Current.id /\ t.turn = Current.turn
        /\ tools' = [tools EXCEPT ![Len(tools)] = t]
    BY <1>4, <2>1, ApprovedFacts DEF Approved
  <2> QED BY <2>2, ReplaceFacts, SameIds
<1>5. ASSUME NEW t \in Tool, Returns(t) PROVE IdsApart'
  <2>1. /\ pc = "tool" /\ turn' = turn
        /\ t.id = Current.id /\ t.turn = Current.turn
        /\ tools' = [tools EXCEPT ![Len(tools)] = t]
    BY <1>5 DEF Returns
  <2> QED BY <2>1, ReplaceFacts, SameIds
<1>6. CASE Ends
  BY <1>6, SameIds DEF Ends, Alike
<1>7. CASE ~FreshIds
  BY <1>7 DEF IdsApart
<1> QED BY <1>1, <1>2, <1>3, <1>4, <1>5, <1>6, <1>7 DEF ToolStep

-----------------------------------------------------------------------------
(* The least and the greatest of the positions in a list.                  *)

LEMMA LeastIn ==
  ASSUME NEW S \in SUBSET Nat, S # {}
  PROVE  \E n \in S : \A k \in S : n <= k
<1> DEFINE Less == {ss \in Nat \X Nat : ss[1] < ss[2]}
<1>1. IsWellFoundedOn(Less, Nat)
  BY NatLessThanWellFounded DEF OpToRel
<1>2. PICK n \in S : \A k \in S : <<k, n>> \notin Less
  <2> HIDE DEF Less
  <2> QED BY <1>1, WFMin
<1>3. \A k \in S : ~(k < n)
  BY <1>2
<1> QED BY <1>3

LEMMA MinMaxIn ==
  ASSUME NEW n \in Nat, NEW S \in SUBSET (1 .. n), S # {}
  PROVE  Min(S) \in S /\ Max(S) \in S
<1>1. PICK a \in S : \A k \in S : a <= k
  BY LeastIn
<1>2. PICK b \in {n - k : k \in S} : \A k \in {n - k : k \in S} : b <= k
  <2>1. {n - k : k \in S} \in SUBSET Nat /\ {n - k : k \in S} # {}
    OBVIOUS
  <2> QED BY <2>1, LeastIn
<1>3. PICK c \in S : b = n - c
  BY <1>2
<1>4. \A k \in S : c >= k
  <2> TAKE k \in S
  <2>1. n - c <= n - k
    BY <1>2, <1>3
  <2> QED BY <2>1
<1> QED BY <1>1, <1>4 DEF Min, Max

-----------------------------------------------------------------------------
(* The channel to the session's process.                                   *)

LEMMA MsgApart ==
  ASSUME NEW op, NEW id, NEW op2, NEW id2, Msg(op, id) = Msg(op2, id2)
  PROVE  op = op2 /\ id = id2
<1>1. Msg(op, id).op = op /\ Msg(op, id).id = id
  BY DEF Msg
<1>2. Msg(op2, id2).op = op2 /\ Msg(op2, id2).id = id2
  BY DEF Msg
<1> QED BY <1>1, <1>2

(* A message is put into the channel.                                      *)
LEMMA LinkGrows ==
  ASSUME WorkTypes, NEW m \in Message, link' = Append(link, m)
  PROVE  /\ Sent' = Sent \cup {m} /\ DOMAIN link \subseteq DOMAIN link'
         /\ \E n \in DOMAIN link' :
              /\ n \notin DOMAIN link /\ link'[n] = m
              /\ \A j \in DOMAIN link' : j = n \/ (j \in DOMAIN link /\ link'[j] = link[j])
              /\ \A j \in DOMAIN link : link'[j] = link[j] /\ j < n
              /\ \A j \in DOMAIN link' : ~(n < j)
<1>1. /\ Len(link) \in Nat /\ DOMAIN link = 1 .. Len(link)
      /\ DOMAIN link' = 1 .. Len(link) + 1 /\ link'[Len(link) + 1] = m
      /\ \A i \in DOMAIN link : link'[i] = link[i]
  BY Appended DEF WorkTypes
<1>2. PICK n : n = Len(link) + 1
  OBVIOUS
<1>3. /\ n \in DOMAIN link' /\ n \notin DOMAIN link /\ link'[n] = m
      /\ \A j \in DOMAIN link' : j = n \/ j \in DOMAIN link
      /\ \A j \in DOMAIN link : j \in DOMAIN link' /\ j < n
      /\ \A j \in DOMAIN link' : ~(n < j)
  BY <1>1, <1>2
<1>4. Sent' = Sent \cup {m}
  BY <1>1, <1>3 DEF Sent
<1> QED BY <1>1, <1>3, <1>4

LEMMA SentTyped ==
  ASSUME WorkTypes
  PROVE  /\ Sent \subseteq Message
         /\ \A j \in DOMAIN link : /\ link[j] \in Message /\ link[j] \in Sent
                                   /\ link[j] = Msg(link[j].op, link[j].id)
                                   /\ link[j].id \in Ids
<1>1. \A j \in DOMAIN link : link[j] \in Message
  BY LenProperties, ElementOfSeq DEF WorkTypes
<1> QED BY <1>1, MsgIs DEF Sent

(* Of what is on its way the process takes the first, or nothing.          *)
Taking == link' = link \/ (link # << >> /\ link' = Tail(link))

LEMMA Shifted ==
  ASSUME WorkTypes, Taking
  PROVE  \E f \in [DOMAIN link' -> DOMAIN link] :
           /\ \A j \in DOMAIN link' : link'[j] = link[f[j]]
           /\ \A j, k \in DOMAIN link' : j < k <=> f[j] < f[k]
           /\ \A j, k \in DOMAIN link' : f[j] = f[k] => j = k
           /\ \A i \in DOMAIN link :
                \/ \E j \in DOMAIN link' : f[j] = i
                \/ link # << >> /\ link' = Tail(link) /\ link[i] = Head(link)
           /\ \A j \in DOMAIN link', i \in DOMAIN link :
                f[j] < i => \E k \in DOMAIN link' : f[k] = i
           /\ link # << >> /\ link' = Tail(link) =>
                \E i \in DOMAIN link : /\ link[i] = Head(link)
                                       /\ \A j \in DOMAIN link' : i < f[j]
<1>1. Len(link) \in Nat /\ DOMAIN link = 1 .. Len(link)
  BY LenProperties DEF WorkTypes
<1>2. CASE link' = link /\ ~(link # << >> /\ link' = Tail(link))
  <2>1. PICK f : f = [j \in DOMAIN link' |-> j]
    OBVIOUS
  <2>2. f \in [DOMAIN link' -> DOMAIN link] /\ \A j \in DOMAIN link' : f[j] = j
    BY <1>2, <2>1
  <2> USE <2>2
  <2> WITNESS f \in [DOMAIN link' -> DOMAIN link]
  <2> HIDE <2>2
  <2>3. \A j, k \in DOMAIN link' : (j < k <=> f[j] < f[k]) /\ (f[j] = f[k] => j = k)
    BY <2>2
  <2>4. \A i \in DOMAIN link : \E j \in DOMAIN link' : f[j] = i
    BY <1>2, <2>2
  <2>5. \A j \in DOMAIN link' : link'[j] = link[f[j]]
    BY <1>2, <2>2
  <2> QED BY <1>2, <2>3, <2>4, <2>5
<1>3. CASE link # << >> /\ link' = Tail(link)
  <2>1. /\ Head(link) = link[1] /\ Len(link) \in Nat \ {0}
        /\ DOMAIN link = 1 .. Len(link) /\ DOMAIN link' = 1 .. Len(link) - 1
        /\ \A i \in DOMAIN link' : i + 1 \in DOMAIN link /\ link'[i] = link[i + 1]
    BY <1>3, Taken
  <2>2. PICK f : f = [j \in DOMAIN link' |-> j + 1]
    OBVIOUS
  <2>3. f \in [DOMAIN link' -> DOMAIN link] /\ \A j \in DOMAIN link' : f[j] = j + 1
    BY <2>1, <2>2
  <2>4. \A i \in DOMAIN link : i = 1 \/ \E j \in DOMAIN link' : f[j] = i
    <3> TAKE i \in DOMAIN link
    <3>1. CASE i # 1
      <4>1. i - 1 \in DOMAIN link' /\ f[i - 1] = i
        BY <2>1, <2>3, <3>1
      <4> QED BY <4>1
    <3> QED BY <3>1
  <2>5. \A j \in DOMAIN link', i \in DOMAIN link :
          f[j] < i => \E k \in DOMAIN link' : f[k] = i
    BY <2>1, <2>3, <2>4
  <2>6. 1 \in DOMAIN link /\ \A j \in DOMAIN link' : 1 < f[j]
    BY <2>1, <2>3
  <2>7. \A j, k \in DOMAIN link' : (j < k <=> f[j] < f[k]) /\ (f[j] = f[k] => j = k)
    BY <2>1, <2>3
  <2>8. \A j \in DOMAIN link' : link'[j] = link[f[j]]
    BY <2>1, <2>3
  <2>9. \A i \in DOMAIN link : \/ \E j \in DOMAIN link' : f[j] = i
                             \/ link[i] = Head(link)
    BY <2>1, <2>4
  <2>10. \E i \in DOMAIN link : link[i] = Head(link) /\ \A j \in DOMAIN link' : i < f[j]
    BY <2>1, <2>6
  <2> USE <2>3
  <2> WITNESS f \in [DOMAIN link' -> DOMAIN link]
  <2> HIDE <2>3
  <2> QED BY <1>3, <2>5, <2>7, <2>8, <2>9, <2>10
<1> QED BY <1>2, <1>3 DEF Taking

(* A message is appended that cancels.                                     *)
LEMMA CancelSent ==
  ASSUME WorkTypes, NEW id \in Ids, link' = link \/ link' = Append(link, Msg("cancel", id))
  PROVE  /\ \A j \in DOMAIN link : j \in DOMAIN link' /\ link'[j] = link[j]
         /\ \A j \in DOMAIN link' : j \in DOMAIN link \/ link'[j].op = "cancel"
         /\ link' = Append(link, Msg("cancel", id)) =>
              \E k \in DOMAIN link' : /\ link'[k] = Msg("cancel", id)
                                     /\ \A j \in DOMAIN link : j < k
<1>1. CASE link' = link /\ link' # Append(link, Msg("cancel", id))
  BY <1>1
<1>2. CASE link' = Append(link, Msg("cancel", id))
  <2>1. Msg("cancel", id) \in Message /\ Msg("cancel", id).op = "cancel"
    BY MsgFacts
  <2> QED BY <1>2, <2>1, LinkGrows
<1> QED BY <1>1, <1>2

-----------------------------------------------------------------------------
(* What is safe stays safe.                                                *)

LEMMA SafeGrows ==
  ASSUME NEW these, NEW those, Safe(these), exec' \subseteq exec,
         \A j \in DOMAIN link : j \in DOMAIN link' /\ link'[j] = link[j],
         \A j \in DOMAIN link' :
           j \in DOMAIN link \/ link'[j].op = "cancel" \/ link'[j].id \in those,
         \A id \in these :
           \/ id \in those \/ Gone(id)
           \/ \E k \in DOMAIN link' : /\ link'[k] = Msg("cancel", id)
                                     /\ \A j \in DOMAIN link : j < k
  PROVE  Safe(those)'
<1>1. Sent \subseteq Sent'
  BY DEF Sent
<1>2. ASSUME NEW id \in exec' PROVE id \in those \/ Msg("cancel", id) \in Sent'
  <2>1. id \in exec /\ ~Gone(id)
    BY <1>2 DEF Gone
  <2>2. CASE id \in these
    BY <2>1, <2>2 DEF Sent
  <2>3. CASE id \notin these
    BY <1>1, <2>1, <2>3 DEF Safe
  <2> QED BY <2>2, <2>3
<1>3. ASSUME NEW j \in DOMAIN link', link'[j].op # "cancel"
      PROVE  \/ link'[j].id \in those
             \/ \E k \in DOMAIN link' : j < k /\ link'[k] = Msg("cancel", link'[j].id)
  <2>1. CASE j \in DOMAIN link
    <3>1. link[j] = link'[j] /\ ~Gone(link[j].id)
      BY <1>3, <2>1 DEF Gone
    <3>2. CASE link[j].id \in these
      BY <2>1, <3>1, <3>2
    <3>3. CASE link[j].id \notin these
      <4>1. PICK k \in DOMAIN link : j < k /\ link[k] = Msg("cancel", link[j].id)
        BY <1>3, <2>1, <3>1, <3>3 DEF Safe
      <4> QED BY <3>1, <4>1
    <3> QED BY <3>2, <3>3
  <2>2. CASE j \notin DOMAIN link
    BY <1>3, <2>2
  <2> QED BY <2>1, <2>2
<1> QED BY <1>2, <1>3 DEF Safe

LEMMA SafeTaken ==
  ASSUME TypeOK, Process, NEW these, Safe(these)
  PROVE  Safe(these)'
<1>0. WorkTypes /\ Taking
  BY WorkTyped DEF Process, ProcessStarts, ProcessCancels, CommandEnds, Taking
<1>1. PICK f \in [DOMAIN link' -> DOMAIN link] :
           /\ \A j \in DOMAIN link' : link'[j] = link[f[j]]
           /\ \A j, k \in DOMAIN link' : j < k <=> f[j] < f[k]
           /\ \A i \in DOMAIN link :
                \/ \E j \in DOMAIN link' : f[j] = i
                \/ link # << >> /\ link' = Tail(link) /\ link[i] = Head(link)
           /\ \A j \in DOMAIN link', i \in DOMAIN link :
                f[j] < i => \E k \in DOMAIN link' : f[k] = i
           /\ link # << >> /\ link' = Tail(link) =>
                \E i \in DOMAIN link : /\ link[i] = Head(link)
                                       /\ \A j \in DOMAIN link' : i < f[j]
  BY <1>0, Shifted
<1>2. ASSUME NEW j \in DOMAIN link', link'[j].op # "cancel"
      PROVE  \/ link'[j].id \in these
             \/ \E k \in DOMAIN link' : j < k /\ link'[k] = Msg("cancel", link'[j].id)
  <2>1. CASE link'[j].id \notin these
    <3>1. PICK i \in DOMAIN link : f[j] < i /\ link[i] = Msg("cancel", link'[j].id)
      BY <1>1, <1>2, <2>1 DEF Safe
    <3>2. PICK k \in DOMAIN link' : f[k] = i
      BY <1>1, <3>1
    <3> QED BY <1>1, <3>1, <3>2
  <2> QED BY <2>1
<1>3. \A m \in Sent : m \in Sent' \/ (link' = Tail(link) /\ link # << >> /\ m = Head(link))
  BY <1>1 DEF Sent
<1>4. CASE ProcessStarts
  <2>1. link # << >> /\ link' = Tail(link) /\ Head(link).op # "cancel"
        /\ exec' \subseteq exec \cup {Head(link).id}
    BY <1>4 DEF ProcessStarts
  <2>2. \A id \in exec : Msg("cancel", id) # Head(link)
    <3>1. \A id \in exec : Msg("cancel", id).op = "cancel"
      BY DEF Msg
    <3> QED BY <2>1, <3>1
  <2>3. Head(link).id \in these \/ Msg("cancel", Head(link).id) \in Sent'
    <3>1. PICK i \in DOMAIN link : link[i] = Head(link)
      BY <1>1, <2>1
    <3>2. 1 \in DOMAIN link /\ link[1] = Head(link) /\ DOMAIN link = 1 .. Len(link)
          /\ Len(link) \in Nat
      BY <1>0, <2>1, Taken
    <3>3. CASE Head(link).id \notin these
      <4>1. PICK k \in DOMAIN link : 1 < k /\ link[k] = Msg("cancel", Head(link).id)
        BY <2>1, <3>2, <3>3 DEF Safe
      <4>2. PICK n : n = k - 1
        OBVIOUS
      <4>3. n \in DOMAIN link' /\ link'[n] = link[k]
        <5>1. DOMAIN link' = 1 .. Len(link) - 1
              /\ \A x \in DOMAIN link' : link'[x] = link[x + 1]
          BY <1>0, <2>1, Taken
        <5>2. n \in 1 .. Len(link) - 1 /\ n + 1 = k
          BY <3>2, <4>1, <4>2
        <5> QED BY <5>1, <5>2
      <4> QED BY <4>1, <4>3 DEF Sent
    <3> QED BY <3>3
  <2>4. \A id \in exec' : id \in these \/ Msg("cancel", id) \in Sent'
    BY <1>3, <2>1, <2>2, <2>3 DEF Safe
  <2> QED BY <1>2, <2>4 DEF Safe
<1>5. CASE ProcessCancels
  <2>1. /\ link # << >> /\ Head(link).op = "cancel" /\ exec' \subseteq exec
        /\ Head(link).id \notin exec'
    BY <1>5 DEF ProcessCancels, Ended
  <2>2. \A id \in exec' : Msg("cancel", id) # Head(link)
    <3>1. \A id \in exec' : Msg("cancel", id).id = id
      BY DEF Msg
    <3> QED BY <2>1, <3>1
  <2>3. \A id \in exec' : id \in these \/ Msg("cancel", id) \in Sent'
    BY <1>3, <2>1, <2>2 DEF Safe
  <2> QED BY <1>2, <2>3 DEF Safe
<1>6. CASE CommandEnds
  <2>1. exec' \subseteq exec /\ link' = link
    BY <1>6 DEF CommandEnds, Ended
  <2>2. Sent' = Sent
    BY <2>1 DEF Sent
  <2> QED BY <2>1, <2>2 DEF Safe
<1> QED BY <1>4, <1>5, <1>6 DEF Process

-----------------------------------------------------------------------------
(* While a run is not over, its starts are awaited or given up, and it can *)
(* reach whatever it has begun.                                            *)

LEMMA BegunGrows ==
  ASSUME \A i \in DOMAIN tools :
           /\ i \in DOMAIN tools'
           /\ tools'[i].id = tools[i].id
           /\ tools'[i].status = "pending_confirm" => tools[i].status = "pending_confirm"
  PROVE  BegunIds \subseteq BegunIds'
  BY DEF BegunIds

(* Without a request that waits, what is to start was given up.            *)
LEMMA AllForgotten ==
  ASSUME TypeOK, Awaiting, starting = None \/ answer # "none"
  PROVE  \A j \in DOMAIN link : link[j].op = "start" => link[j].id \in forgotten
  BY SentTyped, WorkTyped, NoneAssumption DEF Awaiting, StartsAwaited

LEMMA NothingStarts ==
  ASSUME TypeOK, Awaiting, pc # "tool"
  PROVE  /\ starting = None
         /\ \A j \in DOMAIN link : link[j].op = "start" => link[j].id \in forgotten
<1>1. starting = None
  BY DEF Awaiting
<1> QED BY <1>1, AllForgotten

(* Where only cancellations are sent, what runs stays traced.              *)
LEMMA TracedStays ==
  ASSUME Traced, exec' = exec, BegunIds \subseteq BegunIds',
         \A j \in DOMAIN link' :
           (j \in DOMAIN link /\ link'[j] = link[j]) \/ link'[j].op = "cancel"
  PROVE  Traced'
  BY DEF Traced

LEMMA QuietKeeps ==
  ASSUME TypeOK, Watched, Quiet
  PROVE  Watched' /\ (Kept => Kept')
<1>1. tools' = tools /\ UNCHANGED workVars /\ (pc' = "tool" <=> pc = "tool")
  BY DEF Quiet, toolVars, Asks, Checks, Replied
<1>2. Awaiting'
  BY <1>1 DEF Watched, Awaiting, StartsAwaited, workVars, Current
<1>3. JobsKnown'
  BY <1>1 DEF Watched, JobsKnown, workVars, Observations
<1>4. Kept => Kept'
  <2>1. Reached' = Reached
    BY <1>1 DEF Reached, Mine, workVars, Current
  <2> QED BY <1>1, <2>1
          DEF Kept, Traced, Settled, Gone, Safe, workVars, Sent, BegunIds, Current
<1> QED BY <1>2, <1>3, <1>4 DEF Watched

(* A call is handled that is not begun.                                    *)
LEMMA PassesKeep ==
  ASSUME TypeOK, Counters, InOrder, Watched, NEW call \in Calls,
         NEW status \in {"error", "skipped", "pending_confirm", "running"},
         Handles(call, status), status # "running", UNCHANGED workVars
  PROVE  Watched' /\ (Kept => Kept')
<1>0. PICK n : n = Len(tools) + 1
  OBVIOUS
<1>1. /\ DOMAIN tools = 1 .. Len(tools) /\ DOMAIN tools' = 1 .. n /\ Len(tools) \in Nat
      /\ \A i \in DOMAIN tools : tools'[i] = tools[i]
      /\ ~tools'[n].executed
  BY <1>0, HandlesFacts
<1>2. \A i \in DOMAIN tools : i \in DOMAIN tools'
  BY <1>0, <1>1
<1>3. \A i \in DOMAIN tools' : i \in DOMAIN tools \/ i = n
  BY <1>0, <1>1
<1>4. pc # "tool" /\ pc' # "tool"
  BY DEF Handles
<1>5. BegunIds \subseteq BegunIds'
  BY <1>1, <1>2, BegunGrows
<1>6. Observations' = Observations /\ \A i \in Observations : tools'[i] = tools[i]
  BY <1>1, <1>2, <1>3 DEF Observations
<1>7. Kept => Kept'
  <2>1. Reached' = Reached
    BY <1>4 DEF Reached, Mine, workVars
  <2> QED BY <1>4, <1>5, <2>1 DEF Kept, Traced, Settled, Safe, workVars, Sent
<1>8. Awaiting'
  <2>1. starting = None /\ \A j \in DOMAIN link : link[j].op = "start" => link[j].id \in forgotten
    BY <1>4, NothingStarts DEF Watched
  <2>2. UNCHANGED <<starting, link, forgotten>>
    BY DEF workVars
  <2> QED BY <1>4, <2>1, <2>2 DEF Awaiting, StartsAwaited
<1>9. JobsKnown'
  BY <1>6 DEF Watched, JobsKnown, workVars
<1> QED BY <1>7, <1>8, <1>9 DEF Watched

(* A call is begun: what starts is awaited.                                *)
LEMMA BeginsWatched ==
  ASSUME TypeOK, Watched, pc # "tool", pc' = "tool",
         NEW call \in Calls, NEW id \in Ids, BeginsWork(call, id),
         Current'.call = call, Current'.id = id,
         Observations' = Observations, \A i \in Observations : tools'[i] = tools[i]
  PROVE  Watched'
<1>0. WorkTypes /\ Msg("run", id) \in Message /\ Msg("start", id) \in Message
  BY WorkTyped, MsgFacts
<1>1. starting = None /\ \A j \in DOMAIN link : link[j].op = "start" => link[j].id \in forgotten
  BY NothingStarts DEF Watched
<1>2. exec' = exec /\ job' = job /\ forgotten' = forgotten
  BY DEF BeginsWork
<1>3. \A x \in Ids : job[x] = "running" =>
        \/ x \in forgotten
        \/ \E i \in Observations : tools[i].task = x
                                   /\ tools[i].call.name = "run_background_command"
  BY <1>1, NoneAssumption DEF Watched, JobsKnown
<1>4. \A x \in known : job[x] # "none"
  BY <1>1, NoneAssumption DEF Watched, JobsKnown, TypeOK
<1>5. known' \subseteq known \/ known' = known \cup {starting'}
  BY DEF BeginsWork
<1>6. JobsKnown'
  BY <1>2, <1>3, <1>4, <1>5 DEF Watched, JobsKnown
<1>7. CASE /\ call.name = "send_terminal_command"
           /\ link' = Append(link, Msg("run", id))
           /\ UNCHANGED <<listening, known, starting>>
  <2>1. \A j \in DOMAIN link' : link'[j].op = "start" => link'[j].id \in forgotten
    <3>1. PICK n : /\ link'[n] = Msg("run", id)
                   /\ \A j \in DOMAIN link' : j = n \/ (j \in DOMAIN link /\ link'[j] = link[j])
      BY <1>0, <1>7, LinkGrows
    <3>2. Msg("run", id).op = "run"
      BY MsgFacts
    <3> QED BY <1>1, <3>1, <3>2
  <2> QED BY <1>1, <1>2, <1>6, <1>7, <2>1 DEF Watched, Awaiting, StartsAwaited
<1>8. CASE /\ call.name = "run_background_command"
           /\ answer' = "none" /\ link' = Append(link, Msg("start", id))
           /\ listening' = listening \cup {id} /\ known' = known \cup {id}
           /\ starting' = id
  <2>1. PICK n : /\ link'[n] = Msg("start", id)
                 /\ \A j \in DOMAIN link' : j = n \/ (j \in DOMAIN link /\ link'[j] = link[j])
                 /\ \A j \in DOMAIN link' : ~(n < j)
    BY <1>0, <1>8, LinkGrows
  <2>2. \A j \in DOMAIN link' : link'[j].op = "start" /\ link'[j].id \notin forgotten => j = n
    BY <1>1, <2>1
  <2>3. Msg("start", id).id = id
    BY MsgFacts
  <2>4. StartsAwaited'
    BY <1>2, <1>8, <2>1, <2>2, <2>3 DEF StartsAwaited
  <2> QED BY <1>6, <1>8, <2>4, NoneAssumption DEF Watched, Awaiting
<1>9. CASE call.name \notin Commands /\ UNCHANGED <<answer, link, listening, known, starting>>
  BY <1>1, <1>2, <1>6, <1>9 DEF Watched, Awaiting, StartsAwaited, Commands
<1> QED BY <1>7, <1>8, <1>9 DEF BeginsWork

(* Its id is new to the session's process, and the run can reach it.       *)
LEMMA BeginsKept ==
  ASSUME TypeOK, Kept, pc # "tool", pc' = "tool",
         NEW call \in Calls, NEW id \in Ids, BeginsWork(call, id),
         Current'.call = call, Current'.id = id,
         BegunIds \subseteq BegunIds', id \notin BegunIds, id \in BegunIds'
  PROVE  Kept'
<1>0. WorkTypes /\ Msg("run", id) \in Message /\ Msg("start", id) \in Message
      /\ Msg("run", id).id = id /\ Msg("start", id).id = id
  BY WorkTyped, MsgFacts
<1>1. /\ exec' = exec /\ forgotten' = forgotten
      /\ listening \subseteq listening' /\ known \subseteq known'
  BY DEF BeginsWork
<1>2. Gone(id)
  BY DEF Kept, Traced, Gone
<1>3. Reached \subseteq Reached'
  BY <1>1 DEF Reached, Mine
<1>4. PICK these, those : these = Reached /\ those = Reached'
  OBVIOUS
<1>5. ASSUME NEW m \in {Msg("run", id), Msg("start", id)}, link' = Append(link, m),
             id \in Reached', answer' = "none"
      PROVE  Kept'
  <2>1. PICK n \in DOMAIN link' :
          /\ n \notin DOMAIN link /\ link'[n] = m
          /\ \A j \in DOMAIN link' : j = n \/ (j \in DOMAIN link /\ link'[j] = link[j])
          /\ \A j \in DOMAIN link : j \in DOMAIN link' /\ link'[j] = link[j]
    BY <1>0, <1>5, LinkGrows
  <2>2. m.id = id
    BY <1>0, <1>5
  <2>3. Traced'
    BY <1>1, <1>2, <2>1, <2>2 DEF Kept, Traced, Gone
  <2>4. Safe(those)'
    BY <1>1, <1>3, <1>4, <1>5, <2>1, <2>2, SafeGrows DEF Kept
  <2>5. Settled'
    BY <1>5 DEF Settled
  <2> QED BY <1>4, <2>3, <2>4, <2>5 DEF Kept, Safe
<1>6. CASE /\ call.name = "send_terminal_command"
           /\ answer' = "none" /\ link' = Append(link, Msg("run", id))
  <2>1. id \in Reached'
    BY <1>6 DEF Reached, Mine
  <2> QED BY <1>5, <1>6, <2>1
<1>7. CASE /\ call.name = "run_background_command"
           /\ answer' = "none" /\ link' = Append(link, Msg("start", id))
           /\ listening' = listening \cup {id} /\ known' = known \cup {id}
  <2>1. id \in Reached'
    BY <1>7 DEF Reached
  <2> QED BY <1>5, <1>7, <2>1
<1>8. CASE call.name \notin Commands /\ link' = link
  <2>1. Traced'
    BY <1>1, <1>8, TracedStays DEF Kept
  <2>2. Safe(those)'
    BY <1>1, <1>3, <1>4, <1>8, SafeGrows DEF Kept
  <2>3. Settled'
    BY <1>8 DEF Settled
  <2> QED BY <1>4, <2>1, <2>2, <2>3 DEF Kept, Safe
<1> QED BY <1>6, <1>7, <1>8 DEF BeginsWork

LEMMA HandledBegins ==
  ASSUME TypeOK, Counters, InOrder, Watched, NEW call \in Calls,
         Handles(call, "running"), BeginsWork(call, CallId)
  PROVE  Watched' /\ (FreshIds /\ IdsApart' /\ Kept => Kept')
<1>0. PICK n : n = Len(tools) + 1
  OBVIOUS
<1>1. /\ DOMAIN tools = 1 .. Len(tools) /\ DOMAIN tools' = 1 .. n /\ Len(tools) \in Nat
      /\ Len(tools') = n
      /\ \A i \in DOMAIN tools : tools'[i] = tools[i]
      /\ ~tools'[n].executed /\ tools'[n].id = CallId /\ tools'[n].call = call
      /\ tools'[n].status = "running"
  BY <1>0, HandlesFacts
<1>2. /\ \A i \in DOMAIN tools : i \in DOMAIN tools' /\ i # n
      /\ n \in DOMAIN tools' /\ \A i \in DOMAIN tools' : i \in DOMAIN tools \/ i = n
  BY <1>0, <1>1
<1>3. pc # "tool" /\ pc' = "tool" /\ pc = "calls" /\ todo # << >>
  BY DEF Handles
<1>4. PICK id \in Ids : id = CallId
  BY <1>3, CallIdFacts
<1>5. Observations' = Observations /\ \A i \in Observations : tools'[i] = tools[i]
  BY <1>1, <1>2 DEF Observations
<1>6. Current'.call = call /\ Current'.id = id
  BY <1>1, <1>4 DEF Current
<1>7. Watched'
  BY <1>3, <1>4, <1>5, <1>6, BeginsWatched
<1>8. ASSUME FreshIds, IdsApart', Kept PROVE Kept'
  <2>1. BegunIds \subseteq BegunIds'
    BY <1>1, <1>2, BegunGrows
  <2>2. id \notin BegunIds
    BY <1>1, <1>2, <1>4, <1>8 DEF BegunIds, IdsApart
  <2>3. id \in BegunIds'
    BY <1>1, <1>2, <1>4 DEF BegunIds
  <2> QED BY <1>3, <1>4, <1>6, <1>8, <2>1, <2>2, <2>3, BeginsKept
<1> QED BY <1>7, <1>8

LEMMA ApprovedBegins ==
  ASSUME TypeOK, InOrder, Watched, ApprovesWork
  PROVE  Watched' /\ (FreshIds /\ IdsApart /\ Kept => Kept')
<1>0. PICK n : n = Len(tools)
  OBVIOUS
<1>1. PICK t : t = [Current EXCEPT !.status = "running"]
  OBVIOUS
<1>2. /\ pc = "approval" /\ pc' = "tool" /\ turn' = turn
      /\ BeginsWork(Current.call, Current.id)
  BY DEF ApprovesWork, Approved
<1>3. /\ t \in Tool /\ t.id = Current.id /\ t.turn = Current.turn /\ t.call = Current.call
      /\ t.status = "running" /\ t.executed = Current.executed
      /\ tools' = [tools EXCEPT ![Len(tools)] = t]
  BY <1>1, ApprovedFacts DEF ApprovesWork
<1>4. /\ DOMAIN tools' = DOMAIN tools /\ n \in DOMAIN tools
      /\ Current = tools[n] /\ Current' = t /\ tools'[n] = t
      /\ \A i \in DOMAIN tools : i # n => tools'[i] = tools[i]
  BY <1>0, <1>2, <1>3, ReplaceFacts
<1>5. PICK call \in Calls, id \in Ids : call = Current.call /\ id = Current.id
  BY <1>2, CurrentFacts
<1>6. Current.status = "pending_confirm" /\ ~Current.executed
  BY <1>2 DEF InOrder
<1>7. Observations' = Observations /\ \A i \in Observations : tools'[i] = tools[i]
  BY <1>3, <1>4, <1>6 DEF Observations
<1>8. Watched'
  BY <1>2, <1>3, <1>4, <1>5, <1>7, BeginsWatched
<1>9. ASSUME FreshIds, IdsApart, Kept PROVE Kept'
  <2>1. BegunIds \subseteq BegunIds'
    BY <1>3, <1>4, BegunGrows
  <2>2. id \notin BegunIds
    BY <1>4, <1>5, <1>6, <1>9 DEF BegunIds, IdsApart
  <2>3. id \in BegunIds'
    BY <1>3, <1>4, <1>5 DEF BegunIds
  <2> QED BY <1>2, <1>3, <1>4, <1>5, <1>9, <2>1, <2>2, <2>3, BeginsKept
<1> QED BY <1>8, <1>9

-----------------------------------------------------------------------------
(* A tool returns, or the run gives it up.                                 *)

AnswerWork(t) ==
  /\ Returns(t)
  /\ t.executed /\ t.task # None =>
       /\ job[t.task] # "none"
       /\ job[t.task] = "running" => t.seen = "running"
  /\ starting' = None /\ UNCHANGED <<listening, exec, job>>
  /\ \/ /\ UNCHANGED <<link, known, answer, forgotten>>
        /\ Mine # {} => answer = "ended"
        /\ starting # None => answer = "started" /\ t.executed /\ t.task = starting
     \/ /\ starting = None /\ link' = Append(link, Msg("cancel", Current.id))
        /\ UNCHANGED <<known, answer, forgotten>>
     \/ GivesUp /\ link' = link /\ ~t.executed /\ Current.call.name \in Commands

LEMMA ResultFacts ==
  ASSUME TypeOK, InOrder, pc = "tool", NEW out \in Out, NEW usable \in BOOLEAN,
         NEW task \in Ids \cup {None}, NEW seen \in JobStates,
         ToolCompletes(out, usable, task, seen),
         UNCHANGED <<turn, todo, recovered, handled, actions>>
  PROVE  \E t \in Tool : Returns(t) /\ t.executed /\ t.task = task /\ t.seen = seen
<1>1. PICK t : t = Completed(Current, out, usable, task, seen)
  OBVIOUS
<1>2. Current \in Tool
  BY CurrentFacts
<1>3. t \in Tool /\ t.executed /\ t.task = task /\ t.seen = seen
  BY <1>1, <1>2, ToolCompleted
<1>4. Returns(t)
  BY <1>1, CompletesFacts
<1> QED BY <1>3, <1>4

LEMMA ErrorFacts ==
  ASSUME TypeOK, InOrder, pc = "tool", ToolFails,
         UNCHANGED <<turn, todo, recovered, handled, actions>>
  PROVE  \E t \in Tool : Returns(t) /\ ~t.executed
<1>1. PICK t : t = [Current EXCEPT !.status = "error"]
  OBVIOUS
<1>2. Current \in Tool /\ ~Current.executed
  BY CurrentFacts DEF InOrder
<1>3. Returns(t)
  BY <1>1, FailsFacts
<1>4. ~t.executed
  BY <1>1, <1>2 DEF Tool
<1> QED BY <1>3, <1>4 DEF Returns

LEMMA AnswersWork ==
  ASSUME TypeOK, InOrder, Watched, Answers
  PROVE  \E t \in Tool : AnswerWork(t)
<1>0. /\ pc = "tool" /\ UNCHANGED <<turn, todo, recovered, handled, actions, listening, exec, job>>
  BY AnswersAreTyped DEF Answers, CommandReturns, StartReturns, StatusReturns, ToolReturns,
     restOfTool
<1>1. Len(tools) \in Nat /\ Current.id \in Ids
  BY <1>0, CurrentFacts, LenProperties DEF TypeOK
<1>2. None \in Ids \cup {None} /\ "none" \in JobStates /\ "running" \in JobStates /\ 0 \in Nat
      /\ TRUE \in BOOLEAN /\ FALSE \in BOOLEAN
  BY DEF JobStates
<1>3. Current.call.name # "run_background_command" => starting = None
  BY <1>0 DEF Watched, Awaiting
<1>4. ASSUME UNCHANGED <<known, starting, answer, forgotten>>, starting = None,
             \/ link' = link /\ (Mine # {} => answer = "ended")
             \/ link' = Append(link, Msg("cancel", Current.id)),
             \/ ToolFails
             \/ \E out \in Out, usable \in BOOLEAN : ToolCompletes(out, usable, None, "none")
      PROVE  \E t \in Tool : AnswerWork(t)
  <2>1. CASE ToolFails
    BY <1>0, <1>4, <2>1, ErrorFacts DEF AnswerWork
  <2>2. ASSUME NEW out \in Out, NEW usable \in BOOLEAN, ToolCompletes(out, usable, None, "none")
        PROVE  \E t \in Tool : AnswerWork(t)
    <3>1. PICK t \in Tool : Returns(t) /\ t.executed /\ t.task = None
      BY <1>0, <1>2, <2>2, ResultFacts
    <3> QED BY <1>0, <1>4, <3>1 DEF AnswerWork
  <2> QED BY <1>4, <2>1, <2>2
<1>5. ASSUME ToolFails, GivesUp, UNCHANGED link, Current.call.name \in Commands
      PROVE  \E t \in Tool : AnswerWork(t)
  <2>1. PICK t \in Tool : Returns(t) /\ ~t.executed
    BY <1>0, <1>5, ErrorFacts
  <2>2. starting' = None
    BY <1>5 DEF GivesUp
  <2> QED BY <1>0, <1>5, <2>1, <2>2 DEF AnswerWork
<1>6. CASE CommandReturns
  <2>1. starting = None /\ Current.call.name \in Commands
    BY <1>3, <1>6 DEF CommandReturns, Awaited, Commands
  <2>2. \A o \in Outputs : <<o, 0>> \in Out
    BY <1>2, OutFacts
  <2>3. <<"timeout", 0>> \in Out
    BY <1>2, OutFacts
  <2> HIDE DEF Out
  <2>4. CASE /\ answer = "ended"
             /\ \E out \in Outputs, usable \in BOOLEAN :
                  ToolCompletes(<<out, 0>>, usable, None, "none")
             /\ UNCHANGED <<known, starting, answer, link, forgotten>>
    BY <1>4, <2>1, <2>2, <2>4
  <2>5. CASE /\ ToolCompletes(<<"timeout", 0>>, FALSE, None, "none")
             /\ link' = Append(link, Msg("cancel", Current.id))
             /\ UNCHANGED <<known, starting, answer, forgotten>>
    BY <1>2, <1>4, <2>1, <2>3, <2>5
  <2>6. CASE ToolFails /\ GivesUp /\ UNCHANGED link
    BY <1>5, <2>1, <2>6
  <2> QED BY <1>6, <2>4, <2>5, <2>6 DEF CommandReturns, Msg
<1>7. CASE StartReturns
  <2>1. link' = link /\ Current.call.name = "run_background_command"
    BY <1>7 DEF StartReturns, Awaited
  <2>2. CASE /\ answer = "started"
             /\ ToolCompletes(<<"started", Len(tools)>>, FALSE, Current.id, "running")
             /\ starting' = None /\ UNCHANGED <<known, answer, forgotten>>
    <3>1. <<"started", Len(tools)>> \in Out
      BY <1>1, OutFacts
    <3>2. PICK t \in Tool : Returns(t) /\ t.executed /\ t.task = Current.id /\ t.seen = "running"
      <4>1. PICK out \in Out, task \in Ids \cup {None}, usable \in BOOLEAN,
                 seen \in JobStates :
                   /\ out = <<"started", Len(tools)>> /\ task = Current.id
                   /\ usable = FALSE /\ seen = "running"
        BY <1>1, <1>2, <3>1
      <4> HIDE DEF Out
      <4>2. ToolCompletes(out, usable, task, seen)
        BY <2>2, <4>1
      <4> QED BY <1>0, <1>2, <4>1, <4>2, ResultFacts
    <3>3. starting = Current.id /\ job[Current.id] # "none"
      BY <1>0, <2>1, <2>2 DEF Watched, Awaiting
    <3>4. Mine = {}
      BY <2>1 DEF Mine
    <3> QED BY <1>0, <2>1, <2>2, <3>2, <3>3, <3>4 DEF AnswerWork
  <2>3. CASE ToolFails /\ GivesUp
    BY <1>5, <2>1, <2>3 DEF Commands
  <2> QED BY <1>7, <2>2, <2>3 DEF StartReturns
<1>8. CASE StatusReturns
  <2>1. UNCHANGED <<known, starting, answer, link, forgotten>> /\ starting = None /\ Mine = {}
    BY <1>3, <1>8 DEF StatusReturns, Awaited, Mine
  <2>2. CASE ToolFails
    BY <1>4, <2>1, <2>2
  <2>3. ASSUME NEW id \in known, NEW usable \in BOOLEAN, NEW n \in Nat,
               ToolCompletes(<<job[id], n>>, usable, id, job[id])
        PROVE  \E t \in Tool : AnswerWork(t)
    <3>1. id \in Ids \cup {None} /\ job[id] \in JobStates
      BY DEF TypeOK
    <3>2. <<job[id], n>> \in Out
      BY <3>1, OutFacts
    <3>3. PICK t \in Tool : Returns(t) /\ t.executed /\ t.task = id /\ t.seen = job[id]
      BY <1>0, <2>3, <3>1, <3>2, ResultFacts
    <3>4. job[id] # "none"
      BY <2>1, NoneAssumption DEF Watched, JobsKnown, TypeOK
    <3> QED BY <1>0, <2>1, <3>3, <3>4 DEF AnswerWork
  <2>4. ASSUME NEW id \in known,
               ToolCompletes(<<job[id], IF job[id] = "running" THEN Len(tools) ELSE 0>>,
                             job[id] \in {"completed", "failed"}, id, job[id])
        PROVE  \E t \in Tool : AnswerWork(t)
    <3>1. (IF job[id] = "running" THEN Len(tools) ELSE 0) \in Nat
      BY <1>1
    <3>2. (job[id] \in {"completed", "failed"}) \in BOOLEAN
      OBVIOUS
    <3> QED BY <2>3, <2>4, <3>1, <3>2
  <2> QED BY <1>8, <2>2, <2>4 DEF StatusReturns
<1>9. CASE ToolReturns
  <2>1. UNCHANGED <<known, starting, answer, link, forgotten>> /\ starting = None /\ Mine = {}
    BY <1>3, <1>9 DEF ToolReturns, Mine
  <2>2. \/ ToolFails
        \/ \E out \in Out, usable \in BOOLEAN : ToolCompletes(out, usable, None, "none")
    <3>1. \A o \in Outputs : <<o, 0>> \in Out
      BY <1>2, OutFacts
    <3> HIDE DEF Out
    <3> QED BY <1>2, <1>9, <3>1 DEF ToolReturns
  <2> QED BY <1>4, <2>1, <2>2
<1> QED BY <1>6, <1>7, <1>8, <1>9 DEF Answers

(* What the run gives up is remembered, unless it was refused.             *)
LEMMA GivingUp ==
  ASSUME TypeOK, InOrder, Watched, pc = "tool", Current.call.name \in Commands, GivesUp
  PROVE  /\ forgotten \subseteq forgotten' /\ known' \subseteq known
         /\ starting' = None /\ answer' = "lost"
         /\ \A j \in DOMAIN link : link[j].op = "start" => link[j].id \in forgotten'
         /\ \A id \in Ids : starting = id /\ answer = "started" => id \in forgotten'
         /\ \A id \in known' : job[id] # "none"
         /\ Settled => \A id \in Reached :
              id \in (listening \cap known') \cup forgotten' \/ Gone(id)
<1>1. /\ forgotten \subseteq forgotten' /\ known' = known \ {starting}
      /\ starting' = None /\ answer' = "lost"
      /\ answer # "refused" => Current.id \in forgotten'
  BY DEF GivesUp
<1>2. starting # None => starting = Current.id
  BY DEF Watched, Awaiting
<1>3. \A j \in DOMAIN link : link[j].op = "start" => link[j].id \in forgotten'
  BY <1>1, <1>2, SentTyped, WorkTyped, NoneAssumption DEF Watched, Awaiting, StartsAwaited
<1>4. \A id \in Ids : starting = id /\ answer = "started" => id \in forgotten'
  BY <1>1, <1>2, NoneAssumption
<1>5. \A id \in known' : job[id] # "none"
  BY <1>1 DEF Watched, JobsKnown
<1>6. ASSUME Settled, NEW id \in Reached
      PROVE  id \in (listening \cap known') \cup forgotten' \/ Gone(id)
  <2>1. Current.id \in forgotten' \/ Gone(Current.id)
    BY <1>1, <1>6 DEF Settled
  <2>2. CASE id \in listening \cap known
    <3>1. CASE id = starting
      <4>1. id = Current.id
        BY <1>2, <2>2, <3>1, NoneAssumption DEF TypeOK
      <4> QED BY <2>1, <4>1
    <3>2. CASE id # starting
      BY <1>1, <2>2, <3>2
    <3> QED BY <3>1, <3>2
  <2>3. CASE id \in Mine
    BY <2>1, <2>3 DEF Mine
  <2>4. CASE id \in forgotten
    BY <1>1, <2>4
  <2> QED BY <1>6, <2>2, <2>3, <2>4 DEF Reached
<1> QED BY <1>1, <1>3, <1>4, <1>5, <1>6

LEMMA GivesUpKeeps ==
  ASSUME TypeOK, InOrder, Watched, pc = "tool", Current.call.name \in Commands, GivesUp,
         UNCHANGED <<link, listening, exec, job>>, BegunIds \subseteq BegunIds',
         Observations' = Observations, \A i \in Observations : tools'[i] = tools[i]
  PROVE  Watched' /\ (Kept => Kept')
<1>1. /\ forgotten \subseteq forgotten' /\ known' \subseteq known
      /\ starting' = None /\ answer' = "lost"
      /\ \A j \in DOMAIN link : link[j].op = "start" => link[j].id \in forgotten'
      /\ \A id \in Ids : starting = id /\ answer = "started" => id \in forgotten'
      /\ \A id \in known' : job[id] # "none"
      /\ Settled => \A id \in Reached :
           id \in (listening \cap known') \cup forgotten' \/ Gone(id)
  BY GivingUp
<1>2. Awaiting'
  BY <1>1 DEF Awaiting, StartsAwaited
<1>3. JobsKnown'
  BY <1>1 DEF Watched, JobsKnown
<1>4. ASSUME Kept PROVE Kept'
  <2>1. Traced'
    BY <1>4, TracedStays DEF Kept
  <2>2. Settled'
    BY <1>1 DEF Settled
  <2>3. PICK these, those : these = Reached /\ those = Reached'
    OBVIOUS
  <2>4. \A id \in these : id \in those \/ Gone(id)
    BY <1>1, <1>4, <2>3 DEF Kept, Reached
  <2>5. Safe(those)'
    BY <1>4, <2>3, <2>4, SafeGrows DEF Kept
  <2> QED BY <2>1, <2>2, <2>3, <2>5 DEF Kept, Safe
<1> QED BY <1>2, <1>3, <1>4 DEF Watched

LEMMA AnswersKeep ==
  ASSUME TypeOK, InOrder, Watched, NEW t \in Tool, AnswerWork(t)
  PROVE  Watched' /\ (Kept => Kept')
<1>0. PICK n : n = Len(tools)
  OBVIOUS
<1>1. /\ pc = "tool" /\ pc' = "calls" /\ turn' = turn
      /\ t.id = Current.id /\ t.turn = Current.turn /\ t.call = Current.call
      /\ t.status \in {"completed", "error"}
      /\ tools' = [tools EXCEPT ![Len(tools)] = t]
  BY DEF AnswerWork, Returns
<1>2. /\ DOMAIN tools' = DOMAIN tools /\ n \in DOMAIN tools
      /\ Current = tools[n] /\ tools'[n] = t /\ ~tools[n].executed
      /\ \A i \in DOMAIN tools : i # n => tools'[i] = tools[i]
  BY <1>0, <1>1, ReplaceFacts DEF InOrder
<1>3. BegunIds \subseteq BegunIds'
  BY <1>1, <1>2, BegunGrows
<1>4. /\ starting' = None /\ UNCHANGED <<listening, exec, job>>
  BY DEF AnswerWork
<1>5. \A i \in Observations : i \in Observations' /\ tools'[i] = tools[i]
  BY <1>2 DEF Observations
<1>6. \A i \in Observations' : i \in Observations \/ (i = n /\ t.executed)
  BY <1>2 DEF Observations
<1>7. CASE GivesUp /\ link' = link /\ ~t.executed /\ Current.call.name \in Commands
  <2>1. Observations' = Observations
    BY <1>5, <1>6, <1>7
  <2> QED BY <1>1, <1>3, <1>4, <1>5, <1>7, <2>1, GivesUpKeeps
<1>8. ASSUME UNCHANGED <<known, answer, forgotten>>,
             starting # None => answer = "started" /\ t.executed /\ t.task = starting,
             \/ link' = link /\ (Mine # {} => answer = "ended")
             \/ link' = Append(link, Msg("cancel", Current.id))
      PROVE  Watched' /\ (Kept => Kept')
  <2>1. PICK id \in Ids : id = Current.id
    BY <1>1, CurrentFacts
  <2>2. /\ \A j \in DOMAIN link : j \in DOMAIN link' /\ link'[j] = link[j]
        /\ \A j \in DOMAIN link' : j \in DOMAIN link \/ link'[j].op = "cancel"
        /\ link' = Append(link, Msg("cancel", id)) =>
             \E k \in DOMAIN link' : /\ link'[k] = Msg("cancel", id)
                                     /\ \A j \in DOMAIN link : j < k
    BY <1>8, <2>1, WorkTyped, CancelSent
  <2>3. \A j \in DOMAIN link : link[j].op = "start" => link[j].id \in forgotten
    BY <1>8, AllForgotten DEF Watched
  <2>4. Awaiting'
    BY <1>1, <1>4, <1>8, <2>2, <2>3 DEF Awaiting, StartsAwaited
  <2>5. ASSUME NEW x \in Ids, job[x] = "running"
        PROVE  \/ x \in forgotten
               \/ \E i \in Observations' : tools'[i].task = x
                                          /\ tools'[i].call.name = "run_background_command"
    <3>1. CASE starting = x /\ answer = "started"
      <4>1. x # None
        BY NoneAssumption
      <4>2. t.executed /\ t.task = x
        BY <1>8, <3>1, <4>1
      <4>3. Current.call.name = "run_background_command"
        BY <3>1, <4>1 DEF Watched, Awaiting
      <4>4. n \in Observations'
        BY <1>2, <4>2 DEF Observations
      <4> QED BY <1>1, <1>2, <4>2, <4>3, <4>4
    <3>2. CASE ~(starting = x /\ answer = "started")
      BY <1>5, <2>5, <3>2 DEF Watched, JobsKnown
    <3> QED BY <3>1, <3>2
  <2>6. ASSUME NEW x \in known PROVE job[x] # "none"
    <3>1. CASE starting = x
      <4>1. x # None /\ answer = "started"
        BY <1>8, <3>1, NoneAssumption DEF TypeOK
      <4> QED BY <3>1, <4>1 DEF Watched, Awaiting
    <3>2. CASE starting # x
      BY <3>2 DEF Watched, JobsKnown
    <3> QED BY <3>1, <3>2
  <2>7. ASSUME NEW i \in Observations', tools'[i].task # None
        PROVE  /\ job[tools'[i].task] # "none"
               /\ job[tools'[i].task] = "running" => tools'[i].seen = "running"
    <3>1. CASE i \in Observations
      BY <1>5, <2>7, <3>1 DEF Watched, JobsKnown
    <3>2. CASE i = n /\ t.executed
      BY <1>2, <2>7, <3>2 DEF AnswerWork
    <3> QED BY <1>6, <3>1, <3>2
  <2>8. JobsKnown'
    BY <1>4, <1>8, <2>5, <2>6, <2>7 DEF JobsKnown
  <2>9. ASSUME Kept PROVE Kept'
    <3>1. Traced'
      BY <1>3, <1>4, <2>2, <2>9, TracedStays DEF Kept
    <3>2. Settled'
      BY <1>1 DEF Settled
    <3>3. PICK these, those : these = Reached /\ those = Reached'
      OBVIOUS
    <3>4. Mine # {} => Mine = {id} /\ Current.call.name \in Commands
      BY <2>1 DEF Mine, Commands
    <3>5. \A x \in these : x \in those \/ x \in Mine
      BY <1>4, <1>8, <3>3 DEF Reached
    <3>6. Mine # {} /\ answer = "ended" => Gone(id)
      BY <1>1, <2>1, <2>9, <3>4 DEF Kept, Settled
    <3>7. ASSUME NEW x \in these
          PROVE  \/ x \in those \/ Gone(x)
                 \/ \E k \in DOMAIN link' : /\ link'[k] = Msg("cancel", x)
                                           /\ \A j \in DOMAIN link : j < k
      BY <1>8, <2>1, <2>2, <3>4, <3>5, <3>6
    <3>8. Safe(those)'
      BY <1>4, <2>2, <2>9, <3>3, <3>7, SafeGrows DEF Kept
    <3> QED BY <3>1, <3>2, <3>3, <3>8 DEF Kept, Safe
  <2> QED BY <2>4, <2>8, <2>9 DEF Watched
<1> QED BY <1>7, <1>8 DEF AnswerWork

-----------------------------------------------------------------------------
(* The session's process, while the run goes on.                           *)

restOfWork == <<pc, tools, listening, known, starting, forgotten>>

LEMMA HeadFacts ==
  ASSUME WorkTypes, link # << >>
  PROVE  /\ 1 \in DOMAIN link /\ link[1] = Head(link)
         /\ Head(link) \in Message /\ Head(link).id \in Ids
         /\ Head(link) = Msg(Head(link).op, Head(link).id)
<1>1. Len(link) \in Nat \ {0} /\ DOMAIN link = 1 .. Len(link)
  BY EmptySeq, LenProperties DEF WorkTypes
<1>2. 1 \in DOMAIN link /\ link[1] = Head(link)
  BY <1>1
<1> QED BY <1>2, SentTyped

(* A start that is awaited stays so when the process answers something.    *)
LEMMA StartsStay ==
  ASSUME TypeOK, Awaiting, UNCHANGED restOfWork, Taking,
         NEW id, NEW what, Reply(id, what) \/ UNCHANGED answer
  PROVE  StartsAwaited'
<1> USE DEF restOfWork
<1>1. PICK f \in [DOMAIN link' -> DOMAIN link] :
           /\ \A j \in DOMAIN link' : link'[j] = link[f[j]]
           /\ \A j, k \in DOMAIN link' : j < k <=> f[j] < f[k]
  BY WorkTyped, Shifted
<1>2. ASSUME NEW j \in DOMAIN link', link'[j].op = "start", link'[j].id \notin forgotten
      PROVE  /\ starting = link'[j].id /\ answer' = "none"
             /\ \A k \in DOMAIN link' : j < k => link'[k].op = "cancel"
  <2>1. PICK i \in DOMAIN link : i = f[j] /\ link[i] = link'[j]
    BY <1>1
  <2>2. /\ starting = link'[j].id /\ answer = "none" /\ link'[j].id \in Ids
        /\ \A k \in DOMAIN link : i < k => link[k].op = "cancel"
    BY <1>2, <2>1, SentTyped, WorkTyped DEF Awaiting, StartsAwaited
  <2>3. starting # None /\ starting = Current.id
    BY <2>2, NoneAssumption DEF Awaiting
  <2>4. ~IsAwaited(id)
    BY <1>2, <2>2, <2>3 DEF IsAwaited
  <2>5. answer' = "none"
    BY <2>2, <2>4 DEF Reply
  <2> QED BY <1>1, <2>1, <2>2, <2>5
<1> QED BY <1>2 DEF StartsAwaited

LEMMA AwaitingStays ==
  ASSUME TypeOK, Awaiting, UNCHANGED restOfWork, Taking,
         \A x \in Ids : job'[x] = "none" => job[x] = "none",
         NEW id, NEW what, Reply(id, what) \/ UNCHANGED answer,
         what = "started" /\ starting = id => job'[id] # "none"
  PROVE  Awaiting'
<1> USE DEF restOfWork
<1>1. StartsAwaited'
  BY StartsStay
<1>2. answer' = answer \/ (IsAwaited(id) /\ answer = "none" /\ answer' = what)
  BY DEF Reply, IsAwaited
<1>3. ASSUME starting # None, answer' = "started" PROVE job'[starting] # "none"
  <2>1. starting \in Ids /\ starting = Current.id
    BY <1>3 DEF Awaiting, TypeOK
  <2>2. CASE answer = "started"
    BY <1>3, <2>1, <2>2 DEF Awaiting
  <2>3. CASE answer # "started"
    BY <1>2, <1>3, <2>1, <2>3 DEF IsAwaited
  <2> QED BY <2>2, <2>3
<1> QED BY <1>1, <1>2, <1>3 DEF Awaiting, Current

(* What the process does to its jobs does not hide one that runs.          *)
LEMMA JobsStay ==
  ASSUME TypeOK, JobsKnown, UNCHANGED restOfWork,
         \A x \in Ids : job[x] # "none" => job'[x] # "none",
         \A x \in Ids : job'[x] = "running" =>
           \/ job[x] = "running"
           \/ job[x] = "none" /\ x \in forgotten
           \/ job[x] = "none" /\ starting = x /\ answer' = "started",
         answer = "started" => answer' = "started"
  PROVE  JobsKnown'
<1> USE DEF restOfWork
<1>1. ASSUME NEW i \in Observations, tools[i].task # None PROVE tools[i].task \in Ids
  BY <1>1, ToolTyped DEF Observations, Tool
<1>2. known \subseteq Ids
  BY DEF TypeOK
<1>3. \A x \in Ids : job'[x] = "running" =>
        \/ starting = x /\ answer' = "started"
        \/ x \in forgotten
        \/ \E i \in Observations :
             tools[i].task = x /\ tools[i].call.name = "run_background_command"
  BY DEF JobsKnown
<1>4. \A x \in known : starting = x \/ job'[x] # "none"
  BY <1>2 DEF JobsKnown
<1>5. ASSUME NEW i \in Observations, tools[i].task # None
      PROVE  /\ job'[tools[i].task] # "none"
             /\ job'[tools[i].task] = "running" => tools[i].seen = "running"
  BY <1>1, <1>5 DEF JobsKnown
<1> QED BY <1>3, <1>4, <1>5 DEF JobsKnown, Observations

(* A background command is started, fails at once because its id is taken, *)
(* or is refused.                                                          *)
LEMMA StartTaken ==
  ASSUME TypeOK, Watched, NEW id \in Ids, Taking,
         link # << >>, Head(link) = Msg("start", id), link' = Tail(link),
         \/ /\ job[id] = "none" /\ Reply(id, "started")
            /\ job' = [job EXCEPT ![id] = IF id \in exec THEN "failed" ELSE "running"]
         \/ job' = job /\ Reply(id, "refused"),
         UNCHANGED restOfWork
  PROVE  Watched'
<1> USE DEF restOfWork
<1>0. WorkTypes /\ Msg("start", id).op = "start" /\ Msg("start", id).id = id
  BY WorkTyped, MsgFacts
<1>1. \A x \in Ids : x # id => job'[x] = job[x]
  BY DEF TypeOK
<1>2. job'[id] = "none" => job[id] = "none"
  BY DEF TypeOK
<1>3. job[id] = "none" /\ job' # job => job'[id] # "none"
  BY <1>1 DEF TypeOK
<1>4. CASE job[id] = "none" /\ Reply(id, "started") /\ job'[id] # "none"
  <2>1. Awaiting'
    BY <1>1, <1>2, <1>4, AwaitingStays DEF Watched
  <2>2. id \notin forgotten => starting = id /\ answer' = "started"
    <3> SUFFICES ASSUME id \notin forgotten PROVE starting = id /\ answer' = "started"
      OBVIOUS
    <3>1. /\ starting = id /\ answer = "none"
          /\ \A k \in DOMAIN link : 1 < k => link[k].op = "cancel"
      BY <1>0, HeadFacts DEF Watched, Awaiting, StartsAwaited
    <3>2. \A j \in DOMAIN link' : j + 1 \in DOMAIN link /\ link'[j] = link[j + 1] /\ 1 < j + 1
      BY <1>0, Taken
    <3>3. \A j \in DOMAIN link' : link'[j].op = "cancel"
      BY <3>1, <3>2
    <3> QED BY <1>4, <3>1, <3>3 DEF Reply, IsAwaited
  <2>3. answer = "started" => answer' = "started"
    BY <1>4, ReplyOnce
  <2>4. JobsKnown'
    BY <1>1, <1>4, <2>2, <2>3, JobsStay DEF Watched
  <2> QED BY <2>1, <2>4 DEF Watched
<1>5. CASE job' = job /\ Reply(id, "refused")
  <2>1. Awaiting'
    BY <1>5, AwaitingStays DEF Watched
  <2>2. answer = "started" => answer' = "started"
    BY <1>5, ReplyOnce
  <2>3. JobsKnown'
    BY <1>5, <2>2, JobsStay DEF Watched
  <2> QED BY <2>1, <2>3 DEF Watched
<1>6. job' = [job EXCEPT ![id] = IF id \in exec THEN "failed" ELSE "running"]
      => job'[id] # "none"
  BY DEF TypeOK
<1> QED BY <1>4, <1>5, <1>6

(* What runs ends, by itself or because it is cancelled.                   *)
LEMMA EndKeeps ==
  ASSUME TypeOK, Watched, NEW id \in exec, Taking,
         NEW state \in {"completed", "failed", "cancelled"}, Ended(id, state),
         UNCHANGED restOfWork
  PROVE  Watched'
<1>1. \A x \in Ids : \/ job'[x] = job[x]
                     \/ x = id /\ job[x] = "running" /\ job'[x] = state
  BY DEF TypeOK, Ended
<1>2. \A x \in Ids : /\ job'[x] = "none" <=> job[x] = "none"
                     /\ job'[x] = "running" => job[x] = "running"
  BY <1>1
<1>3. UNCHANGED answer \/ Reply(id, "ended")
  BY DEF Ended
<1>4. Awaiting'
  BY <1>2, <1>3, AwaitingStays DEF Watched
<1>5. answer = "started" => answer' = "started"
  BY <1>3, ReplyOnce
<1>6. JobsKnown'
  BY <1>2, <1>5, JobsStay DEF Watched
<1> QED BY <1>4, <1>6 DEF Watched

LEMMA ProcessWatched ==
  ASSUME TypeOK, Watched, Process
  PROVE  Watched'
<1>0. WorkTypes /\ UNCHANGED restOfWork /\ Taking
  BY WorkTyped DEF Process, ProcessStarts, ProcessCancels, CommandEnds, restOfProcess,
     restOfWork, Taking
<1>1. ASSUME job' = job, NEW id, NEW what \in {"ended", "refused"},
             UNCHANGED answer \/ Reply(id, what)
      PROVE  Watched'
  <2>1. Awaiting'
    BY <1>0, <1>1, AwaitingStays DEF Watched
  <2>2. answer = "started" => answer' = "started"
    BY <1>1, ReplyOnce
  <2>3. JobsKnown'
    BY <1>0, <1>1, <2>2, JobsStay DEF Watched
  <2> QED BY <2>1, <2>3 DEF Watched
<1>2. CASE ProcessStarts
  <2>1. PICK id \in Ids, op \in {"run", "start"} :
               op = Head(link).op /\ id = Head(link).id /\ Head(link) = Msg(op, id)
    BY <1>0, <1>2, HeadFacts DEF ProcessStarts
  <2>2. link # << >> /\ link' = Tail(link)
    BY <1>2 DEF ProcessStarts
  <2>3. \/ op # "start" /\ UNCHANGED <<job, answer>>
        \/ /\ op = "start" /\ job[id] = "none" /\ Reply(id, "started")
           /\ job' = [job EXCEPT ![id] = IF id \in exec THEN "failed" ELSE "running"]
        \/ Reply(id, "refused") /\ UNCHANGED <<exec, job>>
    BY <1>2, <2>1 DEF ProcessStarts
  <2>4. CASE op = "run"
    BY <1>1, <2>3, <2>4
  <2>5. CASE op = "start"
    BY <1>0, <2>1, <2>2, <2>3, <2>5, StartTaken
  <2> QED BY <2>1, <2>4, <2>5
<1>3. CASE ProcessCancels
  <2>1. CASE Head(link).id \in exec /\ Ended(Head(link).id, "cancelled")
    BY <1>0, <2>1, EndKeeps
  <2>2. CASE UNCHANGED <<job, answer>>
    BY <1>1, <2>2
  <2> QED BY <1>3, <2>1, <2>2 DEF ProcessCancels
<1>4. CASE CommandEnds
  <2>1. PICK id \in exec, state \in {"completed", "failed"} : Ended(id, state)
    BY <1>4 DEF CommandEnds
  <2> QED BY <1>0, <2>1, EndKeeps
<1> QED BY <1>2, <1>3, <1>4 DEF Process

(* What the process takes is in one place still.                           *)
LEMMA TracedTaken ==
  ASSUME TypeOK, Process, Traced
  PROVE  Traced'
<1>0. WorkTypes /\ Taking /\ tools' = tools
  BY WorkTyped DEF Process, ProcessStarts, ProcessCancels, CommandEnds, restOfProcess, Taking
<1>1. PICK f \in [DOMAIN link' -> DOMAIN link] :
           /\ \A j \in DOMAIN link' : link'[j] = link[f[j]]
           /\ \A j, k \in DOMAIN link' : f[j] = f[k] => j = k
           /\ link # << >> /\ link' = Tail(link) =>
                \E i \in DOMAIN link : /\ link[i] = Head(link)
                                       /\ \A j \in DOMAIN link' : i < f[j]
  BY <1>0, Shifted
<1>2. BegunIds' = BegunIds
  BY <1>0 DEF BegunIds
<1>3. \/ exec' \subseteq exec
      \/ /\ link # << >> /\ link' = Tail(link) /\ Head(link).op # "cancel"
         /\ exec' \subseteq exec \cup {Head(link).id}
  BY DEF Process, ProcessStarts, ProcessCancels, CommandEnds, Ended
<1>4. CASE exec' \subseteq exec
  BY <1>1, <1>2, <1>4 DEF Traced
<1>5. CASE /\ link # << >> /\ link' = Tail(link) /\ Head(link).op # "cancel"
           /\ exec' \subseteq exec \cup {Head(link).id}
  <2>1. PICK i \in DOMAIN link : link[i] = Head(link) /\ \A j \in DOMAIN link' : i < f[j]
    BY <1>1, <1>5
  <2>2. ~(i < i)
    BY <1>0, LenProperties DEF WorkTypes
  <2>3. \A j \in DOMAIN link' : link'[j].op # "cancel" => link'[j].id # Head(link).id
    BY <1>1, <1>5, <2>1, <2>2 DEF Traced
  <2>4. Head(link).id \in BegunIds
    BY <1>5, <2>1 DEF Traced
  <2> QED BY <1>1, <1>2, <1>5, <2>3, <2>4 DEF Traced
<1> QED BY <1>3, <1>4, <1>5

(* A command that is answered as ended or refused has left the process.    *)
LEMMA SettledTaken ==
  ASSUME TypeOK, Awaiting, Process, Traced, Settled
  PROVE  Settled'
<1>0. WorkTypes /\ Taking /\ UNCHANGED <<pc, tools, starting>>
  BY WorkTyped DEF Process, ProcessStarts, ProcessCancels, CommandEnds, restOfProcess, Taking
<1>1. Current' = Current
  BY <1>0 DEF Current
<1> SUFFICES ASSUME pc = "tool", Current.call.name \in Commands,
                    answer' \in {"ended", "refused"}
             PROVE  Gone(Current.id)'
  BY <1>0, <1>1 DEF Settled
<1>2. PICK f \in [DOMAIN link' -> DOMAIN link] : \A j \in DOMAIN link' : link'[j] = link[f[j]]
  BY <1>0, Shifted
<1>3. CASE answer' = answer
  <2>1. Gone(Current.id)
    BY <1>3 DEF Settled
  <2>2. \/ exec' \subseteq exec
        \/ /\ link # << >> /\ Head(link).op # "cancel"
           /\ exec' \subseteq exec \cup {Head(link).id}
    BY DEF Process, ProcessStarts, ProcessCancels, CommandEnds, Ended
  <2>3. link # << >> /\ Head(link).op # "cancel" => Head(link).id # Current.id
    BY <1>0, <2>1, HeadFacts DEF Gone
  <2> QED BY <1>1, <1>2, <2>1, <2>2, <2>3 DEF Gone
<1>4. ASSUME NEW id \in Ids, NEW what, Reply(id, what), answer' # answer, id \notin exec'
      PROVE  Gone(Current.id)'
  <2>1. IsAwaited(id)
    BY <1>4 DEF Reply
  <2>2. id = Current.id
    BY <2>1, NoneAssumption DEF IsAwaited, Awaiting
  <2> QED BY <1>1, <1>4, <2>1, <2>2 DEF Gone, IsAwaited
<1>5. ASSUME NEW id \in exec, NEW state, Ended(id, state), answer' # answer
      PROVE  Gone(Current.id)'
  <2>1. Reply(id, "ended") /\ id \notin exec' /\ id \in Ids
    BY <1>5 DEF Ended, TypeOK
  <2> QED BY <1>4, <1>5, <2>1
<1>6. CASE ProcessStarts
  <2>1. link # << >> /\ Head(link).op # "cancel"
    BY <1>6 DEF ProcessStarts
  <2>2. Head(link).id \in Ids /\ Head(link).id \notin exec
    BY <1>0, <2>1, HeadFacts DEF Traced
  <2>3. CASE Reply(Head(link).id, "refused") /\ exec' = exec
    BY <1>3, <1>4, <2>2, <2>3
  <2>4. CASE Reply(Head(link).id, "started")
    <3>1. answer' # "started"
      OBVIOUS
    <3>2. answer' = answer
      BY <2>4, <3>1, ReplyOnce
    <3> QED BY <1>3, <3>2
  <2> QED BY <1>3, <1>6, <2>3, <2>4 DEF ProcessStarts
<1>7. CASE ProcessCancels
  BY <1>3, <1>5, <1>7 DEF ProcessCancels
<1>8. CASE CommandEnds
  BY <1>3, <1>5, <1>8 DEF CommandEnds
<1> QED BY <1>6, <1>7, <1>8 DEF Process

LEMMA ProcessKeeps ==
  ASSUME TypeOK, Watched, Process
  PROVE  Watched' /\ (Kept => Kept')
<1>1. Watched'
  BY ProcessWatched
<1>2. ASSUME Kept PROVE Kept'
  <2>1. Traced' /\ Settled'
    BY <1>2, TracedTaken, SettledTaken DEF Kept, Watched
  <2>2. UNCHANGED <<pc, tools, listening, known, forgotten>>
        /\ (answer' = "lost" <=> answer = "lost")
    BY ReplyOnce DEF Process, ProcessStarts, ProcessCancels, CommandEnds, Ended, restOfProcess
  <2>3. Reached' = Reached
    BY <2>2 DEF Reached, Mine, Current
  <2>4. PICK these : these = Reached
    OBVIOUS
  <2>5. Safe(these)'
    BY <1>2, <2>4, SafeTaken DEF Kept
  <2> QED BY <2>1, <2>3, <2>4, <2>5 DEF Kept, Safe
<1> QED BY <1>1, <1>2

LEMMA WatchedKept ==
  ASSUME TypeOK, Counters, InOrder, Watched, pc # "over", pc' # "over", WorkStep
  PROVE  Watched' /\ (FreshIds /\ IdsApart /\ IdsApart' /\ Kept => Kept')
<1>1. CASE Quiet
  BY <1>1, QuietKeeps
<1>2. ASSUME NEW call \in Calls,
             NEW status \in {"error", "skipped", "pending_confirm", "running"},
             HandlesWork(call, status)
      PROVE  Watched' /\ (FreshIds /\ IdsApart /\ IdsApart' /\ Kept => Kept')
  BY <1>2, HandledBegins, PassesKeep DEF HandlesWork
<1>3. CASE ApprovesWork
  BY <1>3, ApprovedBegins
<1>4. CASE Answers
  BY <1>4, AnswersWork, AnswersKeep
<1>5. CASE Releases
  BY <1>5 DEF Releases, Ends
<1>6. CASE Late /\ UNCHANGED toolVars
  <2>1. /\ pc = "tool" /\ Current.call.name \in Commands /\ GivesUp
        /\ UNCHANGED <<tools, link, listening, exec, job>>
    BY <1>6 DEF Late, LateStart, LateGivesUp, restOfLate
  <2>2. BegunIds' = BegunIds /\ Observations' = Observations
    BY <2>1 DEF BegunIds, Observations
  <2> QED BY <2>1, <2>2, GivesUpKeeps
<1>7. CASE Process
  BY <1>7, ProcessKeeps
<1> QED BY <1>1, <1>2, <1>3, <1>4, <1>5, <1>6, <1>7 DEF WorkStep, Aside

-----------------------------------------------------------------------------
(* When a run ends, and after it has ended.                                *)

(* What runs then, or will, is cancelled by what the end sends, or the run *)
(* gave it up.                                                             *)
LEMMA ReleasesDoom ==
  ASSUME TypeOK, InOrder, Safe(Reached), Releases
  PROVE  Doomed'
<1> DEFINE c == Cancels(listening)
<1>1. /\ c \in Seq(Message) /\ \A i \in DOMAIN c : c[i].op = "cancel"
      /\ \A id \in (listening \cap known) \cup Mine :
           \E i \in DOMAIN c : c[i] = Msg("cancel", id)
  BY CancelsFacts
<1>2. link' = link \o c /\ exec' = exec /\ forgotten' = forgotten
  BY DEF Releases
<1> HIDE DEF c
<1>3. link \in Seq(Message) /\ WorkTypes
  BY WorkTyped DEF WorkTypes
<1>4. /\ Len(link) \in Nat /\ DOMAIN link = 1 .. Len(link)
      /\ Len(c) \in Nat /\ DOMAIN c = 1 .. Len(c)
  BY <1>1, <1>3, LenProperties
<1>5. /\ link' \in Seq(Message) /\ Len(link') = Len(link) + Len(c)
      /\ \A i \in 1 .. Len(link) + Len(c) :
           link'[i] = IF i <= Len(link) THEN link[i] ELSE c[i - Len(link)]
  BY <1>1, <1>2, <1>3, ConcatProperties
<1>6. DOMAIN link' = 1 .. Len(link) + Len(c)
  BY <1>5, LenProperties
<1>7. ASSUME NEW id \in (listening \cap known) \cup Mine
      PROVE  \E k \in DOMAIN link' : /\ link'[k] = Msg("cancel", id)
                                     /\ \A j \in DOMAIN link : j < k
  <2>1. PICK i \in DOMAIN c : c[i] = Msg("cancel", id)
    BY <1>1, <1>7
  <2>2. PICK k : k = Len(link) + i
    OBVIOUS
  <2>3. /\ k \in 1 .. Len(link) + Len(c) /\ Len(link) < k /\ ~(k <= Len(link))
        /\ k - Len(link) = i /\ \A j \in DOMAIN link : j < k
    BY <1>4, <2>1, <2>2
  <2>4. link'[k] = c[i]
    BY <1>5, <2>3
  <2> QED BY <1>6, <2>1, <2>3, <2>4
<1>8. \A j \in DOMAIN link : j \in DOMAIN link' /\ link'[j] = link[j]
  BY <1>4, <1>5, <1>6
<1>9. ASSUME NEW j \in DOMAIN link', j \notin DOMAIN link PROVE link'[j].op = "cancel"
  <2>1. PICK i : i = j - Len(link)
    OBVIOUS
  <2>2. i \in DOMAIN c /\ link'[j] = c[i]
    BY <1>4, <1>5, <1>6, <1>9, <2>1
  <2> QED BY <1>1, <2>2
<1>10. PICK these, those : these = Reached /\ those = forgotten
  OBVIOUS
<1>11. \A id \in these :
         \/ id \in those
         \/ \E k \in DOMAIN link' : /\ link'[k] = Msg("cancel", id)
                                   /\ \A j \in DOMAIN link : j < k
  BY <1>7, <1>10 DEF Reached
<1>12. Safe(those)'
  BY <1>2, <1>8, <1>9, <1>10, <1>11, SafeGrows
<1> QED BY <1>2, <1>10, <1>12 DEF Doomed, Safe

(* A late start is cancelled, or was given up.                             *)
LEMMA LateLink ==
  ASSUME TypeOK, pc = "over", Late
  PROVE  /\ UNCHANGED <<exec, job, forgotten>>
         /\ \A j \in DOMAIN link : j \in DOMAIN link' /\ link'[j] = link[j]
         /\ \A j \in DOMAIN link' : j \in DOMAIN link \/ link'[j].op = "cancel"
<1>1. CASE LateStart
  <2>1. starting \in Ids
    BY <1>1 DEF LateStart, TypeOK
  <2>2. link' = link \/ link' = Append(link, Msg("cancel", starting))
    BY <1>1 DEF LateStart, Msg
  <2> QED BY <1>1, <2>1, <2>2, WorkTyped, CancelSent DEF LateStart, restOfLate
<1>2. CASE LateGivesUp
  BY <1>2 DEF LateGivesUp, GivesUp, restOfLate
<1> QED BY <1>1, <1>2 DEF Late

LEMMA DoomedKept ==
  ASSUME TypeOK, Doomed, pc = "over", Late \/ Process \/ UNCHANGED vars
  PROVE  Doomed'
<1>1. PICK these : these = forgotten
  OBVIOUS
<1>2. forgotten' = forgotten
  BY LateLink DEF Process, ProcessStarts, ProcessCancels, CommandEnds, restOfProcess,
     vars, workVars
<1>3. CASE Late
  <2>1. Safe(these)'
    BY <1>1, <1>3, LateLink, SafeGrows DEF Doomed
  <2> QED BY <1>1, <1>2, <2>1 DEF Doomed, Safe
<1>4. CASE Process
  <2>1. Safe(these)'
    BY <1>1, <1>4, SafeTaken DEF Doomed
  <2> QED BY <1>1, <1>2, <2>1 DEF Doomed, Safe
<1>5. CASE UNCHANGED vars
  BY <1>5 DEF vars, workVars, Doomed, Safe, Sent
<1> QED BY <1>3, <1>4, <1>5

-----------------------------------------------------------------------------
(* Success.                                                                *)

(* When no task is unfinished, a job that runs was given up.               *)
LEMMA AllFinished ==
  ASSUME TypeOK, JobsKnown, starting = None, Unfinished = {}
  PROVE  \A id \in Ids : job[id] = "running" => id \in forgotten
<1> SUFFICES ASSUME NEW id \in Ids, job[id] = "running", id \notin forgotten PROVE FALSE
  OBVIOUS
<1> DEFINE about == {i \in Observations : tools[i].task = id}
           begun == {i \in about : tools[i].call.name = "run_background_command"}
<1>1. begun # {} /\ about # {}
  BY NoneAssumption DEF JobsKnown
<1>2. Len(tools) \in Nat /\ DOMAIN tools = 1 .. Len(tools)
  BY LenProperties DEF TypeOK
<1>3. about \in SUBSET (1 .. Len(tools))
  BY <1>2 DEF Observations
<1>4. Max(about) \in about
  <2> HIDE DEF about
  <2> QED BY <1>1, <1>2, <1>3, MinMaxIn
<1>5. tools[Max(about)].seen = "running"
  <2>1. PICK i \in about : i = Max(about)
    BY <1>4
  <2>2. tools[i].seen = "running"
    BY NoneAssumption DEF JobsKnown
  <2> QED BY <2>1, <2>2
<1>6. id \in Unfinished
  BY <1>1, <1>5 DEF Unfinished
<1> QED BY <1>6

(* What is found for a citation is an observation.                         *)
LEMMA ObservedIsOne ==
  ASSUME TypeOK, NEW id, Observed(id) # None
  PROVE  \E i \in Observations : tools[i].id = id /\ Observed(id) = tools[i]
<1> DEFINE found == {i \in Observations : tools[i].id = id}
<1>1. Len(tools) \in Nat /\ DOMAIN tools = 1 .. Len(tools)
  BY LenProperties DEF TypeOK
<1>2. found # {} /\ Observed(id) = tools[Min(found)]
  BY DEF Observed
<1>3. found \in SUBSET (1 .. Len(tools))
  BY <1>1 DEF Observations
<1>4. Min(found) \in found
  <2> HIDE DEF found
  <2> QED BY <1>1, <1>2, <1>3, MinMaxIn
<1> QED BY <1>2, <1>4

(* Only a verdict that is accepted makes a run succeed.                    *)
LEMMA FinalShape ==
  ASSUME TypeOK, Counters, InOrder, [Next]_vars, pc # "over", runtime' = "FINAL"
  PROVE  /\ pc = "verify" /\ Over("FINAL", tools) /\ UNCHANGED <<job, forgotten>>
         /\ \E scope, quoted, refs : Accepts(scope, refs, quoted) /\ cited' = refs
<1>1. pc' = "over"
  <2>1. GoesOn \/ IsOver \/ Stays
    BY EntrySteps
  <2>2. runtime # "FINAL"
    BY DEF Counters, Final
  <2> QED BY <2>1, <2>2 DEF GoesOn, IsOver, Stays, Steady
<1>2. \A ts : ~Over("BLOCKED", ts) /\ ~Over("CANCELLED", ts)
  BY NotFinal DEF Over
<1>3. ~ModelReplies /\ ~HandleCall /\ ~Approve
  <2>1. ASSUME NEW call, NEW id, Begin(call, id) PROVE FALSE
    BY <1>1, <2>1 DEF Begin
  <2>2. ~ModelReplies /\ ~Approve
    BY <1>1, <2>1 DEF ModelReplies, Approve
  <2>3. ~HandleCall
    <3> SUFFICES ASSUME HandleCall PROVE FALSE
      OBVIOUS
    <3>1. pc' = pc \/ pc' = "approval" \/ Begin(Head(todo), CallId)
      BY DEF HandleCall
    <3> QED BY <1>1, <2>1, <3>1
  <2> QED BY <2>2, <2>3
<1>4. ~Delta /\ ~SetAbortRef /\ ~Late /\ ~Process /\ ~UNCHANGED vars
  BY <1>1 DEF Delta, SetAbortRef, Late, LateStart, LateGivesUp, restOfLate, Process, ProcessStarts, ProcessCancels,
     CommandEnds, restOfProcess, vars
<1>5. ~Answers
  BY <1>1, AnswersAreTyped DEF Answers, ToolAnswers, ToolFails, ToolCompletes
<1>6. ~Start /\ ~TurnEnds /\ ~ModelFails /\ ~Reject /\ ~StopRun /\ ~AbortSeen
  BY <1>1, <1>2 DEF Start, TurnEnds, ModelFails, Reject, StopRun, AbortSeen, End, AskModel
<1>7. \A b : ~NoAction(b) /\ ~Continue(b)
  BY <1>1, <1>2 DEF NoAction, Continue, AskModel
<1>8. ~Recovered
  BY <1>1, <1>7 DEF Recovered
<1>9. Verdict
  BY <1>3, <1>4, <1>5, <1>6, <1>8 DEF Next, Kernel, Answers, Late
<1> QED BY <1>2, <1>7, <1>9 DEF Verdict, Resumes, restOfOver

LEMMA OverByReleases ==
  ASSUME TypeOK, InOrder, WorkStep, pc # "over", pc' = "over"
  PROVE  Releases
<1>1. ~Quiet /\ ~ApprovesWork /\ ~Aside
  BY DEF Quiet, toolVars, Asks, Checks, Replied, ApprovesWork, Approved, Aside
<1>2. ~Answers
  BY AnswersAreTyped DEF Answers, ToolAnswers, ToolFails, ToolCompletes
<1>3. \A call, status : ~HandlesWork(call, status)
  BY DEF HandlesWork, Handles
<1> QED BY <1>1, <1>2, <1>3 DEF WorkStep

LEMMA BackedArises ==
  ASSUME LoopInv, Watched, [Next]_vars, pc # "over", runtime' = "FINAL"
  PROVE  Backed'
<1>1. TypeOK /\ Counters /\ InOrder /\ WorkTypes
  BY WorkTyped DEF LoopInv
<1>2. pc = "verify" /\ Over("FINAL", tools) /\ UNCHANGED <<job, forgotten>>
  BY <1>1, FinalShape
<1>3. PICK scope, quoted, refs : Accepts(scope, refs, quoted) /\ cited' = refs
  BY <1>1, FinalShape
<1>4. tools' = tools /\ link' = link \o Cancels(listening) /\ goal' = goal
  BY <1>1, <1>2, OverFacts, MarkedFacts, GoalStays DEF Final, TypeOK
<1>5. starting = None /\ \A j \in DOMAIN link : link[j].op = "start" => link[j].id \in forgotten
  BY <1>1, <1>2, NothingStarts DEF Watched
<1>6. \A id \in Ids : job[id] = "running" => id \in forgotten
  BY <1>1, <1>2, <1>3, <1>5, AllFinished DEF Watched, Accepts
<1>7. \A id \in cited' : \E i \in Observations : tools[i].id = id /\ tools[i].usable
  BY <1>1, <1>3, ObservedIsOne DEF Accepts
<1>8. cited' # {} \/ (Observations = {} /\ (Talk \/ Reading))
  BY <1>3 DEF Accepts
<1>9. ASSUME NEW j \in DOMAIN link', link'[j].op = "start" PROVE link'[j].id \in forgotten
  <2> DEFINE c == Cancels(listening)
  <2>1. c \in Seq(Message) /\ \A i \in DOMAIN c : c[i].op = "cancel"
    BY <1>1, CancelsFacts
  <2>2. link' = link \o c /\ link \in Seq(Message)
    BY <1>1, <1>4 DEF WorkTypes
  <2> HIDE DEF c
  <2>3. /\ Len(link) \in Nat /\ DOMAIN link = 1 .. Len(link)
        /\ Len(c) \in Nat /\ DOMAIN c = 1 .. Len(c)
    BY <2>1, <2>2, LenProperties
  <2>4. /\ link' \in Seq(Message) /\ Len(link') = Len(link) + Len(c)
        /\ \A i \in 1 .. Len(link) + Len(c) :
             link'[i] = IF i <= Len(link) THEN link[i] ELSE c[i - Len(link)]
    BY <2>1, <2>2, ConcatProperties
  <2>5. DOMAIN link' = 1 .. Len(link) + Len(c)
    BY <2>4, LenProperties
  <2>6. CASE j <= Len(link)
    BY <1>5, <1>9, <2>3, <2>4, <2>5, <2>6
  <2>7. CASE ~(j <= Len(link))
    <3>1. j - Len(link) \in DOMAIN c /\ link'[j] = c[j - Len(link)]
      BY <2>3, <2>4, <2>5, <2>7
    <3> QED BY <1>9, <2>1, <3>1
  <2> QED BY <2>6, <2>7
<1> QED BY <1>2, <1>4, <1>6, <1>7, <1>8, <1>9 DEF Backed, Observations, Talk, Reading

LEMMA BackedStays ==
  ASSUME LoopInv, Backed, [Next]_vars, pc = "over"
  PROVE  Backed'
<1> SUFFICES ASSUME runtime' = "FINAL" PROVE Backed'
  BY DEF Backed
<1>1. UNCHANGED <<pc, runtime, tools, cited>> /\ goal' = goal
      /\ (Late \/ Process \/ UNCHANGED vars)
  BY OverKeeps, GoalStays
<1>2. TypeOK /\ WorkTypes
  BY WorkTyped DEF LoopInv
<1>3. /\ \A id \in Ids : job[id] = "running" => id \in forgotten
      /\ \A j \in DOMAIN link : link[j].op = "start" => link[j].id \in forgotten
  BY <1>1 DEF Backed
<1>4. /\ forgotten' = forgotten
      /\ \A id \in Ids : job'[id] = "running" => id \in forgotten
      /\ \A j \in DOMAIN link' : link'[j].op = "start" => link'[j].id \in forgotten
  <2>1. CASE UNCHANGED vars
    BY <1>3, <2>1 DEF vars, workVars
  <2>2. CASE Late
    BY <1>2, <1>3, <2>2, LateLink
  <2>3. CASE Process
    <3>1. forgotten' = forgotten /\ Taking
      BY <2>3 DEF Process, ProcessStarts, ProcessCancels, CommandEnds, restOfProcess, Taking
    <3>2. \A j \in DOMAIN link' : \E i \in DOMAIN link : link'[j] = link[i]
      BY <1>2, <3>1, Shifted
    <3>3. ASSUME NEW id \in exec, NEW state \in {"completed", "failed", "cancelled"},
                 Ended(id, state)
          PROVE  \A x \in Ids : job'[x] = "running" => job[x] = "running"
      BY <1>2, <3>3 DEF Ended, TypeOK
    <3>4. CASE ProcessStarts
      <4>1. job' # job => Head(link).op = "start" /\ link # << >>
        BY <3>4 DEF ProcessStarts
      <4>2. job' # job => Head(link).id \in forgotten
        BY <1>2, <1>3, <4>1, HeadFacts
      <4>3. \A x \in Ids : job'[x] = job[x] \/ x = Head(link).id
        BY <1>2, <3>4 DEF ProcessStarts, TypeOK
      <4> QED BY <1>3, <3>1, <3>2, <4>2, <4>3
    <3>5. CASE ProcessCancels
      BY <1>3, <3>1, <3>2, <3>3, <3>5 DEF ProcessCancels
    <3>6. CASE CommandEnds
      BY <1>3, <3>1, <3>2, <3>3, <3>6 DEF CommandEnds
    <3> QED BY <2>3, <3>4, <3>5, <3>6 DEF Process
  <2> QED BY <1>1, <2>1, <2>2, <2>3
<1> QED BY <1>1, <1>4 DEF Backed, Observations, Talk, Reading

-----------------------------------------------------------------------------
(* Success is backed.                                                      *)

WatchInv == LoopInv /\ (pc # "over" => Watched) /\ Backed

LEMMA WatchInit == Init => WatchInv
<1> SUFFICES ASSUME Init PROVE WatchInv
  OBVIOUS
<1>1. LoopInv
  BY LoopInit
<1>2. /\ pc = "new" /\ DOMAIN tools = {} /\ DOMAIN link = {}
      /\ known = {} /\ starting = None
      /\ \A id \in Ids : job[id] = "none"
      /\ runtime = "UNDERSTANDING"
  BY DEF Init
<1>3. Awaiting
  BY <1>2 DEF Awaiting, StartsAwaited
<1>4. JobsKnown
  BY <1>2 DEF JobsKnown, Observations
<1> QED BY <1>1, <1>2, <1>3, <1>4 DEF WatchInv, Watched, Backed

LEMMA WatchNext == WatchInv /\ [Next]_vars => WatchInv'
<1> SUFFICES ASSUME WatchInv, [Next]_vars PROVE WatchInv'
  OBVIOUS
<1>1. TypeOK /\ Counters /\ InOrder /\ LoopInv
  BY DEF WatchInv, LoopInv
<1>2. LoopInv' /\ WorkStep
  BY <1>1, LoopNext, WorkSteps
<1>3. CASE pc = "over"
  <2>1. pc' = "over"
    BY <1>1, <1>3, OverKeeps
  <2>2. Backed'
    BY <1>1, <1>3, BackedStays DEF WatchInv
  <2> QED BY <1>2, <2>1, <2>2 DEF WatchInv
<1>4. CASE pc # "over"
  <2>1. Watched
    BY <1>4 DEF WatchInv
  <2>2. Backed'
    BY <1>1, <1>4, <2>1, BackedArises DEF Backed
  <2>3. pc' # "over" => Watched'
    BY <1>1, <1>2, <1>4, <2>1, WatchedKept
  <2> QED BY <1>2, <2>2, <2>3 DEF WatchInv
<1> QED BY <1>3, <1>4

LEMMA WatchHolds == Spec => []WatchInv
  BY WatchInit, WatchNext, PTL DEF Spec

(* A run that succeeds has cited observations that can be evidence, or is  *)
(* a conversation or a reading of attached files that carried out nothing, *)
(* and its background commands are done but for those that it gave up      *)
(* (validateRunConclusion, agent-verification.js), also when the provider  *)
(* uses a call id again.                                                   *)
THEOREM SuccessIsBacked == Spec => []FinalIsBacked
<1>1. WatchInv => FinalIsBacked
  BY DEF WatchInv, Backed, FinalIsBacked
<1> QED BY <1>1, WatchHolds, PTL

-----------------------------------------------------------------------------
(* Nothing outlives its run but what the run gave up.                      *)

WorkInv ==
  /\ WatchInv /\ IdsApart
  /\ pc # "over" => Kept
  /\ pc = "over" => Doomed

LEMMA WorkInit == Init => WorkInv
<1> SUFFICES ASSUME Init PROVE WorkInv
  OBVIOUS
<1>1. WatchInv
  BY WatchInit
<1>2. pc = "new" /\ DOMAIN tools = {} /\ DOMAIN link = {} /\ exec = {}
  BY DEF Init
<1>3. Kept
  BY <1>2 DEF Kept, Traced, Settled, Safe
<1>4. IdsApart
  BY <1>2 DEF IdsApart, OfTurn
<1> QED BY <1>1, <1>2, <1>3, <1>4 DEF WorkInv

LEMMA WorkNext == FreshIds /\ WorkInv /\ [Next]_vars => WorkInv'
<1> SUFFICES ASSUME FreshIds, WorkInv, [Next]_vars PROVE WorkInv'
  OBVIOUS
<1>1. TypeOK /\ Counters /\ InOrder /\ LoopInv /\ IdsApart
  BY DEF WorkInv, WatchInv, LoopInv
<1>2. WatchInv' /\ ToolStep /\ WorkStep
  BY <1>1, WatchNext, ToolSteps, WorkSteps DEF WorkInv
<1>3. IdsApart'
  BY <1>1, <1>2, IdsApartKept
<1>4. CASE pc = "over"
  <2>1. pc' = "over" /\ (Late \/ Process \/ UNCHANGED vars)
    BY <1>1, <1>4, OverKeeps
  <2>2. Doomed'
    BY <1>1, <1>4, <2>1, DoomedKept DEF WorkInv
  <2> QED BY <1>2, <1>3, <2>1, <2>2 DEF WorkInv
<1>5. CASE pc # "over"
  <2>1. Watched /\ Kept
    BY <1>5 DEF WorkInv, WatchInv
  <2>2. CASE pc' # "over"
    <3>1. Kept'
      BY <1>1, <1>2, <1>3, <1>5, <2>1, <2>2, WatchedKept
    <3> QED BY <1>2, <1>3, <2>2, <3>1 DEF WorkInv
  <2>3. CASE pc' = "over"
    <3>1. Releases
      BY <1>1, <1>2, <1>5, <2>3, OverByReleases
    <3>2. Doomed'
      BY <1>1, <2>1, <3>1, ReleasesDoom DEF Kept
    <3> QED BY <1>2, <1>3, <2>3, <3>2 DEF WorkInv
  <2> QED BY <2>2, <2>3
<1> QED BY <1>4, <1>5

(* If the provider does not use a call id again, none of a run's commands  *)
(* and background jobs is at work when the run is over and its messages    *)
(* are handled, but for those whose request the run gave up (the finally   *)
(* block of start(), agent-run.js, and the abort listeners of the two      *)
(* commands, agent-tools.js).                                              *)
THEOREM NothingOutlives == ASSUME FreshIds PROVE Spec => []NothingLeftRunning
<1>1. WorkInv => NothingLeftRunning
  <2> SUFFICES ASSUME WorkInv, pc = "over", link = << >> PROVE exec \subseteq forgotten
    BY DEF NothingLeftRunning
  <2>1. Sent = {}
    BY DEF Sent
  <2> QED BY <2>1 DEF WorkInv, Doomed, Safe
<1>2. WorkInv /\ [Next]_vars => WorkInv'
  BY WorkNext
<1> QED BY <1>1, <1>2, WorkInit, PTL DEF Spec
=============================================================================
