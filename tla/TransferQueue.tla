---------------------------- MODULE TransferQueue ----------------------------
(***************************************************************************)
(* The list of file transfers in the client: the list itself               *)
(* (store/transfer-list.js), the queue through which single items are      *)
(* updated one after the other (file-transfer/transfer-queue.jsx), the     *)
(* control that starts waiting items up to a limit                         *)
(* (transports-action-store.jsx), and the life of one item's component     *)
(* (transfer.jsx).  All of it runs on one thread; React shows a change of  *)
(* the list some time after it was made, in one commit (Render).           *)
(*                                                                         *)
(* addToQueue() runs an update at once when the queue is idle, and the     *)
(* next one in a microtask: `Calm' says that no update is left to run      *)
(* before the next event.  Only the update {inited: true} takes longer: it *)
(* is applied by a timer, to the array that was the list when it was       *)
(* taken from the queue, and is over when the current list shows it.       *)
(* Updates of what is only displayed (progress, times, files) are not      *)
(* modelled: they settle in the turn in which they are taken.              *)
(***************************************************************************)
EXTENDS Integers, Sequences, FiniteSets, SequencesExt

CONSTANTS
  Transfers,     \* the transfers, numbered as they are added
  Cross,         \* those between two sides; the others copy on one side
  MaxTransport,  \* transfers that may be active at a time, 5 in the code
  MaxClicks,     \* bound: what the user does to the list, adding apart
  NoTransfer

ASSUME TransfersAssumption == Transfers \subseteq Nat /\ IsFiniteSet(Transfers)
ASSUME CrossAssumption == Cross \subseteq Transfers
ASSUME NoneAssumption == NoTransfer \notin Transfers
ASSUME LimitAssumption == MaxTransport \in Nat \ {0} /\ MaxClicks \in Nat

VARIABLES
  list,         \* store.fileTransfers, by id
  inited,       \* the items with inited = true
  pausing,      \* the items with pausing = true
  queue,        \* the updates that wait, as <<operation, id>>
  worker,       \* free, waiting for the timer of a start, or stuck
  starting,     \* the id whose start the worker is at
  pendingInit,  \* pendingInitIds of the control
  shown,        \* the properties of the last commit
  stage,        \* where each item's component stands
  held,         \* the transports that were told to pause
  allPaused,    \* store.pauseAllTransfer
  clicks,       \* what the user has done so far
  resumed       \* history: an item was resumed

storeVars == <<list, inited, pausing>>
queueVars == <<queue, worker, starting>>
viewVars == <<pendingInit, shown>>
userVars == <<allPaused, clicks>>
vars == <<storeVars, queueVars, viewVars, stage, held, userVars, resumed>>

Listed == Range(list)
Mounted == Range(shown.list)
Store == [list |-> list, inited |-> inited, pausing |-> pausing]
Op == {"start", "pause", "resume", "delete", "top"} \X Transfers

\* the component waits for an answer or copies
Working == {"stat", "check", "asking", "opening", "copying", "moving"}

Distinct(s) == \A i, j \in DOMAIN s : i # j => s[i] # s[j]

(* Each variable has its type; an item is listed once.                     *)
TypeOK ==
  /\ list \in Seq(Transfers) /\ Distinct(list)
  /\ inited \subseteq Transfers /\ pausing \subseteq Transfers
  /\ queue \in Seq(Op)
  /\ worker \in {"free", "waiting", "stuck"}
  /\ starting \in Transfers \cup {NoTransfer}
  /\ pendingInit \subseteq Transfers
  /\ shown.list \in Seq(Transfers) /\ Distinct(shown.list)
  /\ shown.inited \subseteq Transfers /\ shown.pausing \subseteq Transfers
  /\ stage \in [Transfers -> {"new", "idle", "over"} \cup Working]
  /\ held \subseteq Transfers
  /\ allPaused \in BOOLEAN /\ clicks \in 0..MaxClicks
  /\ resumed \in BOOLEAN

Init ==
  /\ list = << >> /\ inited = {} /\ pausing = {}
  /\ queue = << >> /\ worker = "free" /\ starting = NoTransfer
  /\ pendingInit = {} /\ shown = Store
  /\ stage = [t \in Transfers |-> "new"]
  /\ held = {} /\ allPaused = FALSE /\ clicks = 0 /\ resumed = FALSE

-----------------------------------------------------------------------------
(* The queue of updates.                                                   *)

Calm == worker # "free" \/ queue = << >>

\* findIndex()
IndexIn(s, t) == CHOOSE i \in DOMAIN s : s[i] = t

Without(t) == IF t \in Listed THEN RemoveAt(list, IndexIn(list, t)) ELSE list

AddToQueue(op, t) == queue' = Append(queue, <<op, t>>)

\* mutant of Apply: the item is put on top and not taken from its old place
Apply_topTwice(op, t) ==
  /\ list' = CASE op = "delete" -> Without(t)
               [] op = "top" /\ t \in Listed -> <<t>> \o list
               [] OTHER -> list
  /\ inited' = inited \ (IF op = "delete" THEN {t} ELSE {})
  /\ pausing' = CASE op = "pause" /\ t \in Listed -> pausing \cup {t}
                  [] op \in {"resume", "delete"} -> pausing \ {t}
                  [] OTHER -> pausing
  /\ resumed' = (resumed \/ (op = "resume" /\ t \in pausing))

(* An update other than a start, applied to the current list.              *)
Apply(op, t) ==
  /\ list' = CASE op = "delete" -> Without(t)
               [] op = "top" /\ t \in Listed -> <<t>> \o Without(t)
               [] OTHER -> list
  /\ inited' = inited \ (IF op = "delete" THEN {t} ELSE {})
  /\ pausing' = CASE op = "pause" /\ t \in Listed -> pausing \cup {t}
                  [] op \in {"resume", "delete"} -> pausing \ {t}
                  [] OTHER -> pausing
  /\ resumed' = (resumed \/ (op = "resume" /\ t \in pausing))

(* processQueue() takes the next update.  A start that the list already    *)
(* shows is over at once.                                                  *)
Process ==
  /\ ~Calm
  /\ LET op == Head(queue)[1]
         t  == Head(queue)[2]
     IN  IF op = "start"
         THEN /\ IF t \in Listed \cap inited
                 THEN UNCHANGED <<worker, starting>>
                 ELSE worker' = "waiting" /\ starting' = t
              /\ UNCHANGED <<storeVars, resumed>>
         ELSE /\ Apply(op, t)
              /\ UNCHANGED <<worker, starting>>
  /\ queue' = Tail(queue)
  /\ UNCHANGED <<viewVars, stage, held, userVars>>

(* The timer of a start: the item is in the list, or it was removed.       *)
ApplyStart ==
  /\ worker = "waiting"
  /\ inited' = IF starting \in Listed THEN inited \cup {starting} ELSE inited
  /\ worker' = "free" /\ starting' = NoTransfer
  /\ UNCHANGED <<list, pausing, queue, viewVars, stage, held, userVars, resumed>>

-----------------------------------------------------------------------------
(* A commit of React, with all that it calls: componentWillUnmount of the  *)
(* items that are gone, componentDidMount and componentDidUpdate of the    *)
(* others, and then the control.                                           *)

Gone == Mounted \ Listed

\* initTransfer() once the item is shown as inited
Staged ==
  [t \in Transfers |->
    CASE t \in Gone /\ stage[t] = "copying" -> "over"
      [] t \in Listed \cap inited /\ stage[t] \in {"new", "idle"} -> "stat"
      [] t \in Listed \ inited /\ stage[t] = "new" -> "idle"
      [] OTHER -> stage[t]]

\* pause() and resume() reach a transport only when there is one
Held ==
  LET copying == {t \in Listed \cap Mounted : stage[t] = "copying"}
      changed == {t \in copying : (t \in pausing) # (t \in shown.pausing)}
  IN  (held \ (changed \cup Gone)) \cup (changed \cap pausing)

StillPending == pendingInit \cap (Listed \ inited)

\* mutants of Active: only what the list shows; and paused items, too
Active_shown == {t \in Listed \cap Cross : t \in inited /\ t \notin pausing}
Active_paused == {t \in Listed \cap Cross : t \in inited \cup StillPending}

Active == {t \in Listed \cap Cross : t \in inited \cup StillPending /\ t \notin pausing}

\* a loop over the list, and what it finds of a set of items
Items(these) ==
  LET found[i \in 0 .. Len(list)] ==
        IF i = 0 THEN << >>
        ELSE IF list[i] \in these THEN Append(found[i - 1], list[i]) ELSE found[i - 1]
  IN  found[Len(list)]

\* the waiting items of both sides that the control starts now
Chosen ==
  LET waiting == Items(Cross \ (inited \cup StillPending))
      room    == MaxTransport - Cardinality(Active)
  IN  IF room <= 0 THEN << >>
      ELSE SubSeq(waiting, 1, IF room < Len(waiting) THEN room ELSE Len(waiting))

\* the items of one side that have not started, every time again
OneSided == Items(Transfers \ (Cross \cup inited))

Starts(ts) == [i \in DOMAIN ts |-> <<"start", ts[i]>>]

Control ==
  /\ pendingInit' = StillPending \cup Range(Chosen)
  /\ queue' = queue \o Starts(OneSided) \o Starts(Chosen)

Render ==
  /\ Calm /\ shown # Store
  /\ shown' = Store
  /\ stage' = Staged
  /\ held' = Held
  /\ Control
  /\ UNCHANGED <<storeVars, worker, starting, userVars, resumed>>

-----------------------------------------------------------------------------
(* The component of an item.  It goes on when it is no longer mounted,     *)
(* except that its transport was destroyed if there was one.               *)

Becomes(t, s) == stage' = [stage EXCEPT ![t] = s]

(* startTransfer() or mvOrCp().  Unmounting cleared fromFile, but the      *)
(* properties of the last commit may hold it as well.                      *)
Proceed(t) ==
  IF t \notin Cross THEN Becomes(t, "moving")
  ELSE \/ Becomes(t, "opening")
       \/ t \notin Mounted /\ Becomes(t, "over")

\* the answer to the first checkExist(): whether the source is there
StatDone(t) ==
  /\ Calm /\ stage[t] = "stat"
  /\ \/ /\ Becomes(t, "over")
        /\ IF t \in Listed THEN AddToQueue("delete", t) ELSE UNCHANGED queue
     \/ /\ IF t \in Listed THEN Becomes(t, "check") ELSE Proceed(t)
        /\ UNCHANGED queue
  /\ UNCHANGED <<storeVars, worker, starting, viewVars, held, userVars, resumed>>

\* the answer to the second: whether the target is there, too
CheckDone(t) ==
  /\ Calm /\ stage[t] = "check"
  /\ Becomes(t, "asking") \/ Proceed(t)
  /\ UNCHANGED <<storeVars, queueVars, viewVars, held, userVars, resumed>>

\* mutant of Ended: the item stays in the list
Ended_listed(t) == Becomes(t, "over") /\ UNCHANGED queue

(* onEnd(), also of an error: the item is deleted.                         *)
Ended(t) == Becomes(t, "over") /\ AddToQueue("delete", t)

\* onDecision() finds the component only while it is mounted
Decide(t) ==
  /\ Calm /\ stage[t] = "asking" /\ t \in Mounted
  /\ \/ Ended(t)
     \/ Proceed(t) /\ UNCHANGED queue
  /\ UNCHANGED <<storeVars, worker, starting, viewVars, held, userVars, resumed>>

\* the transfer's socket is open, or the session for it is gone
Opened(t) ==
  /\ Calm /\ stage[t] = "opening"
  /\ \/ Becomes(t, "copying") /\ UNCHANGED queue
     \/ Ended(t)
  /\ UNCHANGED <<storeVars, worker, starting, viewVars, held, userVars, resumed>>

CopyEnds(t) ==
  /\ Calm /\ stage[t] \in {"copying", "moving"} /\ t \notin held
  /\ Ended(t)
  /\ UNCHANGED <<storeVars, worker, starting, viewVars, held, userVars, resumed>>

-----------------------------------------------------------------------------
(* What the user does.                                                     *)

Click == Calm /\ clicks < MaxClicks /\ clicks' = clicks + 1

\* addTransferList()
Add(t) ==
  /\ Calm /\ stage[t] = "new" /\ t \notin Listed
  /\ \A u \in Transfers : u < t => u \in Listed \/ stage[u] # "new"
  /\ list' = Append(list, t)
  /\ UNCHANGED <<inited, pausing, queueVars, viewVars, stage, held, userVars, resumed>>

\* the buttons of a shown item: cancel, to the top, pause or resume
ItemButton(t) ==
  /\ Click /\ t \in Mounted
  /\ \/ AddToQueue("delete", t)
     \/ AddToQueue("top", t)
     \/ AddToQueue(IF t \in shown.pausing THEN "resume" ELSE "pause", t)
  /\ UNCHANGED <<storeVars, worker, starting, viewVars, stage, held, allPaused, resumed>>

\* an item is dropped on another one and comes before it
Drop(t, u) ==
  /\ Click /\ {t, u} \subseteq Listed /\ t # u
  /\ list' = InsertAt(Without(t), IndexIn(Without(t), u), t)
  /\ UNCHANGED <<inited, pausing, queueVars, viewVars, stage, held, allPaused, resumed>>

PauseAll ==
  /\ Click /\ ~allPaused /\ allPaused' = TRUE
  /\ pausing' = Listed
  /\ UNCHANGED <<list, inited, queueVars, viewVars, stage, held, resumed>>

ResumeAll ==
  /\ Click /\ allPaused /\ allPaused' = FALSE
  /\ pausing' = {}
  /\ resumed' = (resumed \/ pausing # {})
  /\ UNCHANGED <<list, inited, queueVars, viewVars, stage, held>>

(* cancelAll() makes a new list.  A start that the worker took for an item *)
(* of the old one is applied there, and nobody will see it.                *)
CancelAll ==
  /\ Click
  /\ list' = << >> /\ inited' = {} /\ pausing' = {}
  /\ IF worker = "waiting" /\ starting \in Listed
     THEN worker' = "stuck" /\ starting' = NoTransfer
     ELSE UNCHANGED <<worker, starting>>
  /\ UNCHANGED <<queue, viewVars, stage, held, allPaused, resumed>>

-----------------------------------------------------------------------------
User ==
  \/ \E t \in Transfers : Add(t) \/ ItemButton(t) \/ Decide(t)
  \/ \E t, u \in Transfers : Drop(t, u)
  \/ PauseAll \/ ResumeAll \/ CancelAll

Next ==
  \/ Process \/ ApplyStart \/ Render
  \/ \E t \in Transfers : StatDone(t) \/ CheckDone(t) \/ Opened(t) \/ CopyEnds(t)
  \/ User

Spec == Init /\ [][Next]_vars

(* Microtasks, timers and React go on; no file operation has to end and    *)
(* the user owes nothing.                                                  *)
Fairness == WF_vars(Process) /\ WF_vars(ApplyStart) /\ WF_vars(Render)

FairSpec == Spec /\ Fairness

-----------------------------------------------------------------------------
(* Properties.                                                             *)

AtWork == {t \in Cross \cap Listed : stage[t] \in Working /\ t \notin pausing}

LimitKept == Cardinality(AtWork) <= MaxTransport

PlaceIsUsed(t) == <<"start", t>> \in Range(queue) \/ (worker = "waiting" /\ starting = t)

(* At most MaxTransport listed transfers between two sides are at work, as *)
(* long as none was paused and resumed, though the control counts what it  *)
(* has started and the list does not show yet; and a place that it has     *)
(* reserved is used: the start is in the queue or with the worker.  One    *)
(* that was reserved for nothing would never be given away again.          *)
PlacesKept ==
  /\ ~resumed => LimitKept
  /\ \A t \in StillPending : PlaceIsUsed(t)

(* No place stays free while a transfer waits for one, unless the queue    *)
(* is stuck.                                                               *)
Idle ==
  /\ \E t \in Cross \cap Listed : t \notin inited
  /\ Cardinality((Cross \cap inited) \ pausing) < MaxTransport

NoIdlePlace == Idle ~> (~Idle \/ worker = "stuck")

(* A transfer that is over leaves the list, unless the queue is stuck.     *)
OverLeaves ==
  \A t \in Transfers :
    (t \in Listed /\ stage[t] = "over") ~> (t \notin Listed \/ worker = "stuck")

(* Every update is made: "Resolve them here so the queue cannot stall      *)
(* waiting for another reaction", transfer-queue.jsx.                      *)
QueueGoesOn == queue # << >> ~> queue = << >>
=============================================================================
