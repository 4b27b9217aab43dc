--------------------------- MODULE SessionProcess ---------------------------
(***************************************************************************)
(* The server process's registry of session processes                      *)
(* (src/app/server/session-process.js).  Every terminal, remote desktop or *)
(* ftp tab, and every "test connection", runs in a child process of its    *)
(* own: terminal() and testConnection() pick a TCP port, fork              *)
(* session-server.js on it, wait until it listens, ask it over IPC to open *)
(* the session and, for a tab, record the child in activeTerminals.        *)
(*                                                                         *)
(* The server is one JavaScript thread: the code between two awaits is one *)
(* action here, and calls, children and their messages interleave at the   *)
(* awaits.  A request forks at most one child, so a child carries the name *)
(* of its request.                                                         *)
(***************************************************************************)
EXTENDS Integers, FiniteSets

CONSTANTS
  Requests,      \* calls of terminal() and testConnection()
  Tabs,          \* initOptions.uid, the "pid" by which a tab names its child
  Calls,         \* calls of terminals(pid).runCmd, getCwd, resize, ...
  MinPort,       \* MIN_PORT, 30975 in the code
  MaxPort,       \* MAX_PORT, 65534 in the code
  ForeignPorts,  \* ports that other programs of this machine listen on
  None           \* no entry, no child

Ports == MinPort .. MaxPort

ASSUME PortsAssumption ==
  /\ MinPort \in Nat /\ MaxPort \in Nat /\ MinPort < MaxPort
  /\ ForeignPorts \subseteq Ports
ASSUME NamesAssumption == None \notin Requests

Kinds == {"session", "ftp", "test"}

VARIABLES
  lastPort,      \* the last port that was assigned
  pendingPorts,  \* start ports of the probes under way
  phase,         \* where each request stands
  req,           \* what it asked for: kind and tab
  start,         \* startPort of its probe
  port,          \* the port it probes, then the port it was given
  child,         \* life of its child process
  bound,         \* children whose server listens on its port
  mail,          \* IPC messages of a child the server has not handled yet
  exited,        \* children whose 'exit' event was handled
  joined,        \* children that a session WebSocket has reached
  active,        \* activeTerminals: tab -> child
  parent,        \* "up" or "down"
  call           \* each call through terminals(pid), and the child it reached

portVars == <<lastPort, pendingPorts, start, port>>
vars == <<lastPort, pendingPorts, phase, req, start, port, child, bound, mail,
          exited, joined, active, parent, call>>

TypeOK ==
  /\ lastPort \in Ports
  /\ pendingPorts \subseteq Ports
  /\ phase \in [Requests -> {"idle", "probing", "forking", "creating", "ok", "error"}]
  /\ req \in [Requests -> [kind : Kinds, tab : Tabs]]
  /\ start \in [Requests -> Ports]
  /\ port \in [Requests -> Ports]
  /\ child \in [Requests -> {"none", "starting", "up", "closing", "gone"}]
  /\ bound \subseteq Requests
  /\ mail \in [Requests -> SUBSET {"inited", "created", "refused"}]
  /\ exited \subseteq Requests
  /\ joined \subseteq Requests
  /\ active \in [Tabs -> Requests \cup {None}]
  /\ parent \in {"up", "down"}
  /\ call \in [Calls -> [state : {"idle", "waiting", "answered", "empty"},
                         child : Requests \cup {None}]]

Init ==
  /\ lastPort = MinPort
  /\ pendingPorts = {}
  /\ phase = [r \in Requests |-> "idle"]
  /\ req \in [Requests -> [kind : Kinds, tab : Tabs]]
  /\ start = [r \in Requests |-> MinPort]
  /\ port = [r \in Requests |-> MinPort]
  /\ child = [r \in Requests |-> "none"]
  /\ bound = {}
  /\ mail = [r \in Requests |-> {}]
  /\ exited = {}
  /\ joined = {}
  /\ active = [t \in Tabs |-> None]
  /\ parent = "up"
  /\ call = [k \in Calls |-> [state |-> "idle", child |-> None]]

-----------------------------------------------------------------------------
(* getPort: the search starts after lastPort, skips the start ports of the *)
(* probes under way and wraps at MaxPort.                                  *)

After(p) == IF p >= MaxPort THEN MinPort ELSE p + 1

Distance(from, p) == IF p >= from THEN p - from ELSE p - from + (MaxPort - MinPort + 1)

\* mutant of IsStartPort: a start port that another probe holds is taken again
IsStartPort_shared(p) == p = After(lastPort)

IsStartPort(p) ==
  /\ p \in Ports \ pendingPorts
  /\ \A q \in Ports \ pendingPorts :
       Distance(After(lastPort), p) <= Distance(After(lastPort), q)

Occupied(p) == p \in ForeignPorts \/ \E b \in bound : port[b] = p

StartRequest(r) ==
  /\ parent = "up"
  /\ phase[r] = "idle"
  /\ \E p \in Ports :
       /\ IsStartPort(p)
       /\ start' = [start EXCEPT ![r] = p]
       /\ port' = [port EXCEPT ![r] = p]
       /\ pendingPorts' = pendingPorts \cup {p}
  /\ phase' = [phase EXCEPT ![r] = "probing"]
  /\ UNCHANGED <<lastPort, req, child, bound, mail, exited, joined, active,
                 parent, call>>

\* mutant of HasNextPort: one port too far
HasNextPort_inclusive(r) == port[r] <= MaxPort

HasNextPort(r) == port[r] < MaxPort

(* find-free-port tries one port after the other and gives up after the    *)
(* last one.                                                               *)
ProbeBusy(r) ==
  /\ parent = "up"
  /\ phase[r] = "probing"
  /\ Occupied(port[r])
  /\ \/ /\ HasNextPort(r)
        /\ port' = [port EXCEPT ![r] = @ + 1]
        /\ UNCHANGED <<pendingPorts, phase>>
     \/ /\ ~HasNextPort(r)
        /\ pendingPorts' = pendingPorts \ {start[r]}
        /\ phase' = [phase EXCEPT ![r] = "error"]
        /\ UNCHANGED port
  /\ UNCHANGED <<lastPort, req, start, child, bound, mail, exited, joined,
                 active, parent, call>>

(* A free port: getPort resolves and the caller forks the child on it.     *)
ProbeFree(r) ==
  /\ parent = "up"
  /\ phase[r] = "probing"
  /\ ~Occupied(port[r])
  /\ lastPort' = port[r]
  /\ pendingPorts' = pendingPorts \ {start[r]}
  /\ phase' = [phase EXCEPT ![r] = "forking"]
  /\ child' = [child EXCEPT ![r] = "starting"]
  /\ UNCHANGED <<req, start, port, bound, mail, exited, joined, active, parent,
                 call>>

-----------------------------------------------------------------------------
(* The child process, seen from outside: SessionServer.tla has the inside. *)

ChildListens(r) ==
  /\ child[r] = "starting"
  /\ ~Occupied(port[r])
  /\ child' = [child EXCEPT ![r] = "up"]
  /\ bound' = bound \cup {r}
  /\ mail' = [mail EXCEPT ![r] = @ \cup {"inited"}]
  /\ UNCHANGED <<portVars, phase, req, exited, joined, active, parent, call>>

(* EADDRINUSE is an uncaught exception of the child, which cleans up.      *)
ChildListenFails(r) ==
  /\ child[r] = "starting"
  /\ Occupied(port[r])
  /\ child' = [child EXCEPT ![r] = "closing"]
  /\ UNCHANGED <<portVars, phase, req, bound, mail, exited, joined, active,
                 parent, call>>

(* The answer to create-terminal or test-terminal.                         *)
ChildAnswersCreate(r) ==
  /\ phase[r] = "creating"
  /\ mail[r] = {}
  /\ child[r] \in {"up", "closing"}
  /\ \E m \in {"created", "refused"} : mail' = [mail EXCEPT ![r] = {m}]
  /\ UNCHANGED <<portVars, phase, req, child, bound, exited, joined, active,
                 parent, call>>

(* The tab opens its WebSocket on the port it was given.  An ftp tab only  *)
(* opens /sftp, which session-server.js does not count.                    *)
ClientJoins(r) ==
  /\ phase[r] = "ok" /\ req[r].kind = "session"
  /\ child[r] = "up"
  /\ joined' = joined \cup {r}
  /\ UNCHANGED <<portVars, phase, req, child, bound, mail, exited, active,
                 parent, call>>

(* The session WebSocket closes, or nothing the child catches is thrown.   *)
ChildCloses(r) ==
  /\ child[r] = "up"
  /\ child' = [child EXCEPT ![r] = "closing"]
  /\ UNCHANGED <<portVars, phase, req, bound, mail, exited, joined, active,
                 parent, call>>

Unused(r) == r \notin joined

(* No session WebSocket within two minutes.                                *)
ChildIdleTimeout(r) ==
  /\ child[r] = "up"
  /\ Unused(r)
  /\ child' = [child EXCEPT ![r] = "closing"]
  /\ UNCHANGED <<portVars, phase, req, bound, mail, exited, joined, active,
                 parent, call>>

\* mutant of Severed: nobody listens to 'disconnect'
Severed_unheard == FALSE

Severed == parent = "down"

(* The IPC channel to the server is gone.                                  *)
ChildDisconnected(r) ==
  /\ Severed
  /\ child[r] \in {"starting", "up"}
  /\ child' = [child EXCEPT ![r] = "closing"]
  /\ UNCHANGED <<portVars, phase, req, bound, mail, exited, joined, active,
                 parent, call>>

ChildExits(r) ==
  /\ child[r] = "closing"
  /\ child' = [child EXCEPT ![r] = "gone"]
  /\ bound' = bound \ {r}
  /\ UNCHANGED <<portVars, phase, req, mail, exited, joined, active, parent,
                 call>>

ChildCrashes(r) ==
  /\ child[r] \in {"starting", "up"}
  /\ child' = [child EXCEPT ![r] = "gone"]
  /\ bound' = bound \ {r}
  /\ UNCHANGED <<portVars, phase, req, mail, exited, joined, active, parent,
                 call>>

-----------------------------------------------------------------------------
(* child.kill() sends SIGTERM, which the child's handler turns into a      *)
(* cleanup.  Only children whose script has run are ever killed.           *)

Killed(c) == IF child[c] = "up" THEN "closing" ELSE child[c]

Kill(cs) == child' = [c \in Requests |-> IF c \in cs THEN Killed(c) ELSE child[c]]

(* The end of terminal(): the child recorded for the same tab is killed    *)
(* and replaced.                                                           *)
Register(r) ==
  /\ Kill({active[req[r].tab]} \ {None})
  /\ active' = [active EXCEPT ![req[r].tab] = r]
  /\ phase' = [phase EXCEPT ![r] = "ok"]

\* mutant of Inited: fork() is taken for a listening server
Inited_early(r) == child[r] # "none"

Inited(r) == "inited" \in mail[r]

(* runSessionServer resolves.  terminal() then sends create-terminal,      *)
(* except for ftp, which is registered at once.                            *)
HandleInited(r) ==
  /\ parent = "up"
  /\ phase[r] = "forking"
  /\ Inited(r)
  /\ mail' = [mail EXCEPT ![r] = {}]
  /\ \/ /\ req[r].kind # "ftp"
        /\ phase' = [phase EXCEPT ![r] = "creating"]
        /\ UNCHANGED <<child, active>>
     \/ /\ req[r].kind = "ftp"
        /\ Register(r)
  /\ UNCHANGED <<portVars, req, bound, exited, joined, parent, call>>

HandleCreated(r) ==
  /\ parent = "up"
  /\ phase[r] = "creating"
  /\ "created" \in mail[r]
  /\ mail' = [mail EXCEPT ![r] = {}]
  /\ \/ /\ req[r].kind = "session"
        /\ Register(r)
     \/ /\ req[r].kind = "test"
        /\ Kill({r})
        /\ phase' = [phase EXCEPT ![r] = "ok"]
        /\ UNCHANGED active
  /\ UNCHANGED <<portVars, req, bound, exited, joined, parent, call>>

(* terminal() kills the child of a session that could not be opened;       *)
(* testConnection() leaves by the exception, before its child.kill().      *)
HandleRefused(r) ==
  /\ parent = "up"
  /\ phase[r] = "creating"
  /\ "refused" \in mail[r]
  /\ mail' = [mail EXCEPT ![r] = {}]
  /\ phase' = [phase EXCEPT ![r] = "error"]
  /\ \/ req[r].kind = "session" /\ Kill({r})
     \/ req[r].kind = "test" /\ UNCHANGED child
  /\ UNCHANGED <<portVars, req, bound, exited, joined, active, parent, call>>

\* mutant of ListensToExit: the listener goes once terminal() has returned
ListensToExit_untilAnswered(r) == req[r].kind # "test" /\ phase[r] = "creating"

(* 'exit' comes after the messages the child wrote.  terminal() listens to *)
(* it once the child is ready, and deletes the entry of the child's TAB.   *)
ListensToExit(r) == req[r].kind # "test" /\ phase[r] \in {"creating", "ok", "error"}

HandleExit(r) ==
  /\ parent = "up"
  /\ child[r] = "gone"
  /\ mail[r] = {}
  /\ r \notin exited
  /\ exited' = exited \cup {r}
  /\ active' = IF ListensToExit(r) THEN [active EXCEPT ![req[r].tab] = None] ELSE active
  /\ UNCHANGED <<portVars, phase, req, child, bound, mail, joined, parent, call>>

(* SIGINT and SIGTERM: cleanupTerminals, then exit.                        *)
ParentStops ==
  /\ parent = "up"
  /\ parent' = "down"
  /\ Kill({active[t] : t \in Tabs} \ {None})
  /\ active' = [t \in Tabs |-> None]
  /\ UNCHANGED <<portVars, phase, req, bound, mail, exited, joined, call>>

ParentCrashes ==
  /\ parent = "up"
  /\ parent' = "down"
  /\ UNCHANGED <<portVars, phase, req, child, bound, mail, exited, joined,
                 active, call>>

-----------------------------------------------------------------------------
(* terminals(pid).runCmd and its siblings.                                 *)

StartCall(k, t) ==
  /\ parent = "up"
  /\ call[k].state = "idle"
  /\ call' = [call EXCEPT ![k] = [state |-> IF active[t] = None THEN "empty" ELSE "waiting",
                                  child |-> active[t]]]
  /\ UNCHANGED <<portVars, phase, req, child, bound, mail, exited, joined,
                 active, parent>>

\* mutant of Hears: an exit removes the listeners of the tab's present child
Hears_perTab(k) == \A r \in exited : req[r].tab # req[call[k].child].tab

Hears(k) == call[k].child \notin exited

ChildAnswersCall(k) ==
  /\ parent = "up"
  /\ call[k].state = "waiting"
  /\ Hears(k)
  /\ child[call[k].child] \in {"up", "closing"}
  /\ call' = [call EXCEPT ![k].state = "answered"]
  /\ UNCHANGED <<portVars, phase, req, child, bound, mail, exited, joined,
                 active, parent>>

-----------------------------------------------------------------------------
ServerStep(r) ==
  \/ ProbeBusy(r) \/ ProbeFree(r) \/ HandleInited(r) \/ HandleCreated(r)
  \/ HandleRefused(r) \/ HandleExit(r)

ChildStep(r) ==
  \/ ChildListens(r) \/ ChildListenFails(r) \/ ChildAnswersCreate(r)
  \/ ChildCloses(r) \/ ChildIdleTimeout(r) \/ ChildDisconnected(r)
  \/ ChildExits(r) \/ ChildCrashes(r)

Next ==
  \/ \E r \in Requests : StartRequest(r) \/ ServerStep(r) \/ ChildStep(r) \/ ClientJoins(r)
  \/ ParentStops
  \/ ParentCrashes
  \/ \E k \in Calls : ChildAnswersCall(k) \/ \E t \in Tabs : StartCall(k, t)

Spec == Init /\ [][Next]_vars

(* The event loops run: a queued event is handled, a started timer fires,  *)
(* a running script answers.  Users, crashes and signals owe nothing.      *)
Fairness ==
  /\ \A r \in Requests :
       /\ WF_vars(ServerStep(r))
       /\ WF_vars(ChildListens(r) \/ ChildListenFails(r))
       /\ WF_vars(ChildIdleTimeout(r))
       /\ WF_vars(ChildDisconnected(r))
       /\ WF_vars(ChildExits(r))
  /\ \A k \in Calls : WF_vars(ChildAnswersCall(k))

FairSpec == Spec /\ Fairness

-----------------------------------------------------------------------------
(* pendingPorts is exactly the start ports of the probes under way, each   *)
(* of another probe: getPort neither leaks a port when the probe fails or  *)
(* succeeds nor releases one that a concurrent getPort still holds.        *)
PendingMatchesProbes ==
  /\ pendingPorts = {start[r] : r \in {q \in Requests : phase[q] = "probing"}}
  /\ \A r, q \in Requests :
       phase[r] = "probing" /\ phase[q] = "probing" /\ start[r] = start[q] => r = q

(* activeTerminals never leads a call to a child that is known to be dead, *)
(* that another tab asked for, that a connection test started or whose     *)
(* terminal() has not returned, whatever the order of exits and answers.   *)
RegistryIsServed ==
  \A t \in Tabs : active[t] # None =>
    /\ active[t] \notin exited
    /\ req[active[t]].tab = t
    /\ req[active[t]].kind # "test"
    /\ phase[active[t]] = "ok"

(* The port that terminal() returns is listened on by the child that was   *)
(* forked for this call and by nobody else, as long as that child lives:   *)
(* two calls that were assigned the same port never end in one tab's       *)
(* WebSocket reaching the session process of another.                      *)
AnsweredPortIsItsOwn ==
  \A r \in Requests : phase[r] = "ok" /\ child[r] # "gone" =>
    /\ r \in bound
    /\ port[r] \notin ForeignPorts
    /\ \A q \in bound : port[q] = port[r] => q = r

(* "Skip ports that are currently being assigned" (getPort): no port is    *)
(* given to a second child while the first one it was given to starts.     *)
AssignedPortsDistinct ==
  \A r, q \in Requests :
    child[r] = "starting" /\ child[q] = "starting" /\ port[r] = port[q] => r = q

(* "Kill any existing child process for this pid before overwriting"       *)
(* (terminal): no two children serve the same tab.                         *)
OneServingChildPerTab ==
  \A r, q \in Requests :
    /\ phase[r] = "ok" /\ child[r] = "up" /\ req[r].kind # "test"
    /\ phase[q] = "ok" /\ child[q] = "up" /\ req[q].kind # "test"
    /\ req[r].tab = req[q].tab
    => r = q

Done(r) == child[r] \in {"none", "gone"}

Child(r) ==
  INSTANCE SessionChild WITH life <- child[r], joined <- r \in joined, severed <- parent = "down"

(* Every child keeps the promise of a session process.  Whether the server *)
(* is stopped or dies, every child, the ones that still start or wait      *)
(* included, exits; and so does a child that no tab uses, that of a call   *)
(* that failed or never gets its answer, also where testConnection leaves  *)
(* it running (its kill is skipped by the exception).                      *)
ChildrenKeepPromise ==
  /\ \A r \in Requests : Child(r)!Init
  /\ [][\A r \in Requests : [Child(r)!Next]_(Child(r)!vars)]_vars
  /\ \A r \in Requests : Child(r)!Ends

(* A command sent to a tab's child is answered unless the child ends: the  *)
(* exit of another child of the tab does not take its answer away.         *)
CallIsAnswered ==
  \A k \in Calls :
    call[k].state = "waiting" ~>
      \/ call[k].state = "answered"
      \/ \E r \in Requests : r = call[k].child /\ Done(r)
      \/ parent = "down"
=============================================================================
