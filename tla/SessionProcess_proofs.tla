----------------------- MODULE SessionProcess_proofs -----------------------
(***************************************************************************)
(* Proofs about SessionProcess: for any number of concurrent calls, tabs   *)
(* and ports, the bookkeeping of ports and of activeTerminals is right,    *)
(* and the port that terminal() returns is served by the child of that     *)
(* call alone.  Each invariant needs to know how far a child can be while  *)
(* its call stands in a given phase; these facts are the first part of the *)
(* module.                                                                 *)
(***************************************************************************)
EXTENDS SessionProcess, TLAPS

(* A call that has not forked has no child; a child whose script has not   *)
(* run has sent nothing and listens on nothing.                            *)
ChildStages ==
  \A r \in Requests :
    /\ phase[r] \in {"idle", "probing"} => child[r] = "none"
    /\ child[r] \in {"none", "starting"} => mail[r] = {} /\ r \notin bound

(* An 'exit' is handled after the child's end and its last message.        *)
ExitedIsGone == \A r \in exited : child[r] = "gone" /\ mail[r] = {}

(* Listeners are living processes, one for each port.                      *)
Listeners ==
  \A r \in bound :
    /\ child[r] \in {"up", "closing"}
    /\ port[r] \notin ForeignPorts
    /\ \A q \in bound : port[q] = port[r] => q = r

(* Whoever announced that it listens does so until it ends.                *)
AnnouncedListens ==
  \A r \in Requests :
    /\ "inited" \in mail[r] \/ phase[r] \in {"creating", "ok"}
    /\ child[r] # "gone"
    => r \in bound

StageInv == ChildStages /\ ExitedIsGone /\ Listeners /\ AnnouncedListens

IInv == TypeOK /\ StageInv /\ PendingMatchesProbes /\ RegistryIsServed

-----------------------------------------------------------------------------
LEMMA TypeInit == Init => TypeOK
  BY PortsAssumption DEF Init, TypeOK, Ports, Kinds

LEMMA KillType ==
  ASSUME TypeOK, NEW cs, Kill(cs)
  PROVE  child' \in [Requests -> {"none", "starting", "up", "closing", "gone"}]
  BY DEF TypeOK, Kill, Killed

(* Every action keeps every variable in its type: in particular a probe    *)
(* never leaves the range of ports.                                        *)
LEMMA TypeStep == TypeOK /\ [Next]_vars => TypeOK'
<1> SUFFICES ASSUME TypeOK, [Next]_vars PROVE TypeOK'
  OBVIOUS
<1> USE DEF TypeOK
<1>1. ASSUME NEW r \in Requests, StartRequest(r) PROVE TypeOK'
  BY <1>1 DEF StartRequest
<1>2. ASSUME NEW r \in Requests, ProbeBusy(r) PROVE TypeOK'
  <2>1. \A p \in Ports : p < MaxPort => p + 1 \in Ports
    BY PortsAssumption DEF Ports
  <2>2. port' \in [Requests -> Ports]
    <3>1. CASE HasNextPort(r)
      BY <1>2, <2>1, <3>1 DEF ProbeBusy, HasNextPort
    <3>2. CASE ~HasNextPort(r)
      BY <1>2, <3>2 DEF ProbeBusy
    <3> QED
      BY <3>1, <3>2
  <2> QED
    BY <1>2, <2>2 DEF ProbeBusy
<1>3. ASSUME NEW r \in Requests, ProbeFree(r) PROVE TypeOK'
  BY <1>3 DEF ProbeFree
<1>4. ASSUME NEW r \in Requests, ChildStep(r) PROVE TypeOK'
  <2>1. CASE ChildListens(r)
    BY <2>1 DEF ChildListens, portVars
  <2>4. CASE ChildAnswersCreate(r)
    <3>1. PICK m \in {"created", "refused"} : mail' = [mail EXCEPT ![r] = {m}]
      BY <2>4 DEF ChildAnswersCreate
    <3> QED
      BY <2>4, <3>1 DEF ChildAnswersCreate, portVars
  <2>2. CASE ChildListenFails(r) \/ ChildCloses(r) \/ ChildIdleTimeout(r) \/ ChildDisconnected(r)
    BY <2>2 DEF ChildListenFails, ChildCloses, ChildIdleTimeout, ChildDisconnected, portVars
  <2>3. CASE ChildExits(r) \/ ChildCrashes(r)
    BY <2>3 DEF ChildExits, ChildCrashes, portVars
  <2> QED
    BY <1>4, <2>1, <2>2, <2>3, <2>4 DEF ChildStep
<1>5. ASSUME NEW r \in Requests, HandleInited(r) PROVE TypeOK'
  <2>1. CASE req[r].kind = "ftp" /\ Register(r)
    <3>1. child' \in [Requests -> {"none", "starting", "up", "closing", "gone"}]
      BY <2>1, KillType DEF Register
    <3> QED
      BY <1>5, <2>1, <3>1 DEF HandleInited, Register, portVars
  <2>2. CASE phase' = [phase EXCEPT ![r] = "creating"] /\ UNCHANGED <<child, active>>
    BY <1>5, <2>2 DEF HandleInited, portVars
  <2> QED
    BY <1>5, <2>1, <2>2 DEF HandleInited
<1>6. ASSUME NEW r \in Requests, HandleCreated(r) PROVE TypeOK'
  <2>1. CASE Register(r)
    <3>1. child' \in [Requests -> {"none", "starting", "up", "closing", "gone"}]
      BY <2>1, KillType DEF Register
    <3> QED
      BY <1>6, <2>1, <3>1 DEF HandleCreated, Register, portVars
  <2>2. CASE Kill({r}) /\ phase' = [phase EXCEPT ![r] = "ok"] /\ UNCHANGED active
    <3>1. child' \in [Requests -> {"none", "starting", "up", "closing", "gone"}]
      BY <2>2, KillType
    <3> QED
      BY <1>6, <2>2, <3>1 DEF HandleCreated, portVars
  <2> QED
    BY <1>6, <2>1, <2>2 DEF HandleCreated
<1>7. ASSUME NEW r \in Requests, HandleRefused(r) PROVE TypeOK'
  <2>1. child' \in [Requests -> {"none", "starting", "up", "closing", "gone"}]
    BY <1>7, KillType DEF HandleRefused
  <2> QED
    BY <1>7, <2>1 DEF HandleRefused, portVars
<1>8. ASSUME NEW r \in Requests, HandleExit(r) PROVE TypeOK'
  BY <1>8 DEF HandleExit, portVars, Kinds
<1>9. ASSUME NEW r \in Requests, ClientJoins(r) PROVE TypeOK'
  BY <1>9 DEF ClientJoins, portVars
<1>10. ASSUME ParentStops PROVE TypeOK'
  BY <1>10, KillType DEF ParentStops, portVars
<1>11. ASSUME ParentCrashes PROVE TypeOK'
  BY <1>11 DEF ParentCrashes, portVars
<1>12. ASSUME NEW k \in Calls, ChildAnswersCall(k) PROVE TypeOK'
  BY <1>12 DEF ChildAnswersCall, portVars
<1>13. ASSUME NEW k \in Calls, NEW t \in Tabs, StartCall(k, t) PROVE TypeOK'
  BY <1>13 DEF StartCall, portVars
<1>14. CASE UNCHANGED vars
  BY <1>14 DEF vars
<1> QED
  BY <1>1, <1>2, <1>3, <1>4, <1>5, <1>6, <1>7, <1>8, <1>9, <1>10, <1>11, <1>12,
     <1>13, <1>14 DEF Next, ServerStep

THEOREM TypeCorrect == Spec => []TypeOK
<1>1. TypeOK /\ [Next]_vars => TypeOK'
  BY TypeStep
<1> QED
  BY TypeInit, <1>1, PTL DEF Spec

-----------------------------------------------------------------------------
(* What Kill does to a child, whichever it is.                             *)
LEMMA KillLeaves ==
  ASSUME TypeOK, NEW cs, Kill(cs), NEW r \in Requests
  PROVE  /\ child[r] \in {"none", "starting", "gone"} => child'[r] = child[r]
         /\ child[r] \in {"up", "closing"} => child'[r] \in {"up", "closing"}
  BY DEF TypeOK, Kill, Killed

(* The steps in which the server handles a message of a child, as far as   *)
(* the stages of that child are concerned.                                 *)
LEMMA HandleShape ==
  ASSUME TypeOK, NEW r \in Requests,
         HandleInited(r) \/ HandleCreated(r) \/ HandleRefused(r)
  PROVE  /\ phase[r] \in {"forking", "creating"}
         /\ phase[r] = "forking" => Inited(r)
         /\ mail[r] # {} /\ mail' = [mail EXCEPT ![r] = {}]
         /\ \E s \in {"creating", "ok", "error"} : phase' = [phase EXCEPT ![r] = s]
         /\ \A q \in Requests :
              /\ child[q] \in {"none", "starting", "gone"} => child'[q] = child[q]
              /\ child[q] \in {"up", "closing"} => child'[q] \in {"up", "closing"}
         /\ UNCHANGED <<portVars, bound, exited>>
<1>1. \A q \in Requests :
         /\ child[q] \in {"none", "starting", "gone"} => child'[q] = child[q]
         /\ child[q] \in {"up", "closing"} => child'[q] \in {"up", "closing"}
  <2>1. CASE child' = child
    BY <2>1
  <2>2. CASE \E cs : Kill(cs)
    BY <2>2, KillLeaves
  <2> QED
    BY <2>1, <2>2 DEF HandleInited, HandleCreated, HandleRefused, Register
<1>2. CASE HandleInited(r)
  BY <1>1, <1>2 DEF HandleInited, Register, Inited
<1>3. CASE HandleCreated(r)
  BY <1>1, <1>3 DEF HandleCreated, Register
<1>4. CASE HandleRefused(r)
  BY <1>1, <1>4 DEF HandleRefused
<1> QED
  BY <1>2, <1>3, <1>4

LEMMA StageInit == Init => StageInv
  BY DEF Init, StageInv, ChildStages, ExitedIsGone, Listeners, AnnouncedListens

(* A child's stage, its listener and its messages stay in step.            *)
LEMMA StageStep == TypeOK /\ StageInv /\ [Next]_vars => StageInv'
<1> SUFFICES ASSUME TypeOK, StageInv, [Next]_vars PROVE StageInv'
  OBVIOUS
<1> USE DEF TypeOK, StageInv, ChildStages, ExitedIsGone, Listeners, AnnouncedListens
<1>1. ASSUME NEW r \in Requests, StartRequest(r) PROVE StageInv'
  BY <1>1 DEF StartRequest
<1>2. ASSUME NEW r \in Requests, ProbeBusy(r) PROVE StageInv'
  BY <1>2 DEF ProbeBusy
<1>3. ASSUME NEW r \in Requests, ProbeFree(r) PROVE StageInv'
  BY <1>3 DEF ProbeFree
<1>4. ASSUME NEW r \in Requests, ChildListens(r) PROVE StageInv'
  BY <1>4 DEF ChildListens, Occupied, portVars
<1>5. ASSUME NEW r \in Requests, ChildListenFails(r) PROVE StageInv'
  BY <1>5 DEF ChildListenFails, portVars
<1>6. ASSUME NEW r \in Requests, ChildAnswersCreate(r) PROVE StageInv'
  BY <1>6 DEF ChildAnswersCreate, portVars
<1>7. ASSUME NEW r \in Requests,
             ChildCloses(r) \/ ChildIdleTimeout(r) \/ ChildDisconnected(r)
      PROVE StageInv'
  BY <1>7 DEF ChildCloses, ChildIdleTimeout, ChildDisconnected, portVars
<1>8. ASSUME NEW r \in Requests, ChildExits(r) \/ ChildCrashes(r) PROVE StageInv'
  <2>1. /\ child[r] \in {"starting", "up", "closing"}
        /\ child' = [child EXCEPT ![r] = "gone"] /\ bound' = bound \ {r}
        /\ UNCHANGED <<phase, port, mail, exited>>
    BY <1>8 DEF ChildExits, ChildCrashes, portVars
  <2> QED
    BY <2>1
<1>9. ASSUME NEW r \in Requests,
             HandleInited(r) \/ HandleCreated(r) \/ HandleRefused(r)
      PROVE StageInv'
  <2>1. /\ phase[r] \in {"forking", "creating"}
        /\ phase[r] = "forking" => "inited" \in mail[r]
        /\ mail[r] # {} /\ mail' = [mail EXCEPT ![r] = {}]
        /\ \A q \in Requests :
             /\ child[q] \in {"none", "starting", "gone"} => child'[q] = child[q]
             /\ child[q] \in {"up", "closing"} => child'[q] \in {"up", "closing"}
        /\ port' = port /\ bound' = bound /\ exited' = exited
    BY <1>9, HandleShape DEF Inited, portVars
  <2>2. PICK s \in {"creating", "ok", "error"} : phase' = [phase EXCEPT ![r] = s]
    BY <1>9, HandleShape
  <2>3. ChildStages'
    BY <2>1, <2>2
  <2>4. ExitedIsGone' /\ Listeners'
    BY <2>1, <2>2
  <2>5. AnnouncedListens'
    BY <2>1, <2>2
  <2> QED
    BY <2>3, <2>4, <2>5
<1>10. ASSUME NEW r \in Requests, HandleExit(r) PROVE StageInv'
  BY <1>10 DEF HandleExit, portVars
<1>11. ASSUME NEW r \in Requests, ClientJoins(r) PROVE StageInv'
  BY <1>11 DEF ClientJoins, portVars
<1>12. ASSUME ParentStops PROVE StageInv'
  <2>1. \A q \in Requests :
          /\ child[q] \in {"none", "starting", "gone"} => child'[q] = child[q]
          /\ child[q] \in {"up", "closing"} => child'[q] \in {"up", "closing"}
    BY <1>12, KillLeaves DEF ParentStops
  <2> QED
    BY <1>12, <2>1 DEF ParentStops, portVars
<1>13. ASSUME ParentCrashes \/ (\E k \in Calls : ChildAnswersCall(k) \/ \E t \in Tabs : StartCall(k, t))
       PROVE StageInv'
  BY <1>13 DEF ParentCrashes, ChildAnswersCall, StartCall, portVars
<1>14. CASE UNCHANGED vars
  BY <1>14 DEF vars
<1> QED
  BY <1>1, <1>2, <1>3, <1>4, <1>5, <1>6, <1>7, <1>8, <1>9, <1>10, <1>11, <1>12,
     <1>13, <1>14 DEF Next, ServerStep, ChildStep

-----------------------------------------------------------------------------
LEMMA PendingInit == Init => PendingMatchesProbes
  BY DEF Init, PendingMatchesProbes

(* The end of one probe, found or failed.                                  *)
LEMMA Release ==
  ASSUME TypeOK, PendingMatchesProbes, NEW r \in Requests, phase[r] = "probing",
         pendingPorts' = pendingPorts \ {start[r]}, start' = start,
         \A q \in Requests : phase'[q] = "probing" <=> q # r /\ phase[q] = "probing"
  PROVE  PendingMatchesProbes'
<1>1. ASSUME NEW p \in pendingPorts'
      PROVE  \E q \in Requests : phase'[q] = "probing" /\ start'[q] = p
  BY <1>1 DEF PendingMatchesProbes
<1>2. ASSUME NEW q \in Requests, phase'[q] = "probing"
      PROVE  start'[q] \in pendingPorts'
  BY <1>2 DEF PendingMatchesProbes
<1>3. pendingPorts' = {start'[q] : q \in {p \in Requests : phase'[p] = "probing"}}
  BY <1>1, <1>2
<1> QED
  BY <1>3 DEF PendingMatchesProbes

(* getPort releases the start port of its own probe and of no other.       *)
LEMMA PendingStep == TypeOK /\ PendingMatchesProbes /\ [Next]_vars => PendingMatchesProbes'
<1> SUFFICES ASSUME TypeOK, PendingMatchesProbes, [Next]_vars PROVE PendingMatchesProbes'
  OBVIOUS
<1> USE DEF TypeOK, PendingMatchesProbes
<1>1. ASSUME NEW r \in Requests, StartRequest(r) PROVE PendingMatchesProbes'
  <2>1. PICK p \in Ports : IsStartPort(p) /\ start' = [start EXCEPT ![r] = p]
                         /\ pendingPorts' = pendingPorts \cup {p}
    BY <1>1 DEF StartRequest
  <2>2. p \notin pendingPorts
    BY <2>1 DEF IsStartPort
  <2> QED
    BY <1>1, <2>1, <2>2 DEF StartRequest
<1>2. ASSUME NEW r \in Requests, ProbeBusy(r) PROVE PendingMatchesProbes'
  <2>1. CASE HasNextPort(r)
    BY <1>2, <2>1 DEF ProbeBusy
  <2>2. CASE ~HasNextPort(r)
    <3>1. \A q \in Requests : phase'[q] = "probing" <=> q # r /\ phase[q] = "probing"
      BY <1>2, <2>2 DEF ProbeBusy
    <3>2. phase[r] = "probing" /\ pendingPorts' = pendingPorts \ {start[r]} /\ start' = start
      BY <1>2, <2>2 DEF ProbeBusy
    <3> QED
      BY <3>1, <3>2, Release
  <2> QED
    BY <2>1, <2>2
<1>3. ASSUME NEW r \in Requests, ProbeFree(r) PROVE PendingMatchesProbes'
  <2>1. \A q \in Requests : phase'[q] = "probing" <=> q # r /\ phase[q] = "probing"
    BY <1>3 DEF ProbeFree
  <2>2. phase[r] = "probing" /\ pendingPorts' = pendingPorts \ {start[r]} /\ start' = start
    BY <1>3 DEF ProbeFree
  <2> QED
    BY <2>1, <2>2, Release
<1>4. ASSUME NEW r \in Requests,
             HandleInited(r) \/ HandleCreated(r) \/ HandleRefused(r)
      PROVE PendingMatchesProbes'
  <2>1. UNCHANGED <<pendingPorts, start>>
    BY <1>4, HandleShape DEF portVars
  <2>2. \A q \in Requests : phase'[q] = "probing" <=> phase[q] = "probing"
    <3>1. PICK s \in {"creating", "ok", "error"} : phase' = [phase EXCEPT ![r] = s]
      BY <1>4, HandleShape
    <3>2. phase[r] # "probing"
      BY <1>4, HandleShape
    <3> QED
      BY <3>1, <3>2
  <2>3. {q \in Requests : phase'[q] = "probing"} = {q \in Requests : phase[q] = "probing"}
    BY <2>2
  <2> QED
    BY <2>1, <2>2, <2>3
<1>5. ASSUME UNCHANGED <<pendingPorts, start, phase>> PROVE PendingMatchesProbes'
  BY <1>5
<1>6. ASSUME NEW r \in Requests, ChildStep(r) \/ HandleExit(r) \/ ClientJoins(r)
      PROVE UNCHANGED <<pendingPorts, start, phase>>
  BY <1>6 DEF ChildStep, ChildListens, ChildListenFails, ChildAnswersCreate, ChildCloses,
     ChildIdleTimeout, ChildDisconnected, ChildExits, ChildCrashes, HandleExit,
     ClientJoins, portVars
<1>7. ASSUME \/ ParentStops \/ ParentCrashes
             \/ \E k \in Calls : ChildAnswersCall(k) \/ \E t \in Tabs : StartCall(k, t)
      PROVE UNCHANGED <<pendingPorts, start, phase>>
  BY <1>7 DEF ParentStops, ParentCrashes, ChildAnswersCall, StartCall, portVars
<1>8. CASE UNCHANGED vars
  BY <1>5, <1>8 DEF vars
<1> QED
  BY <1>1, <1>2, <1>3, <1>4, <1>5, <1>6, <1>7, <1>8 DEF Next, ServerStep

-----------------------------------------------------------------------------
LEMMA RegistryInit == Init => RegistryIsServed
  BY DEF Init, RegistryIsServed

(* What Register leaves behind for the child it records.                   *)
LEMMA RegisterStep ==
  ASSUME TypeOK, RegistryIsServed, NEW r \in Requests, Register(r),
         r \notin exited, req[r].kind # "test",
         req' = req, exited' = exited
  PROVE  RegistryIsServed'
  BY NamesAssumption DEF TypeOK, RegistryIsServed, Register

(* A registered child is not known to be dead and is the tab's own.        *)
LEMMA RegistryStep ==
  TypeOK /\ StageInv /\ RegistryIsServed /\ [Next]_vars => RegistryIsServed'
<1> SUFFICES ASSUME TypeOK, StageInv, RegistryIsServed, [Next]_vars
             PROVE  RegistryIsServed'
  OBVIOUS
<1>1. ASSUME NEW r \in Requests, HandleInited(r) PROVE RegistryIsServed'
  <2>1. r \notin exited
    BY <1>1, HandleShape DEF StageInv, ExitedIsGone
  <2>2. CASE req[r].kind = "ftp" /\ Register(r)
    BY <1>1, <2>1, <2>2, RegisterStep DEF HandleInited
  <2>3. CASE phase' = [phase EXCEPT ![r] = "creating"] /\ UNCHANGED <<child, active>>
    BY <1>1, <2>3 DEF HandleInited, TypeOK, RegistryIsServed
  <2> QED
    BY <1>1, <2>2, <2>3 DEF HandleInited
<1>2. ASSUME NEW r \in Requests, HandleCreated(r) PROVE RegistryIsServed'
  <2>1. r \notin exited
    BY <1>2, HandleShape DEF StageInv, ExitedIsGone
  <2>2. CASE req[r].kind = "session" /\ Register(r)
    BY <1>2, <2>1, <2>2, RegisterStep DEF HandleCreated
  <2>3. CASE phase' = [phase EXCEPT ![r] = "ok"] /\ UNCHANGED active
    BY <1>2, <2>3 DEF HandleCreated, TypeOK, RegistryIsServed
  <2> QED
    BY <1>2, <2>2, <2>3 DEF HandleCreated
<1>3. ASSUME NEW r \in Requests, HandleRefused(r) PROVE RegistryIsServed'
  BY <1>3 DEF HandleRefused, TypeOK, RegistryIsServed
<1>4. ASSUME NEW r \in Requests, HandleExit(r) PROVE RegistryIsServed'
  <2>1. CASE ListensToExit(r)
    BY <1>4, <2>1 DEF HandleExit, TypeOK, RegistryIsServed
  <2>2. CASE ~ListensToExit(r)
    <3>1. \A t \in Tabs : active[t] # r
      BY <2>2, NamesAssumption DEF ListensToExit, RegistryIsServed
    <3> QED
      BY <1>4, <2>2, <3>1 DEF HandleExit, TypeOK, RegistryIsServed
  <2> QED
    BY <2>1, <2>2
<1>5. ASSUME ParentStops PROVE RegistryIsServed'
  BY <1>5 DEF ParentStops, RegistryIsServed
<1>6. ASSUME NEW r \in Requests, StartRequest(r) \/ ProbeBusy(r) \/ ProbeFree(r)
      PROVE RegistryIsServed'
  <2>1. /\ phase[r] \in {"idle", "probing"}
        /\ \A q \in Requests : q # r => phase'[q] = phase[q]
        /\ UNCHANGED <<req, exited, active>>
    BY <1>6 DEF StartRequest, ProbeBusy, ProbeFree, TypeOK
  <2> QED
    BY <2>1 DEF TypeOK, RegistryIsServed
<1>7. ASSUME UNCHANGED <<active, exited, req, phase>> PROVE RegistryIsServed'
  BY <1>7 DEF RegistryIsServed
<1>8. ASSUME NEW r \in Requests, ChildStep(r) \/ ClientJoins(r)
      PROVE UNCHANGED <<active, exited, req, phase>>
  BY <1>8 DEF ChildStep, ChildListens, ChildListenFails, ChildAnswersCreate, ChildCloses,
     ChildIdleTimeout, ChildDisconnected, ChildExits, ChildCrashes, ClientJoins
<1>9. ASSUME \/ ParentCrashes
             \/ \E k \in Calls : ChildAnswersCall(k) \/ \E t \in Tabs : StartCall(k, t)
      PROVE UNCHANGED <<active, exited, req, phase>>
  BY <1>9 DEF ParentCrashes, ChildAnswersCall, StartCall
<1>10. CASE UNCHANGED vars
  BY <1>7, <1>10 DEF vars
<1> QED
  BY <1>1, <1>2, <1>3, <1>4, <1>5, <1>6, <1>7, <1>8, <1>9, <1>10 DEF Next, ServerStep

-----------------------------------------------------------------------------
(* The inductive invariant: types, stages, ports and registry together.    *)
THEOREM Inductive == Spec => []IInv
<1>1. Init => IInv
  BY TypeInit, StageInit, PendingInit, RegistryInit DEF IInv
<1>2. IInv /\ [Next]_vars => IInv'
  BY TypeStep, StageStep, PendingStep, RegistryStep DEF IInv
<1> QED
  BY <1>1, <1>2, PTL DEF Spec

(* For any number of concurrent calls, getPort's set of pending ports is   *)
(* exactly the start ports of the searches under way.                      *)
THEOREM PortsTracked == Spec => []PendingMatchesProbes
<1>1. IInv => PendingMatchesProbes
  BY DEF IInv
<1> QED
  BY <1>1, Inductive, PTL

(* An entry of activeTerminals is the tab's own child, opened, and not     *)
(* known to have ended.                                                    *)
THEOREM RegistryServed == Spec => []RegistryIsServed
<1>1. IInv => RegistryIsServed
  BY DEF IInv
<1> QED
  BY <1>1, Inductive, PTL

(* Although two calls may be given the same port (AssignedPortsDistinct    *)
(* fails), both never return it: what terminal() answers is listened on by *)
(* its own child alone.                                                    *)
THEOREM PortServed == Spec => []AnsweredPortIsItsOwn
<1>1. IInv => AnsweredPortIsItsOwn
  BY DEF IInv, StageInv, AnnouncedListens, Listeners, AnsweredPortIsItsOwn
<1> QED
  BY <1>1, Inductive, PTL
-----------------------------------------------------------------------------
(* The life of a child.                                                    *)

(* What a step may do to each child: nothing, or one of the arrows.        *)
Lives == \A r \in Requests : child'[r] = child[r] \/ <<child[r], child'[r]>> \in Child(r)!Arrows

(* Who joins a child does so while it serves, and nobody leaves: joined is *)
(* "was ever reached".  The server process does not come back.             *)
JoinsServed ==
  /\ \A r \in Requests :
       /\ r \in joined => r \in joined'
       /\ r \in joined' /\ r \notin joined => child[r] \in {"up", "closing"}
  /\ parent = "down" => parent' = "down"

LEMMA KillLives == ASSUME TypeOK, NEW cs, Kill(cs) PROVE Lives
  BY DEF TypeOK, Kill, Killed, Lives, Child!Arrows

(* fork, listen, cleanup, exit and kill are the arrows of SessionChild; in *)
(* particular a call forks once, so no child starts where one was.         *)
LEMMA LivesStep == TypeOK /\ StageInv /\ [Next]_vars => Lives
<1> SUFFICES ASSUME TypeOK, StageInv, [Next]_vars PROVE Lives
  OBVIOUS
<1> USE DEF TypeOK, Lives, Child!Arrows
<1>1. ASSUME child' = child PROVE Lives
  BY <1>1
<1>2. ASSUME NEW r \in Requests, StartRequest(r) \/ ProbeBusy(r) \/ HandleExit(r) \/ ClientJoins(r)
      PROVE Lives
  BY <1>1, <1>2 DEF StartRequest, ProbeBusy, HandleExit, ClientJoins
<1>3. ASSUME NEW r \in Requests, ProbeFree(r) PROVE Lives
  BY <1>3 DEF ProbeFree, StageInv, ChildStages
<1>4. ASSUME NEW r \in Requests, ChildStep(r) PROVE Lives
  <2>1. CASE ChildAnswersCreate(r)
    BY <1>1, <2>1 DEF ChildAnswersCreate
  <2>2. CASE ChildListens(r) \/ ChildListenFails(r)
    BY <2>2 DEF ChildListens, ChildListenFails
  <2>3. CASE ChildCloses(r) \/ ChildIdleTimeout(r) \/ ChildDisconnected(r)
    BY <2>3 DEF ChildCloses, ChildIdleTimeout, ChildDisconnected
  <2>4. CASE ChildExits(r) \/ ChildCrashes(r)
    BY <2>4 DEF ChildExits, ChildCrashes
  <2> QED
    BY <1>4, <2>1, <2>2, <2>3, <2>4 DEF ChildStep
<1>5. ASSUME NEW r \in Requests, HandleInited(r) \/ HandleCreated(r) \/ HandleRefused(r)
      PROVE Lives
  <2>1. child' = child \/ \E cs : Kill(cs)
    BY <1>5 DEF HandleInited, HandleCreated, HandleRefused, Register
  <2> QED
    BY <1>1, <2>1, KillLives
<1>6. CASE ParentStops
  BY <1>6, KillLives DEF ParentStops
<1>7. CASE ParentCrashes \/ \E k \in Calls : ChildAnswersCall(k) \/ \E t \in Tabs : StartCall(k, t)
  BY <1>1, <1>7 DEF ParentCrashes, ChildAnswersCall, StartCall
<1>8. CASE UNCHANGED vars
  BY <1>1, <1>8 DEF vars
<1> QED
  BY <1>2, <1>3, <1>4, <1>5, <1>6, <1>7, <1>8 DEF Next, ServerStep

LEMMA JoinsStep == TypeOK /\ [Next]_vars => JoinsServed
<1> SUFFICES ASSUME TypeOK, [Next]_vars PROVE JoinsServed
  OBVIOUS
<1> USE DEF JoinsServed
<1>1. ASSUME UNCHANGED <<joined, parent>> PROVE JoinsServed
  BY <1>1
<1>2. ASSUME NEW r \in Requests, ClientJoins(r) PROVE JoinsServed
  BY <1>2 DEF ClientJoins
<1>3. CASE ParentStops \/ ParentCrashes
  BY <1>3 DEF ParentStops, ParentCrashes
<1>4. ASSUME NEW r \in Requests, StartRequest(r) \/ ServerStep(r) PROVE JoinsServed
  BY <1>1, <1>4 DEF StartRequest, ServerStep, ProbeBusy, ProbeFree, HandleInited, HandleCreated,
     HandleRefused, HandleExit
<1>5. ASSUME NEW r \in Requests, ChildStep(r) PROVE JoinsServed
  BY <1>1, <1>5 DEF ChildStep, ChildListens, ChildListenFails, ChildAnswersCreate, ChildCloses,
     ChildIdleTimeout, ChildDisconnected, ChildExits, ChildCrashes
<1>6. CASE \E k \in Calls : ChildAnswersCall(k) \/ \E t \in Tabs : StartCall(k, t)
  BY <1>1, <1>6 DEF ChildAnswersCall, StartCall
<1>7. CASE UNCHANGED vars
  BY <1>1, <1>7 DEF vars
<1> QED
  BY <1>2, <1>3, <1>4, <1>5, <1>6, <1>7 DEF Next

(* The safety part of ChildrenKeepPromise: with any number of calls, each  *)
(* child goes through the life of a SessionChild, once, and is joined only *)
(* while it serves, whatever the order of its messages, its kill, its exit *)
(* and the end of the server process.                                      *)
THEOREM ChildrenLiveAsPromised ==
  Spec => /\ \A r \in Requests : Child(r)!Init
          /\ [][\A r \in Requests : [Child(r)!Next]_(Child(r)!vars)]_vars
<1>1. Init => \A r \in Requests : Child(r)!Init
  BY DEF Init, Child!Init
<1>2. IInv /\ [Next]_vars => [\A r \in Requests : [Child(r)!Next]_(Child(r)!vars)]_vars
  <2> SUFFICES ASSUME IInv, [Next]_vars, NEW r \in Requests
               PROVE  [Child(r)!Next]_(Child(r)!vars)
    OBVIOUS
  <2>1. Lives /\ JoinsServed
    BY LivesStep, JoinsStep DEF IInv
  <2> QED
    BY <2>1 DEF Lives, JoinsServed, Child!Next, Child!vars
<1> QED
  BY <1>1, <1>2, Inductive, PTL DEF Spec
=============================================================================
