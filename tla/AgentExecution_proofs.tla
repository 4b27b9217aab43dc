----------------------- MODULE AgentExecution_proofs -----------------------
(***************************************************************************)
(* Proofs about AgentExecution: for any number of commands, execution ids  *)
(* and background jobs, cancelling reaches what runs, a job is said to run *)
(* while its command does, and a command that was stopped never passes for *)
(* one that succeeded.  The arguments rest on what a command can have done *)
(* while its promise is in a given state (Stages).                         *)
(***************************************************************************)
EXTENDS AgentExecution, SequenceTheorems, WellFoundedInduction, TLAPS

Results == {"exit", "signal", "error", "cancelled", "timeout"}

(* A command that was not called has done nothing; one that is not settled *)
(* was not stopped, and has not seen its channel close.                    *)
Stages ==
  \A r \in Runs :
    /\ state[r] # "new" => key[r] \in Ids
    /\ state[r] = "running" => channel[r] \in {"asked", "open"}
    /\ state[r] # "settled" => ~stopped[r]
    /\ \A i \in DOMAIN jobs : jobs[i].run = r => state[r] # "new"

IInv ==
  /\ TypeOK /\ Stages
  /\ RegistryHoldsRunning /\ InterruptedOnce /\ JobsFollowRuns /\ StoppedIsNoSuccess

-----------------------------------------------------------------------------
(* The list of background jobs.                                            *)

(* The least of some numbers, from the library's theorem on < over Nat.    *)
LEMMA LeastNumber ==
  ASSUME NEW T \in SUBSET Nat, T # {}
  PROVE  \E n \in T : \A k \in T : n <= k
<1> DEFINE Less == {ss \in Nat \X Nat : ss[1] < ss[2]}
<1>1. IsWellFoundedOn(Less, Nat)
  BY NatLessThanWellFounded DEF OpToRel
<1>2. PICK n \in T : \A k \in T : <<k, n>> \notin Less
  <2> HIDE DEF Less
  <2> QED BY <1>1, WFMin
<1>3. \A k \in T : ~(k < n)
  BY <1>2
<1> QED BY <1>3

(* Room is made by forgetting a job; no other is touched.                  *)
LEMMA EvictForgets ==
  ASSUME NEW js \in Seq(Job)
  PROVE  /\ Evict(js) \in Seq(Job)
         /\ \A i \in DOMAIN Evict(js) : \E k \in DOMAIN js : Evict(js)[i] = js[k]
<1>1. CASE Len(js) < MaxJobs \/ Finished(js) = {}
  BY <1>1 DEF Evict
<1>2. CASE ~(Len(js) < MaxJobs \/ Finished(js) = {})
  <2> DEFINE m == Min(Finished(js))
  <2>1. DOMAIN js = 1 .. Len(js) /\ Len(js) \in Nat /\ Finished(js) \subseteq Nat /\ Finished(js) # {}
    BY <1>2, LenProperties DEF Finished
  <2>2. \E n \in Finished(js) : \A k \in Finished(js) : n <= k
    BY <2>1, LeastNumber
  <2>3. m \in Finished(js)
    BY <2>2 DEF Min
  <2>4. m \in 1 .. Len(js)
    BY <2>1, <2>3 DEF Finished
  <2>5. Evict(js) = SubSeq(js, 1, m - 1) \o SubSeq(js, m + 1, Len(js))
    BY <1>2 DEF Evict, RemoveAt
  <2> DEFINE a == SubSeq(js, 1, m - 1)
             b == SubSeq(js, m + 1, Len(js))
  <2>6. \A i \in 1 .. Len(js) : js[i] \in Job
    BY <2>1
  <2>7. /\ a \in Seq(Job) /\ Len(a) = m - 1
        /\ \A i \in 1 .. m - 1 : a[i] = js[i]
    BY <2>1, <2>4, <2>6, SubSeqProperties
  <2>8. /\ b \in Seq(Job) /\ Len(b) = Len(js) - m
        /\ \A i \in 1 .. Len(js) - m : b[i] = js[m + i]
    <3>1. /\ b \in Seq(Job) /\ Len(b) = IF m + 1 <= Len(js) THEN Len(js) - (m + 1) + 1 ELSE 0
          /\ \A i \in 1 .. Len(js) - (m + 1) + 1 : b[i] = js[(m + 1) + i - 1]
      BY <2>1, <2>4, <2>6, SubSeqProperties
    <3> QED BY <2>1, <2>4, <3>1
  <2> HIDE DEF a, b, m
  <2>9. /\ a \o b \in Seq(Job) /\ Len(a \o b) = Len(a) + Len(b)
        /\ \A i \in 1 .. Len(a) + Len(b) : (a \o b)[i] = IF i <= Len(a) THEN a[i] ELSE b[i - Len(a)]
    BY <2>7, <2>8, ConcatProperties
  <2>10. DOMAIN (a \o b) = 1 .. Len(js) - 1
    <3>1. Len(a \o b) = Len(js) - 1
      BY <2>1, <2>4, <2>7, <2>8, <2>9
    <3>2. DOMAIN (a \o b) = 1 .. Len(a \o b)
      BY <2>9, LenProperties
    <3> QED BY <3>1, <3>2
  <2>11. ASSUME NEW i \in 1 .. Len(js) - 1 PROVE \E k \in DOMAIN js : (a \o b)[i] = js[k]
    <3>1. CASE i <= m - 1
      <4>1. i \in 1 .. m - 1 /\ i \in 1 .. Len(a) + Len(b) /\ i <= Len(a) /\ i \in DOMAIN js
        BY <2>1, <2>4, <2>7, <2>8, <3>1
      <4>2. (a \o b)[i] = a[i]
        BY <2>9, <4>1
      <4> QED BY <2>7, <4>1, <4>2
    <3>2. CASE ~(i <= m - 1)
      <4>1. (a \o b)[i] = b[i - (m - 1)] /\ i - (m - 1) \in 1 .. Len(js) - m
        BY <2>1, <2>4, <2>7, <2>8, <2>9, <3>2
      <4>2. (a \o b)[i] = js[i + 1] /\ i + 1 \in DOMAIN js
        BY <2>1, <2>4, <2>8, <4>1
      <4> QED BY <4>2
    <3> QED BY <3>1, <3>2
  <2> QED BY <2>5, <2>9, <2>10, <2>11 DEF a, b
<1> QED BY <1>1, <1>2

(* The end of a command is recorded with its jobs and with no other.       *)
LEMMA RecordedJobs ==
  ASSUME NEW js \in Seq(Job), NEW r, NEW res
  PROVE  /\ Recorded(js, r, res) \in Seq(Job)
         /\ Len(Recorded(js, r, res)) = Len(js)
         /\ DOMAIN Recorded(js, r, res) = DOMAIN js
         /\ \A i \in DOMAIN js :
              /\ Recorded(js, r, res)[i].run = js[i].run
              /\ Recorded(js, r, res)[i].status =
                   IF js[i].run = r THEN JobStatus(res) ELSE js[i].status
<1> DEFINE rec == Recorded(js, r, res)
<1>1. DOMAIN js = 1 .. Len(js) /\ Len(js) \in Nat /\ \A i \in 1 .. Len(js) : js[i] \in Job
  BY LenProperties
<1>2. JobStatus(res) \in {"running", "completed", "failed", "cancelled"}
  BY DEF JobStatus
<1>3. DOMAIN rec = 1 .. Len(js) /\ \A i \in 1 .. Len(js) : rec[i] \in Job
  BY <1>1, <1>2 DEF Recorded, Job
<1>4. rec \in [1 .. Len(js) -> Job]
  BY <1>1, <1>3 DEF Recorded
<1>5. rec \in Seq(Job) /\ Len(rec) = Len(js)
  BY <1>1, <1>4
<1>6. \A i \in DOMAIN js : rec[i].run = js[i].run /\ rec[i].status = IF js[i].run = r THEN JobStatus(res) ELSE js[i].status
  BY <1>1 DEF Recorded, Job
<1> QED BY <1>1, <1>3, <1>5, <1>6

-----------------------------------------------------------------------------
(* The first result of a command settles it, frees its id and is recorded  *)
(* with its jobs; a later one changes nothing.                             *)
LEMMA FinishKeeps ==
  ASSUME IInv, NEW r \in Runs, NEW res \in Results, Finish(r, res), key' = key
  PROVE  /\ state' \in [Runs -> {"new", "rejected", "running", "settled"}]
         /\ result' \in [Runs -> {None, "exit", "signal", "error", "cancelled", "timeout"}]
         /\ registry' \in [Ids -> Runs \cup {None}]
         /\ jobs' \in Seq(Job) /\ Len(jobs') = Len(jobs)
         /\ \A q \in Runs :
              /\ state'[q] = IF q = r /\ state[r] = "running" THEN "settled" ELSE state[q]
              /\ result'[q] = IF q = r /\ state[r] = "running" THEN res ELSE result[q]
         /\ DOMAIN jobs' = DOMAIN jobs
         /\ \A i \in DOMAIN jobs :
              /\ jobs'[i].run = jobs[i].run
              /\ jobs'[i].status =
                   IF jobs[i].run = r /\ state[r] = "running" THEN JobStatus(res) ELSE jobs[i].status
         /\ RegistryHoldsRunning'
         /\ JobsFollowRuns'
<1>1. CASE state[r] # "running"
  <2>1. UNCHANGED <<state, result, registry, jobs, key>>
    BY <1>1 DEF Finish
  <2> QED BY <1>1, <2>1 DEF IInv, TypeOK, RegistryHoldsRunning, JobsFollowRuns
<1>2. CASE state[r] = "running"
  <2>1. /\ state' = [state EXCEPT ![r] = "settled"]
        /\ result' = [result EXCEPT ![r] = res]
        /\ registry' = [registry EXCEPT ![key[r]] = None]
        /\ jobs' = Recorded(jobs, r, res)
    BY <1>2 DEF Finish
  <2>2. /\ state \in [Runs -> {"new", "rejected", "running", "settled"}]
        /\ result \in [Runs -> {None, "exit", "signal", "error", "cancelled", "timeout"}]
        /\ registry \in [Ids -> Runs \cup {None}] /\ jobs \in Seq(Job) /\ key[r] \in Ids
        /\ None \notin Runs
    BY <1>2, NoneAssumption DEF IInv, TypeOK, Stages
  <2>3. /\ state' \in [Runs -> {"new", "rejected", "running", "settled"}]
        /\ result' \in [Runs -> {None, "exit", "signal", "error", "cancelled", "timeout"}]
        /\ registry' \in [Ids -> Runs \cup {None}]
        /\ \A q \in Runs :
              /\ state'[q] = IF q = r THEN "settled" ELSE state[q]
              /\ result'[q] = IF q = r THEN res ELSE result[q]
    BY <2>1, <2>2 DEF Results
  <2>4. /\ jobs' \in Seq(Job) /\ Len(jobs') = Len(jobs) /\ DOMAIN jobs' = DOMAIN jobs
        /\ \A i \in DOMAIN jobs :
              /\ jobs'[i].run = jobs[i].run
              /\ jobs'[i].status = IF jobs[i].run = r THEN JobStatus(res) ELSE jobs[i].status
    BY <2>1, <2>2, RecordedJobs
  <2>5. RegistryHoldsRunning'
    <3>1. ASSUME NEW i \in Ids, registry'[i] # None
          PROVE  state'[registry'[i]] = "running" /\ key'[registry'[i]] = i
      <4>1. i # key[r] /\ registry'[i] = registry[i] /\ registry[i] \in Runs
        BY <2>1, <2>2, <3>1
      <4>2. state[registry[i]] = "running" /\ key[registry[i]] = i
        BY <3>1, <4>1 DEF IInv, RegistryHoldsRunning
      <4> QED BY <2>3, <4>1, <4>2
    <3>2. ASSUME NEW q \in Runs, state'[q] = "running" PROVE registry'[key'[q]] = q
      <4>1. q # r /\ state[q] = "running"
        BY <2>3, <3>2
      <4>2. registry[key[q]] = q /\ registry[key[r]] = r /\ key[q] \in Ids
        BY <1>2, <4>1 DEF IInv, RegistryHoldsRunning, Stages
      <4> QED BY <2>1, <2>2, <4>1, <4>2
    <3> QED BY <3>1, <3>2 DEF RegistryHoldsRunning
  <2>6. JobsFollowRuns'
    <3>1. ASSUME NEW i \in DOMAIN jobs'
          PROVE  (jobs'[i].status = "running") <=> (state'[jobs'[i].run] = "running")
      <4>1. jobs[i] \in Job /\ jobs[i].run \in Runs
        <5>1. i \in 1 .. Len(jobs)
          BY <2>2, <2>4, LenProperties
        <5>2. jobs[i] \in Job
          BY <2>2, <5>1, ElementOfSeq
        <5> QED BY <5>2 DEF Job
      <4>2. JobStatus(res) # "running"
        BY DEF JobStatus
      <4>3. (jobs[i].status = "running") <=> (state[jobs[i].run] = "running")
        BY <2>4 DEF IInv, JobsFollowRuns
      <4> QED BY <2>3, <2>4, <4>1, <4>2, <4>3
    <3> QED BY <3>1 DEF JobsFollowRuns
  <2> QED BY <1>2, <2>3, <2>4, <2>5, <2>6
<1> QED BY <1>1, <1>2

(* A call takes an id that nobody holds, or is refused; whatever jobs it   *)
(* is given, they are those of before and one of its own.                  *)
LEMMA ExecuteKeeps ==
  ASSUME IInv, NEW r \in Runs, NEW id \in Ids, NEW js \in Seq(Job), Len(js) <= MaxJobs,
         \A i \in DOMAIN js :
           (\E k \in DOMAIN jobs : js[i] = jobs[k]) \/ (js[i].run = r /\ js[i].status = "running"),
         Execute(r, id, js)
  PROVE  IInv'
<1>1. /\ state[r] = "new" /\ ~stopped[r]
      /\ key' = [key EXCEPT ![r] = id]
      /\ UNCHANGED <<ssh, stopped, interrupts>>
  BY DEF Execute, IInv, Stages
<1>2. /\ state \in [Runs -> {"new", "rejected", "running", "settled"}]
      /\ key \in [Runs -> Ids \cup {None}] /\ key' \in [Runs -> Ids \cup {None}]
      /\ \A q \in Runs : key'[q] = IF q = r THEN id ELSE key[q]
      /\ registry \in [Ids -> Runs \cup {None}] /\ None \notin Runs
      /\ \A i \in Ids : registry[i] # r
      /\ \A q \in Runs : state[q] = "running" => q # r
  <2>1. /\ state \in [Runs -> {"new", "rejected", "running", "settled"}]
        /\ key \in [Runs -> Ids \cup {None}]
        /\ registry \in [Ids -> Runs \cup {None}] /\ None \notin Runs
    BY NoneAssumption DEF IInv, TypeOK
  <2>2. ASSUME NEW i \in Ids, registry[i] = r PROVE FALSE
    BY <1>1, <2>1, <2>2 DEF IInv, RegistryHoldsRunning
  <2> QED BY <1>1, <2>1, <2>2
<1>3. ASSUME NEW i \in DOMAIN js
      PROVE  /\ js[i].run \in Runs
             /\ js[i].run = r => js[i].status = "running"
             /\ js[i].run # r =>
                  /\ state[js[i].run] # "new"
                  /\ (js[i].status = "running") <=> (state[js[i].run] = "running")
                  /\ stopped[js[i].run] => js[i].status # "completed"
  <2>1. js[i] \in Job /\ js[i].run \in Runs
    <3>1. i \in 1 .. Len(js)
      BY LenProperties
    <3>2. js[i] \in Job
      BY <3>1, ElementOfSeq
    <3> QED BY <3>2 DEF Job
  <2>2. CASE \E k \in DOMAIN jobs : js[i] = jobs[k]
    BY <1>1, <2>1, <2>2 DEF IInv, Stages, JobsFollowRuns, StoppedIsNoSuccess
  <2>3. CASE js[i].run = r /\ js[i].status = "running"
    BY <2>1, <2>3
  <2> QED BY <2>2, <2>3
<1>4. /\ Recorded(js, r, "error") \in Seq(Job) /\ Len(Recorded(js, r, "error")) = Len(js)
      /\ DOMAIN Recorded(js, r, "error") = DOMAIN js
      /\ \A i \in DOMAIN js :
           /\ Recorded(js, r, "error")[i].run = js[i].run
           /\ Recorded(js, r, "error")[i].status = IF js[i].run = r THEN "failed" ELSE js[i].status
  BY RecordedJobs DEF JobStatus
<1>5. CASE /\ registry[id] # None
           /\ state' = [state EXCEPT ![r] = "rejected"]
           /\ jobs' = Recorded(js, r, "error")
           /\ UNCHANGED <<registry, channel, result>>
  <2>1. TypeOK'
    BY <1>1, <1>2, <1>4, <1>5 DEF IInv, TypeOK
  <2>2. Stages'
    <3> SUFFICES ASSUME NEW q \in Runs
                 PROVE  /\ state'[q] # "new" => key'[q] \in Ids
                        /\ state'[q] = "running" => channel'[q] \in {"asked", "open"}
                        /\ state'[q] # "settled" => ~stopped'[q]
                        /\ \A i \in DOMAIN jobs' : jobs'[i].run = q => state'[q] # "new"
      BY DEF Stages
    <3>1. CASE q = r
      BY <1>1, <1>2, <1>5, <3>1
    <3>2. CASE q # r
      <4>1. state'[q] = state[q] /\ key'[q] = key[q] /\ channel'[q] = channel[q] /\ stopped' = stopped
        BY <1>1, <1>2, <1>5, <3>2 DEF IInv, TypeOK
      <4>2. ASSUME NEW i \in DOMAIN jobs', jobs'[i].run = q PROVE state[q] # "new"
        BY <1>3, <1>4, <1>5, <3>2, <4>2
      <4> QED BY <4>1, <4>2 DEF IInv, Stages
    <3> QED BY <3>1, <3>2
  <2>3. RegistryHoldsRunning'
    BY <1>1, <1>2, <1>5 DEF IInv, RegistryHoldsRunning, Stages
  <2>4. InterruptedOnce'
    BY <1>1, <1>5 DEF IInv, InterruptedOnce
  <2>5. JobsFollowRuns'
    BY <1>1, <1>2, <1>3, <1>4, <1>5 DEF JobsFollowRuns
  <2>6. StoppedIsNoSuccess'
    <3> SUFFICES ASSUME NEW q \in Runs, stopped'[q]
                 PROVE  /\ result'[q] \notin {"exit", "signal"}
                        /\ \A i \in DOMAIN jobs' : jobs'[i].run = q => jobs'[i].status # "completed"
      BY DEF StoppedIsNoSuccess
    <3>1. q # r /\ stopped[q] /\ result'[q] = result[q]
      BY <1>1, <1>5 DEF IInv, TypeOK
    <3>2. ASSUME NEW i \in DOMAIN jobs', jobs'[i].run = q PROVE jobs'[i].status # "completed"
      BY <1>3, <1>4, <1>5, <3>1, <3>2
    <3> QED BY <3>1, <3>2 DEF IInv, StoppedIsNoSuccess
  <2> QED BY <2>1, <2>2, <2>3, <2>4, <2>5, <2>6 DEF IInv
<1>6. CASE /\ registry[id] = None
           /\ state' = [state EXCEPT ![r] = "running"]
           /\ channel' = [channel EXCEPT ![r] = IF ssh THEN "asked" ELSE "open"]
           /\ registry' = [registry EXCEPT ![id] = r]
           /\ jobs' = js
           /\ UNCHANGED result
  <2>1. TypeOK'
    BY <1>1, <1>2, <1>6 DEF IInv, TypeOK
  <2>2. Stages'
    BY <1>1, <1>2, <1>3, <1>6 DEF IInv, Stages, TypeOK
  <2>3. RegistryHoldsRunning'
    <3>1. ASSUME NEW i \in Ids, registry'[i] # None
          PROVE  state'[registry'[i]] = "running" /\ key'[registry'[i]] = i
      <4>1. CASE i = id
        BY <1>2, <1>6, <4>1
      <4>2. CASE i # id
        <5>1. registry'[i] = registry[i] /\ registry[i] \in Runs /\ registry[i] # r
          BY <1>2, <1>6, <3>1, <4>2
        <5>2. state[registry[i]] = "running" /\ key[registry[i]] = i
          BY <3>1, <5>1 DEF IInv, RegistryHoldsRunning
        <5> QED BY <1>2, <1>6, <5>1, <5>2
      <4> QED BY <4>1, <4>2
    <3>2. ASSUME NEW q \in Runs, state'[q] = "running" PROVE registry'[key'[q]] = q
      <4>1. CASE q = r
        BY <1>2, <1>6, <4>1
      <4>2. CASE q # r
        <5>1. state[q] = "running" /\ key'[q] = key[q]
          BY <1>2, <1>6, <3>2, <4>2
        <5>2. registry[key[q]] = q /\ key[q] \in Ids
          BY <5>1 DEF IInv, RegistryHoldsRunning, Stages
        <5> QED BY <1>2, <1>6, <5>1, <5>2
      <4> QED BY <4>1, <4>2
    <3> QED BY <3>1, <3>2 DEF RegistryHoldsRunning
  <2>4. InterruptedOnce'
    BY <1>1, <1>6 DEF IInv, InterruptedOnce, TypeOK
  <2>5. JobsFollowRuns'
    BY <1>1, <1>2, <1>3, <1>6 DEF JobsFollowRuns
  <2>6. StoppedIsNoSuccess'
    BY <1>1, <1>2, <1>3, <1>6 DEF IInv, StoppedIsNoSuccess
  <2> QED BY <2>1, <2>2, <2>3, <2>4, <2>5, <2>6 DEF IInv
<1>7. CASE /\ registry[id] = None
           /\ state' = [state EXCEPT ![r] = "settled"]
           /\ result' = [result EXCEPT ![r] = "error"]
           /\ channel' = [channel EXCEPT ![r] = "refused"]
           /\ jobs' = Recorded(js, r, "error")
           /\ UNCHANGED registry
  <2>1. TypeOK'
    BY <1>1, <1>2, <1>4, <1>7 DEF IInv, TypeOK
  <2>2. Stages'
    <3> SUFFICES ASSUME NEW q \in Runs
                 PROVE  /\ state'[q] # "new" => key'[q] \in Ids
                        /\ state'[q] = "running" => channel'[q] \in {"asked", "open"}
                        /\ state'[q] # "settled" => ~stopped'[q]
                        /\ \A i \in DOMAIN jobs' : jobs'[i].run = q => state'[q] # "new"
      BY DEF Stages
    <3>1. CASE q = r
      BY <1>1, <1>2, <1>7, <3>1
    <3>2. CASE q # r
      <4>1. state'[q] = state[q] /\ key'[q] = key[q] /\ channel'[q] = channel[q] /\ stopped' = stopped
        BY <1>1, <1>2, <1>7, <3>2 DEF IInv, TypeOK
      <4>2. ASSUME NEW i \in DOMAIN jobs', jobs'[i].run = q PROVE state[q] # "new"
        BY <1>3, <1>4, <1>7, <3>2, <4>2
      <4> QED BY <4>1, <4>2 DEF IInv, Stages
    <3> QED BY <3>1, <3>2
  <2>3. RegistryHoldsRunning'
    BY <1>1, <1>2, <1>7 DEF IInv, RegistryHoldsRunning, Stages
  <2>4. InterruptedOnce'
    BY <1>1, <1>7 DEF IInv, InterruptedOnce, TypeOK
  <2>5. JobsFollowRuns'
    <3> SUFFICES ASSUME NEW i \in DOMAIN jobs'
                 PROVE  (jobs'[i].status = "running") <=> (state'[jobs'[i].run] = "running")
      BY DEF JobsFollowRuns
    <3>1. i \in DOMAIN js /\ jobs'[i].run = js[i].run /\ jobs'[i].status = IF js[i].run = r THEN "failed" ELSE js[i].status
      BY <1>4, <1>7
    <3>2. state'[js[i].run] = IF js[i].run = r THEN "settled" ELSE state[js[i].run]
      BY <1>2, <1>3, <3>1, <1>7
    <3> QED BY <1>3, <3>1, <3>2
  <2>6. StoppedIsNoSuccess'
    <3> SUFFICES ASSUME NEW q \in Runs, stopped'[q]
                 PROVE  /\ result'[q] \notin {"exit", "signal"}
                        /\ \A i \in DOMAIN jobs' : jobs'[i].run = q => jobs'[i].status # "completed"
      BY DEF StoppedIsNoSuccess
    <3>1. q # r /\ stopped[q] /\ result'[q] = result[q]
      BY <1>1, <1>7 DEF IInv, TypeOK
    <3>2. ASSUME NEW i \in DOMAIN jobs', jobs'[i].run = q PROVE jobs'[i].status # "completed"
      BY <1>3, <1>4, <1>7, <3>1, <3>2
    <3> QED BY <3>1, <3>2 DEF IInv, StoppedIsNoSuccess
  <2> QED BY <2>1, <2>2, <2>3, <2>4, <2>5, <2>6 DEF IInv
<1> QED BY <1>5, <1>6, <1>7 DEF Execute

-----------------------------------------------------------------------------
(* stop() settles a running command before its channel can report a code,  *)
(* and asks the channel to end if it is there.                             *)
LEMMA StopKeeps ==
  ASSUME IInv, NEW r \in Runs, NEW res \in {"cancelled", "timeout"}, Stop(r, res)
  PROVE  IInv'
<1>1. /\ state[r] = "running" /\ ~stopped[r] /\ interrupts[r] = 0 /\ channel[r] \in {"asked", "open"}
      /\ stopped' = [stopped EXCEPT ![r] = TRUE] /\ stopped \in [Runs -> BOOLEAN]
      /\ interrupts' = [interrupts EXCEPT ![r] = IF channel[r] = "open" THEN @ + 1 ELSE @]
      /\ interrupts \in [Runs -> Nat]
      /\ UNCHANGED <<channel, ssh, key>>
  BY DEF Stop, Interrupt, IInv, Stages, InterruptedOnce, TypeOK
<1>2. res \in Results /\ Finish(r, res)
  BY DEF Stop, Results
<1>3. /\ state' \in [Runs -> {"new", "rejected", "running", "settled"}]
      /\ result' \in [Runs -> {None, "exit", "signal", "error", "cancelled", "timeout"}]
      /\ registry' \in [Ids -> Runs \cup {None}]
      /\ jobs' \in Seq(Job) /\ Len(jobs') = Len(jobs)
      /\ \A q \in Runs :
           /\ state'[q] = IF q = r THEN "settled" ELSE state[q]
           /\ result'[q] = IF q = r THEN res ELSE result[q]
      /\ DOMAIN jobs' = DOMAIN jobs
      /\ \A i \in DOMAIN jobs :
           /\ jobs'[i].run = jobs[i].run
           /\ jobs'[i].status = IF jobs[i].run = r THEN JobStatus(res) ELSE jobs[i].status
      /\ RegistryHoldsRunning'
      /\ JobsFollowRuns'
  BY <1>1, <1>2, FinishKeeps
<1>4. TypeOK'
  <2>1. stopped' \in [Runs -> BOOLEAN] /\ interrupts' \in [Runs -> Nat]
    BY <1>1
  <2> QED BY <1>1, <1>3, <2>1 DEF IInv, TypeOK
<1>5. Stages'
  BY <1>1, <1>3 DEF IInv, Stages
<1>6. InterruptedOnce'
  BY <1>1 DEF IInv, InterruptedOnce
<1>7. StoppedIsNoSuccess'
  <2> SUFFICES ASSUME NEW q \in Runs, stopped'[q]
               PROVE  /\ result'[q] \notin {"exit", "signal"}
                      /\ \A i \in DOMAIN jobs' : jobs'[i].run = q => jobs'[i].status # "completed"
    BY DEF StoppedIsNoSuccess
  <2>1. CASE q = r
    BY <1>3, <2>1 DEF JobStatus
  <2>2. CASE q # r
    <3>1. stopped[q] /\ result'[q] = result[q]
      BY <1>1, <1>3, <2>2
    <3>2. ASSUME NEW i \in DOMAIN jobs', jobs'[i].run = q PROVE jobs'[i].status = jobs[i].status /\ jobs[i].run = q
      BY <1>3, <2>2, <3>2
    <3> QED BY <1>3, <3>1, <3>2 DEF IInv, StoppedIsNoSuccess
  <2> QED BY <2>1, <2>2
<1> QED BY <1>3, <1>4, <1>5, <1>6, <1>7 DEF IInv

(* The events of a channel: what a stopped command reports is not heard.   *)
LEMMA EventKeeps ==
  ASSUME IInv, NEW r \in Runs, NEW res \in {"exit", "signal", "error"}, Finish(r, res),
         UNCHANGED <<ssh, key, stopped, interrupts>>,
         channel' \in [Runs -> {"none", "asked", "refused", "open", "closed"}],
         \A q \in Runs : q # r => channel'[q] = channel[q],
         channel'[r] \in {"open", "closed"} <=> channel[r] \in {"open", "closed"}
  PROVE  IInv'
<1>1. res \in Results
  BY DEF Results
<1>2. /\ state' \in [Runs -> {"new", "rejected", "running", "settled"}]
      /\ result' \in [Runs -> {None, "exit", "signal", "error", "cancelled", "timeout"}]
      /\ registry' \in [Ids -> Runs \cup {None}]
      /\ jobs' \in Seq(Job) /\ Len(jobs') = Len(jobs)
      /\ \A q \in Runs :
           /\ state'[q] = IF q = r /\ state[r] = "running" THEN "settled" ELSE state[q]
           /\ result'[q] = IF q = r /\ state[r] = "running" THEN res ELSE result[q]
      /\ DOMAIN jobs' = DOMAIN jobs
      /\ \A i \in DOMAIN jobs :
           /\ jobs'[i].run = jobs[i].run
           /\ jobs'[i].status =
                IF jobs[i].run = r /\ state[r] = "running" THEN JobStatus(res) ELSE jobs[i].status
      /\ RegistryHoldsRunning'
      /\ JobsFollowRuns'
  BY <1>1, FinishKeeps
<1>3. TypeOK'
  BY <1>2 DEF IInv, TypeOK
<1>4. Stages'
  BY <1>2 DEF IInv, Stages
<1>5. InterruptedOnce'
  <2> SUFFICES ASSUME NEW q \in Runs
               PROVE  interrupts'[q] = IF stopped'[q] /\ channel'[q] \in {"open", "closed"} THEN 1 ELSE 0
    BY DEF InterruptedOnce
  <2> QED BY DEF IInv, InterruptedOnce
<1>6. StoppedIsNoSuccess'
  <2> SUFFICES ASSUME NEW q \in Runs, stopped[q]
               PROVE  /\ result'[q] \notin {"exit", "signal"}
                      /\ \A i \in DOMAIN jobs' : jobs'[i].run = q => jobs'[i].status # "completed"
    BY DEF StoppedIsNoSuccess
  <2>1. q # r \/ state[r] # "running"
    BY DEF IInv, Stages
  <2> QED BY <1>2, <2>1 DEF IInv, StoppedIsNoSuccess
<1> QED BY <1>2, <1>3, <1>4, <1>5, <1>6 DEF IInv

LEMMA InitIInv == Init => IInv
<1> SUFFICES ASSUME Init PROVE IInv
  OBVIOUS
<1>1. jobs = << >> /\ jobs \in Seq(Job) /\ Len(jobs) <= MaxJobs /\ DOMAIN jobs = {}
  BY EmptySeq, JobsAssumption DEF Init
<1>2. TypeOK
  BY <1>1 DEF Init, TypeOK
<1>3. Stages
  BY <1>1 DEF Init, Stages
<1> QED
  BY <1>1, <1>2, <1>3
  DEF IInv, Init, RegistryHoldsRunning, InterruptedOnce, JobsFollowRuns, StoppedIsNoSuccess

LEMMA StepIInv == IInv /\ [Next]_vars => IInv'
<1> SUFFICES ASSUME IInv, [Next]_vars PROVE IInv'
  OBVIOUS
<1>1. ASSUME NEW r \in Runs, NEW id \in Ids, RunForeground(r, id) PROVE IInv'
  <2>1. jobs \in Seq(Job) /\ Len(jobs) <= MaxJobs
    BY DEF IInv, TypeOK
  <2> QED BY <1>1, <2>1, ExecuteKeeps DEF RunForeground
<1>2. ASSUME NEW r \in Runs, NEW id \in Ids, StartBackground(r, id) PROVE IInv'
  <2> DEFINE job == [id |-> id, run |-> r, status |-> "running"]
             kept == Evict(jobs)
             js == Append(kept, job)
  <2>1. /\ kept \in Seq(Job) /\ Len(kept) < MaxJobs /\ job \in Job /\ Execute(r, id, js)
        /\ \A i \in DOMAIN kept : \E k \in DOMAIN jobs : kept[i] = jobs[k]
    BY <1>2, EvictForgets DEF StartBackground, HasRoom, Job, IInv, TypeOK
  <2>2. job.run = r /\ job.status = "running"
    OBVIOUS
  <2> HIDE DEF job, kept
  <2>3. /\ js \in Seq(Job) /\ Len(js) = Len(kept) + 1 /\ Len(kept) \in Nat
        /\ \A i \in 1 .. Len(kept) : js[i] = kept[i]
        /\ js[Len(kept) + 1] = job
    BY <2>1, AppendProperties, LenProperties
  <2> HIDE DEF js
  <2>4. DOMAIN js = 1 .. Len(kept) + 1 /\ DOMAIN kept = 1 .. Len(kept)
    BY <2>1, <2>3, LenProperties
  <2>5. Len(js) <= MaxJobs
    BY <2>1, <2>3, JobsAssumption
  <2>6. ASSUME NEW i \in DOMAIN js
        PROVE  (\E k \in DOMAIN jobs : js[i] = jobs[k]) \/ (js[i].run = r /\ js[i].status = "running")
    <3>1. CASE i \in 1 .. Len(kept)
      BY <2>1, <2>3, <2>4, <3>1
    <3>2. CASE i = Len(kept) + 1
      BY <2>2, <2>3, <3>2
    <3> QED BY <2>3, <2>4, <3>1, <3>2
  <2> QED BY <2>1, <2>3, <2>5, <2>6, ExecuteKeeps
<1>3. ASSUME NEW r \in Runs, ChannelComes(r) PROVE IInv'
  <2>1. CASE Finish(r, "error") /\ channel' = [channel EXCEPT ![r] = "refused"] /\ UNCHANGED interrupts
    BY <1>3, <2>1, EventKeeps DEF ChannelComes, IInv, TypeOK
  <2>2. CASE /\ channel' = [channel EXCEPT ![r] = "open"]
             /\ IF stopped[r] THEN Interrupt(r) ELSE UNCHANGED interrupts
             /\ UNCHANGED <<state, result, registry, jobs>>
    <3>1. /\ channel[r] = "asked" /\ UNCHANGED <<ssh, key, stopped, state, result, registry, jobs>>
          /\ channel \in [Runs -> {"none", "asked", "refused", "open", "closed"}]
          /\ channel' = [channel EXCEPT ![r] = "open"] /\ channel'[r] = "open"
          /\ interrupts \in [Runs -> Nat] /\ interrupts[r] = 0
          /\ interrupts' = IF stopped[r] THEN [interrupts EXCEPT ![r] = @ + 1] ELSE interrupts
      BY <1>3, <2>2 DEF ChannelComes, Interrupt, IInv, TypeOK, InterruptedOnce
    <3>2. TypeOK'
      BY <3>1 DEF IInv, TypeOK
    <3>3. Stages' /\ RegistryHoldsRunning' /\ JobsFollowRuns' /\ StoppedIsNoSuccess'
      BY <3>1 DEF IInv, Stages, RegistryHoldsRunning, JobsFollowRuns, StoppedIsNoSuccess
    <3>4. InterruptedOnce'
      BY <3>1 DEF IInv, InterruptedOnce
    <3> QED BY <3>2, <3>3, <3>4 DEF IInv
  <2> QED BY <1>3, <2>1, <2>2 DEF ChannelComes
<1>4. ASSUME NEW r \in Runs, ChannelCloses(r) PROVE IInv'
  <2>1. PICK res \in {"exit", "signal"} : Finish(r, res)
    BY <1>4 DEF ChannelCloses
  <2> QED BY <1>4, <2>1, EventKeeps DEF ChannelCloses, IInv, TypeOK
<1>5. ASSUME NEW r \in Runs, ChannelErrs(r) PROVE IInv'
  BY <1>5, EventKeeps DEF ChannelErrs, IInv, TypeOK
<1>6. ASSUME NEW r \in Runs, Timeout(r) PROVE IInv'
  BY <1>6, StopKeeps DEF Timeout
<1>7. ASSUME NEW id \in Ids, Cancel(id) PROVE IInv'
  <2>1. registry[id] \in Runs
    BY <1>7 DEF Cancel, IInv, TypeOK
  <2> QED BY <1>7, <2>1, StopKeeps DEF Cancel
<1>8. CASE UNCHANGED vars
  BY <1>8
  DEF vars, IInv, TypeOK, Stages, RegistryHoldsRunning, InterruptedOnce, JobsFollowRuns, StoppedIsNoSuccess
<1> QED BY <1>1, <1>2, <1>3, <1>4, <1>5, <1>6, <1>7, <1>8 DEF Next

-----------------------------------------------------------------------------
LEMMA AlwaysIInv == Spec => []IInv
  BY InitIInv, StepIInv, PTL DEF Spec

(* Among other things the list of jobs never grows beyond its limit.       *)
THEOREM TypeCorrect == Spec => []TypeOK
<1>1. IInv => TypeOK
  BY DEF IInv
<1> QED BY <1>1, AlwaysIInv, PTL

(* A late event of a command never frees the id of another, and whoever    *)
(* cancels an id reaches the command that runs under it.                   *)
THEOREM CancelReachesWhatRuns == Spec => []RegistryHoldsRunning
<1>1. IInv => RegistryHoldsRunning
  BY DEF IInv
<1> QED BY <1>1, AlwaysIInv, PTL

(* The channel of a stopped command is asked to end once, though it came   *)
(* after the stop; no other channel is.                                    *)
THEOREM ChannelsAreInterruptedOnce == Spec => []InterruptedOnce
<1>1. IInv => InterruptedOnce
  BY DEF IInv
<1> QED BY <1>1, AlwaysIInv, PTL

(* The status of a background job is that of its command, however the      *)
(* command came to its end.                                                *)
THEOREM JobStatusIsTrue == Spec => []JobsFollowRuns
<1>1. IInv => JobsFollowRuns
  BY DEF IInv
<1> QED BY <1>1, AlwaysIInv, PTL

(* No cancelled or timed-out command, and no job of one, is reported as    *)
(* completed, whatever its channel reports afterwards.                     *)
THEOREM StoppedNeverSucceeds == Spec => []StoppedIsNoSuccess
<1>1. IInv => StoppedIsNoSuccess
  BY DEF IInv
<1> QED BY <1>1, AlwaysIInv, PTL
=============================================================================
