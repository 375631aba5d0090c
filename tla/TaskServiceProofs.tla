-------------------------- MODULE TaskServiceProofs --------------------------
(***************************************************************************)
(* Proofs about src/core for any number of workers, runs, status queries   *)
(* and VM addresses.  TaskService.tla states the properties; this module   *)
(* adds the strengthenings that make them inductive.                       *)
(***************************************************************************)
EXTENDS TaskService, SequenceTheorems, TLAPS

-----------------------------------------------------------------------------
(* The deque of the pool, as the jobs of this component use it.            *)

(* The jobs of runs and queries are jobs, and differ from no job. *)
LEMMA JobFacts ==
  /\ \A r \in Runs : <<"handler", r>> \in Jobs /\ <<"runner", r>> \in Jobs
  /\ \A q \in Queries : <<"query", q>> \in Jobs
  /\ \A r \in Runs, s \in Runs : <<"handler", r>> # <<"runner", s>>
  /\ \A q \in Queries, r \in Runs : <<"query", q>> # <<"runner", r>>
  /\ \A r \in Runs, s \in Runs : <<"runner", r>> = <<"runner", s>> => r = s
  BY DEF Jobs

(* Handing a job over keeps the queue and the hands in type. *)
LEMMA SubmitType ==
  ASSUME TypeOK, NEW j \in Jobs, Pool!Submit(j)
  PROVE  queue' \in Seq(Jobs) /\ running' = running
  BY AppendProperties DEF TypeOK, Pool!Submit

LEMMA StartType ==
  ASSUME TypeOK, NEW w \in Workers, Pool!Start(w)
  PROVE  queue' \in Seq(Jobs) /\ running' \in [Workers -> Jobs \cup {NoTask}]
  BY HeadTailProperties DEF TypeOK, Pool!Start

LEMMA FinishType ==
  ASSUME TypeOK, NEW w \in Workers, Pool!Finish(w)
  PROVE  queue' = queue /\ running' \in [Workers -> Jobs \cup {NoTask}]
  BY DEF TypeOK, Pool!Finish

-----------------------------------------------------------------------------
(* The type invariant is inductive as it stands. *)
LEMMA TypeInit == Init => TypeOK
<1> SUFFICES ASSUME Init PROVE TypeOK
  OBVIOUS
<1>1. queue \in Seq(Jobs) /\ running \in [Workers -> Jobs \cup {NoTask}]
  BY EmptySeq DEF Init
<1>2. /\ handler \in [Runs -> {"idle", "queued", "submit", "wait", "reply", "done"}]
      /\ runner \in [Runs -> RunnerSteps]
      /\ status \in [Runs -> Statuses]
      /\ query \in [Queries -> {"idle", "queued", "contains", "index", "read", "reply", "done"}]
      /\ \A r \in Runs : runner[r] \notin VmOpen \cup {"erase"}
      /\ \A q \in Queries : query[q] = "idle"
  BY DEF Init, RunnerSteps, Framed, VmOpen, Statuses
<1>3. /\ lang \in [Runs -> Known \cup {"unknown"}]
      /\ promise \in [Runs -> Ids \cup {NoId, Unset}]
      /\ rid \in [Runs -> Ids \cup {NoId}]
      /\ interp \in {"closed", "open", "bound"}
      /\ taskRunInfo \in [Ids -> Runs \cup {Absent, Null}]
      /\ qid \in [Queries -> Ids \cup {NoId}]
      /\ entry \in [Queries -> Runs \cup {Absent}]
      /\ answer \in [Queries -> Statuses \cup {Unset}]
      /\ crashed \in {"none", "query", "python", "script"}
  BY DEF Init
<1> QED  BY <1>1, <1>2, <1>3 DEF TypeOK

LEMMA TypeStep == TypeOK /\ [Next]_vars => TypeOK'
<1> SUFFICES ASSUME TypeOK, [Next]_vars PROVE TypeOK'
  OBVIOUS
<1> USE DEF TypeOK, poolVars, runVars, runnerVars, queryVars, RunnerSteps, Framed,
            VmOpen, Known, Statuses
<1>0. crashed' \in {"none", "query", "python", "script"}
  BY DEF Next, Alive, Dies, vars
<1>1. ASSUME NEW r \in Runs, ReceiveRun(r) PROVE TypeOK'
  <2>1. queue' \in Seq(Jobs) /\ running' = running
    BY <1>1, JobFacts, SubmitType DEF ReceiveRun
  <2>2. lang' \in [Runs -> Known \cup {"unknown"}]
    BY <1>1, LanguagesAssumption DEF ReceiveRun
  <2> QED  BY <1>0, <1>1, <2>1, <2>2 DEF ReceiveRun
<1>2. ASSUME NEW r \in Runs, SubmitRunner(r) PROVE TypeOK'
  <2>1. queue' \in Seq(Jobs) /\ running' = running
    BY <1>2, JobFacts, SubmitType DEF SubmitRunner
  <2> QED  BY <1>0, <1>2, <2>1 DEF SubmitRunner
<1>3. ASSUME NEW r \in Runs, SkipRunner(r) PROVE TypeOK'
  BY <1>0, <1>3 DEF SkipRunner
<1>4. ASSUME NEW r \in Runs, GetRunnerId(r) PROVE TypeOK'
  BY <1>0, <1>4 DEF GetRunnerId
<1>5. ASSUME NEW w \in Workers, NEW r \in Runs, StartHandler(w, r) PROVE TypeOK'
  BY <1>0, <1>5, StartType DEF StartHandler
<1>6. ASSUME NEW w \in Workers, NEW r \in Runs, ReplyRun(w, r) PROVE TypeOK'
  BY <1>0, <1>6, FinishType DEF ReplyRun
<1>7. ASSUME NEW w \in Workers, NEW r \in Runs, StartRunner(w, r) PROVE TypeOK'
  BY <1>0, <1>7, StartType DEF StartRunner
<1>8. ASSUME NEW r \in Runs, CreateVm(r) PROVE TypeOK'
  BY <1>0, <1>8 DEF CreateVm, Py_Initialize, Ids
<1>9. ASSUME NEW r \in Runs, FailVm(r) PROVE TypeOK'
  BY <1>0, <1>9 DEF FailVm, Py_Initialize
<1>10. ASSUME NEW w \in Workers, NEW r \in Runs, Refuse(w, r) PROVE TypeOK'
  BY <1>0, <1>10, FinishType DEF Refuse
<1>11. ASSUME NEW r \in Runs, Emplace(r) PROVE TypeOK'
  BY <1>0, <1>11 DEF Emplace
<1>12. ASSUME NEW r \in Runs, NotifyRunnerId(r) PROVE TypeOK'
  BY <1>0, <1>12 DEF NotifyRunnerId
<1>13. ASSUME NEW r \in Runs, Load(r) PROVE TypeOK'
  BY <1>0, <1>13 DEF Load
<1>14. ASSUME NEW r \in Runs, BindFails(r) \/ LoadFails(r) \/ ScriptEnds(r) \/ Report(r)
       PROVE  TypeOK'
  <2>1. CASE BindFails(r)
    BY <1>0, <2>1 DEF BindFails
  <2>2. CASE LoadFails(r)
    BY <1>0, <2>2 DEF LoadFails
  <2>3. CASE ScriptEnds(r)
    BY <1>0, <2>3 DEF ScriptEnds
  <2>4. CASE Report(r)
    BY <1>0, <2>4 DEF Report
  <2> QED  BY <1>14, <2>1, <2>2, <2>3, <2>4
<1>15. ASSUME NEW r \in Runs, FinishStatus(r) PROVE TypeOK'
  BY <1>0, <1>15 DEF FinishStatus
<1>16. ASSUME NEW r \in Runs, CloseVm(r) PROVE TypeOK'
  BY <1>0, <1>16 DEF CloseVm
<1>17. ASSUME NEW w \in Workers, NEW r \in Runs, Erase(w, r) PROVE TypeOK'
  BY <1>0, <1>17, FinishType DEF Erase
<1>18. ASSUME NEW q \in Queries, ReceiveStatus(q) PROVE TypeOK'
  <2>1. queue' \in Seq(Jobs) /\ running' = running
    BY <1>18, JobFacts, SubmitType DEF ReceiveStatus
  <2> QED  BY <1>0, <1>18, <2>1 DEF ReceiveStatus
<1>19. ASSUME NEW w \in Workers, NEW q \in Queries, StartQuery(w, q) PROVE TypeOK'
  BY <1>0, <1>19, StartType DEF StartQuery
<1>20. ASSUME NEW q \in Queries, FindNone(q) PROVE TypeOK'
  BY <1>0, <1>20 DEF FindNone
<1>21. ASSUME NEW q \in Queries, FindEntry(q) PROVE TypeOK'
  BY <1>0, <1>21 DEF FindEntry
<1>22. ASSUME NEW q \in Queries, IndexEntry(q) PROVE TypeOK'
  BY <1>0, <1>22 DEF IndexEntry
<1>23. ASSUME NEW q \in Queries, ReadStatus(q) PROVE TypeOK'
  BY <1>0, <1>23 DEF ReadStatus
<1>24. ASSUME NEW w \in Workers, NEW q \in Queries, ReplyStatus(w, q) PROVE TypeOK'
  BY <1>0, <1>24, FinishType DEF ReplyStatus
<1>25. ASSUME NEW q \in Queries, IndexNull(q) PROVE TypeOK'
  BY <1>0, <1>25 DEF IndexNull
<1>26. ASSUME NEW r \in Runs, PythonCrash(r) \/ ScriptCrash(r) PROVE TypeOK'
  BY <1>0, <1>26 DEF PythonCrash, ScriptCrash
<1>27. CASE UNCHANGED vars  BY <1>27 DEF vars
<1> HIDE DEF TypeOK, poolVars, runVars, runnerVars, queryVars, RunnerSteps, Framed,
             VmOpen, Known, Statuses
<1> QED
  BY <1>1, <1>2, <1>3, <1>4, <1>5, <1>6, <1>7, <1>8, <1>9, <1>10, <1>11, <1>12, <1>13,
     <1>14, <1>15, <1>16, <1>17, <1>18, <1>19, <1>20, <1>22, <1>23, <1>24, <1>25, <1>26,
     <1>27, <1>21 DEF Next, Alive, Dies, Step, Handling, Launching, Scripting, Finishing, Answering

(* The variables of the service keep their types. *)
THEOREM TypeCorrect == Spec => []TypeOK
  BY TypeInit, TypeStep, PTL DEF Spec

-----------------------------------------------------------------------------
(* The promise.  Before Service::run has queued the runner there is none,  *)
(* and only the runner sets the promise.                                   *)
NotSubmitted ==
  \A r \in Runs :
    handler[r] \in {"idle", "queued", "submit"} =>
      runner[r] = "none" /\ promise[r] = Unset

PromiseInv == NotSubmitted /\ PromiseAlive

LEMMA PromiseInit == Init => PromiseInv
  BY DEF Init, PromiseInv, NotSubmitted, PromiseAlive

LEMMA PromiseStep == TypeOK /\ PromiseInv /\ [Next]_vars => PromiseInv'
<1> SUFFICES ASSUME TypeOK, PromiseInv, [Next]_vars PROVE PromiseInv'
  OBVIOUS
<1> USE DEF TypeOK, PromiseInv, NotSubmitted, PromiseAlive
<1>1. ASSUME NEW r \in Runs, ReceiveRun(r) \/ SubmitRunner(r) \/ SkipRunner(r) \/ GetRunnerId(r)
      PROVE  PromiseInv'
  BY <1>1 DEF ReceiveRun, SubmitRunner, SkipRunner, GetRunnerId, runnerVars
<1>2. ASSUME NEW w \in Workers, NEW r \in Runs, StartHandler(w, r) \/ ReplyRun(w, r)
      PROVE  PromiseInv'
  BY <1>2 DEF StartHandler, ReplyRun, runnerVars
<1>3. ASSUME NEW w \in Workers, NEW r \in Runs, StartRunner(w, r) \/ Refuse(w, r) \/ Erase(w, r)
      PROVE  PromiseInv'
  BY <1>3 DEF StartRunner, Refuse, Erase, runVars
<1>4. ASSUME NEW r \in Runs,
             CreateVm(r) \/ FailVm(r) \/ Emplace(r) \/ NotifyRunnerId(r)
      PROVE  PromiseInv'
  BY <1>4 DEF CreateVm, FailVm, Emplace, NotifyRunnerId, runVars
<1>5. ASSUME NEW r \in Runs,
             \/ BindFails(r) \/ Load(r) \/ LoadFails(r) \/ ScriptEnds(r) \/ FinishStatus(r)
             \/ Report(r) \/ CloseVm(r)
      PROVE  PromiseInv'
  BY <1>5 DEF BindFails, Load, LoadFails, ScriptEnds, FinishStatus, Report, CloseVm, runVars
<1>6. CASE UNCHANGED <<runVars, runnerVars>>
  BY <1>6 DEF runVars, runnerVars
<1>7. ASSUME NEW q \in Queries,
             \/ ReceiveStatus(q) \/ Answering(q) \/ IndexNull(q)
      PROVE  UNCHANGED <<runVars, runnerVars>>
  BY <1>7 DEF ReceiveStatus, Answering, FindNone, FindEntry, IndexEntry, ReadStatus,
              StartQuery, ReplyStatus, IndexNull
<1>8. ASSUME NEW r \in Runs, PythonCrash(r) \/ ScriptCrash(r) PROVE UNCHANGED <<runVars, runnerVars>>
  BY <1>8 DEF PythonCrash, ScriptCrash
<1>9. ASSUME UNCHANGED vars PROVE UNCHANGED <<runVars, runnerVars>>
  BY <1>9 DEF vars
<1> HIDE DEF TypeOK, PromiseInv, NotSubmitted, PromiseAlive
<1> QED
  BY <1>1, <1>2, <1>3, <1>4, <1>5, <1>6, <1>7, <1>8, <1>9
  DEF Next, Alive, Dies, Step, Handling, Launching, Scripting, Finishing

(* The runner never sets a promise whose frame is gone: the handler cannot *)
(* return before the promise is set.                                       *)
THEOREM PromiseOutlives == Spec => []PromiseAlive
<1>1. PromiseInv => PromiseAlive
  BY DEF PromiseInv
<1> QED  BY <1>1, TypeInit, TypeStep, PromiseInit, PromiseStep, PTL DEF Spec

-----------------------------------------------------------------------------
(* The registry.  A null entry is the last thing the process does; an id   *)
(* belongs to a runner from the creation of its VM on.                     *)
NoNullEntry == crashed = "none" => \A i \in Ids : taskRunInfo[i] # Null

IdOwned ==
  \A r \in Runs :
    rid[r] \in Ids <=> runner[r] \in VmOpen \cup {"erase", "done"}

RegistryInv == NoNullEntry /\ IdOwned /\ RegistryPointsToLive /\ RegisteredUnlessReused

LEMMA RegistryInit == Init => RegistryInv
  BY IdsAssumption, EntriesAssumption
  DEF Init, RegistryInv, NoNullEntry, IdOwned, RegistryPointsToLive,
      RegisteredUnlessReused, VmOpen

(* Steps that leave registry and ids alone and move a runner only within   *)
(* the steps in which it is registered, or within those in which it has no *)
(* id.                                                                     *)
LEMMA RegistryFrame ==
  ASSUME TypeOK, RegistryInv, crashed = "none", UNCHANGED <<taskRunInfo, rid>>,
         \A r \in Runs :
           \/ runner'[r] = runner[r]
           \/ /\ runner[r] \notin VmOpen \cup {"erase", "done"}
              /\ runner'[r] \notin VmOpen \cup {"erase", "done"}
           \/ /\ runner[r] \in VmOpen \ {"emplace"}
              /\ runner'[r] \in (VmOpen \cup {"erase"}) \ {"emplace"}
              /\ runner[r] = "close" <=> runner'[r] = "erase"
  PROVE  RegistryInv'
<1> USE DEF TypeOK, RegistryInv
<1>1. NoNullEntry'
  BY DEF NoNullEntry
<1>2. IdOwned'
  BY DEF IdOwned, VmOpen
<1>3. RegistryPointsToLive'
  BY DEF RegistryPointsToLive, VmOpen
<1>4. RegisteredUnlessReused'
  BY DEF RegisteredUnlessReused, IdOwned, VmOpen
<1> QED  BY <1>1, <1>2, <1>3, <1>4

LEMMA RegistryStep == TypeOK /\ PromiseInv /\ RegistryInv /\ [Next]_vars => RegistryInv'
<1> SUFFICES ASSUME TypeOK, PromiseInv, RegistryInv, Next PROVE RegistryInv'
  <2>1. CASE UNCHANGED vars
    BY <2>1 DEF vars, poolVars, runVars, runnerVars, queryVars, RegistryInv, NoNullEntry,
                IdOwned, RegistryPointsToLive, RegisteredUnlessReused
  <2> QED  BY <2>1
<1>0. crashed = "none"
  BY DEF Next, Alive, Dies
<1>1. ASSUME NEW r \in Runs, ReceiveRun(r) \/ SkipRunner(r) \/ GetRunnerId(r)
      PROVE  RegistryInv'
  BY <1>0, <1>1, RegistryFrame DEF ReceiveRun, SkipRunner, GetRunnerId, runnerVars
<1>2. ASSUME NEW w \in Workers, NEW r \in Runs, StartHandler(w, r) \/ ReplyRun(w, r)
      PROVE  RegistryInv'
  BY <1>0, <1>2, RegistryFrame DEF StartHandler, ReplyRun, runnerVars
<1>3. ASSUME NEW r \in Runs, SubmitRunner(r) PROVE RegistryInv'
  BY <1>0, <1>3, RegistryFrame DEF SubmitRunner, PromiseInv, NotSubmitted, TypeOK, VmOpen
<1>4. ASSUME NEW w \in Workers, NEW r \in Runs, StartRunner(w, r) \/ Refuse(w, r)
      PROVE  RegistryInv'
  BY <1>0, <1>4, RegistryFrame DEF StartRunner, Refuse, TypeOK, VmOpen
<1>5. ASSUME NEW r \in Runs, FailVm(r) PROVE RegistryInv'
  BY <1>0, <1>5, RegistryFrame DEF FailVm, TypeOK, VmOpen
<1>6. ASSUME NEW r \in Runs, CreateVm(r) PROVE RegistryInv'
  <2>1. /\ runner[r] = "create" /\ runner'[r] = "emplace" /\ rid'[r] \in Ids
        /\ \A s \in Runs \ {r} : runner'[s] = runner[s] /\ rid'[s] = rid[s]
        /\ taskRunInfo' = taskRunInfo
    BY <1>6 DEF CreateVm, TypeOK, Ids
  <2>2. NoNullEntry'
    BY <1>0, <2>1 DEF RegistryInv, NoNullEntry
  <2>3. IdOwned'
    BY <2>1 DEF RegistryInv, IdOwned, VmOpen
  <2>4. \A i \in Ids : taskRunInfo[i] # r
    BY <2>1 DEF RegistryInv, RegistryPointsToLive, VmOpen
  <2>5. RegistryPointsToLive'
    BY <2>1, <2>4 DEF RegistryInv, RegistryPointsToLive
  <2>6. rid[r] \notin Ids
    BY <2>1 DEF RegistryInv, IdOwned, VmOpen
  <2>7. RegisteredUnlessReused'
    <3> SUFFICES ASSUME NEW s \in Runs, runner'[s] \in VmOpen \ {"emplace"},
                        taskRunInfo'[rid'[s]] # s
                 PROVE  \E u \in Runs \ {s} : rid'[u] = rid'[s] /\ runner'[u] # "emplace"
      BY DEF RegisteredUnlessReused
    <3>1. s # r /\ runner[s] \in VmOpen \ {"emplace"} /\ taskRunInfo[rid[s]] # s
      BY <2>1
    <3>2. PICK u \in Runs \ {s} : rid[u] = rid[s] /\ runner[u] # "emplace"
      BY <3>1 DEF RegistryInv, RegisteredUnlessReused
    <3>3. u # r
      BY <3>1, <3>2, <2>6 DEF RegistryInv, IdOwned
    <3> QED  BY <3>1, <3>2, <3>3, <2>1
  <2> QED  BY <2>2, <2>3, <2>5, <2>7 DEF RegistryInv
<1>7. ASSUME NEW r \in Runs, Emplace(r) PROVE RegistryInv'
  <2>1. /\ runner[r] = "emplace" /\ runner'[r] = "notify" /\ rid' = rid /\ rid[r] \in Ids
        /\ \A s \in Runs \ {r} : runner'[s] = runner[s]
        /\ \A i \in Ids \ {rid[r]} : taskRunInfo'[i] = taskRunInfo[i]
        /\ \/ taskRunInfo[rid[r]] = Absent /\ taskRunInfo'[rid[r]] = r
           \/ taskRunInfo[rid[r]] # Absent /\ taskRunInfo'[rid[r]] = taskRunInfo[rid[r]]
    BY <1>7 DEF Emplace, TypeOK, VmOpen
  <2>2. NoNullEntry'
    BY <1>0, <2>1, EntriesAssumption DEF RegistryInv, NoNullEntry
  <2>3. IdOwned'
    BY <2>1 DEF RegistryInv, IdOwned, VmOpen
  <2>4. \A i \in Ids : taskRunInfo[i] # r
    BY <2>1 DEF RegistryInv, RegistryPointsToLive, VmOpen
  <2>5. RegistryPointsToLive'
    BY <2>1, <2>4, EntriesAssumption DEF RegistryInv, RegistryPointsToLive, VmOpen
  <2>6. taskRunInfo[rid[r]] # Absent =>
           /\ taskRunInfo[rid[r]] \in Runs \ {r}
           /\ rid[taskRunInfo[rid[r]]] = rid[r]
           /\ runner[taskRunInfo[rid[r]]] # "emplace"
    BY <1>0, <2>1, <2>4 DEF RegistryInv, NoNullEntry, RegistryPointsToLive, TypeOK
  <2>7. ASSUME NEW s \in Runs \ {r}, runner[s] \in VmOpen \ {"emplace"}
        PROVE  \/ taskRunInfo'[rid[s]] = s
               \/ \E u \in Runs \ {s} : rid[u] = rid[s] /\ runner'[u] # "emplace"
    <3>1. CASE rid[s] = rid[r]
      BY <2>1, <3>1
    <3>2. CASE rid[s] # rid[r]
      <4>1. taskRunInfo'[rid[s]] = taskRunInfo[rid[s]]
        BY <2>1, <2>7, <3>2 DEF TypeOK
      <4> QED  BY <2>1, <2>7, <4>1 DEF RegistryInv, RegisteredUnlessReused
    <3> QED  BY <3>1, <3>2
  <2>8. \/ taskRunInfo'[rid[r]] = r
        \/ \E u \in Runs \ {r} : rid[u] = rid[r] /\ runner'[u] # "emplace"
    BY <2>1, <2>6
  <2>9. RegisteredUnlessReused'
    BY <2>1, <2>7, <2>8 DEF RegisteredUnlessReused
  <2> QED  BY <2>2, <2>3, <2>5, <2>9 DEF RegistryInv
<1>8. ASSUME NEW r \in Runs,
             \/ NotifyRunnerId(r) \/ BindFails(r) \/ Load(r) \/ LoadFails(r) \/ ScriptEnds(r)
             \/ FinishStatus(r) \/ Report(r) \/ CloseVm(r)
      PROVE  RegistryInv'
  <2>1. UNCHANGED <<taskRunInfo, rid>>
    BY <1>8 DEF NotifyRunnerId, BindFails, Load, LoadFails, ScriptEnds, FinishStatus, Report, CloseVm
  <2>2. /\ runner[r] \in VmOpen \ {"emplace"}
        /\ runner'[r] \in (VmOpen \cup {"erase"}) \ {"emplace"}
        /\ runner[r] = "close" <=> runner'[r] = "erase"
        /\ \A s \in Runs \ {r} : runner'[s] = runner[s]
    BY <1>8 DEF NotifyRunnerId, BindFails, Load, LoadFails, ScriptEnds, FinishStatus, Report, CloseVm,
                TypeOK, VmOpen
  <2> QED  BY <1>0, <2>1, <2>2, RegistryFrame
<1>9. ASSUME NEW w \in Workers, NEW r \in Runs, Erase(w, r) PROVE RegistryInv'
  <2>1. /\ runner[r] = "erase" /\ runner'[r] = "done" /\ rid' = rid /\ rid[r] \in Ids
        /\ \A s \in Runs \ {r} : runner'[s] = runner[s]
        /\ \A i \in Ids \ {rid[r]} : taskRunInfo'[i] = taskRunInfo[i]
        /\ taskRunInfo'[rid[r]] = Absent
    BY <1>9 DEF Erase, TypeOK, VmOpen
  <2>2. NoNullEntry'
    BY <1>0, <2>1, EntriesAssumption DEF RegistryInv, NoNullEntry
  <2>3. IdOwned'
    BY <2>1 DEF RegistryInv, IdOwned, VmOpen
  <2>4. RegistryPointsToLive'
    BY <2>1, EntriesAssumption DEF RegistryInv, RegistryPointsToLive
  <2>5. ASSUME NEW s \in Runs \ {r}, runner[s] \in VmOpen \ {"emplace"}
        PROVE  \/ taskRunInfo'[rid[s]] = s
               \/ \E u \in Runs \ {s} : rid[u] = rid[s] /\ runner'[u] # "emplace"
    <3>1. CASE rid[s] = rid[r]
      BY <2>1, <3>1
    <3>2. CASE rid[s] # rid[r]
      <4>1. taskRunInfo'[rid[s]] = taskRunInfo[rid[s]]
        BY <2>1, <2>5, <3>2 DEF TypeOK
      <4> QED  BY <2>1, <2>5, <4>1 DEF RegistryInv, RegisteredUnlessReused
    <3> QED  BY <3>1, <3>2
  <2>6. RegisteredUnlessReused'
    BY <2>1, <2>5 DEF RegisteredUnlessReused, VmOpen
  <2> QED  BY <2>2, <2>3, <2>4, <2>6 DEF RegistryInv
<1>10. ASSUME NEW q \in Queries,
              ReceiveStatus(q) \/ FindNone(q) \/ FindEntry(q) \/ IndexEntry(q) \/ ReadStatus(q)
       PROVE  RegistryInv'
  BY <1>0, <1>10, RegistryFrame
  DEF ReceiveStatus, FindNone, FindEntry, IndexEntry, ReadStatus, runnerVars
<1>11. ASSUME NEW w \in Workers, NEW q \in Queries, StartQuery(w, q) \/ ReplyStatus(w, q)
       PROVE  RegistryInv'
  BY <1>0, <1>11, RegistryFrame DEF StartQuery, ReplyStatus, runnerVars
<1>12. ASSUME NEW r \in Runs, PythonCrash(r) \/ ScriptCrash(r) PROVE RegistryInv'
  BY <1>0, <1>12, RegistryFrame DEF PythonCrash, ScriptCrash, runnerVars
<1>13. ASSUME NEW q \in Queries, IndexNull(q), crashed' # "none" PROVE RegistryInv'
  <2>1. /\ UNCHANGED <<rid, runner>>
        /\ taskRunInfo[qid[q]] = Absent
        /\ taskRunInfo' = [taskRunInfo EXCEPT ![qid[q]] = Null]
    BY <1>13 DEF IndexNull, runnerVars
  <2>2. \A i \in Ids : \/ taskRunInfo'[i] = taskRunInfo[i]
                       \/ taskRunInfo[i] = Absent /\ taskRunInfo'[i] = Null
    BY <2>1 DEF TypeOK
  <2>3. NoNullEntry' /\ IdOwned'
    BY <1>13, <2>1 DEF RegistryInv, NoNullEntry, IdOwned
  <2>4. RegistryPointsToLive'
    BY <2>1, <2>2, EntriesAssumption DEF RegistryInv, RegistryPointsToLive
  <2>5. RegisteredUnlessReused'
    <3> SUFFICES ASSUME NEW r \in Runs, runner[r] \in VmOpen \ {"emplace"}
                 PROVE  \/ taskRunInfo'[rid[r]] = r
                        \/ \E s \in Runs \ {r} : rid[s] = rid[r] /\ runner[s] # "emplace"
      BY <2>1 DEF RegisteredUnlessReused
    <3>1. rid[r] \in Ids
      BY DEF TypeOK, VmOpen
    <3> QED  BY <2>2, <3>1, EntriesAssumption DEF RegistryInv, RegisteredUnlessReused
  <2> QED  BY <2>3, <2>4, <2>5 DEF RegistryInv
<1> QED
  BY <1>1, <1>2, <1>3, <1>4, <1>5, <1>6, <1>7, <1>8, <1>9, <1>10, <1>11, <1>12, <1>13
  DEF Next, Alive, Dies, Step, Handling, Launching, Scripting, Finishing, Answering

LEMMA RegistryAlways == Spec => []RegistryInv
  BY TypeInit, TypeStep, PromiseInit, PromiseStep, RegistryInit, RegistryStep, PTL DEF Spec

(* No entry of the registry outlives the frame it points into. *)
THEOREM RegistryNeverDangles == Spec => []RegistryPointsToLive
<1>1. RegistryInv => RegistryPointsToLive
  BY DEF RegistryInv
<1> QED  BY <1>1, RegistryAlways, PTL

(* Only another runner with the same VM address hides an announced runner  *)
(* from the registry.                                                      *)
THEOREM RegisteredWhileOpen == Spec => []RegisteredUnlessReused
<1>1. RegistryInv => RegisteredUnlessReused
  BY DEF RegistryInv
<1> QED  BY <1>1, RegistryAlways, PTL

-----------------------------------------------------------------------------
(* How the process can die.  A status query that has seen its id can only  *)
(* lose the entry to a runner with that id that has returned.              *)
QueryInv ==
  \A q \in Queries :
    query[q] = "index" =>
      \/ taskRunInfo[qid[q]] # Absent
      \/ \E r \in Runs : rid[r] = qid[q] /\ runner[r] = "done"

IdLanguage ==
  \A r \in Runs : runner[r] \in VmOpen => (rid[r] = PyMain <=> lang[r] = "python")

OpenUnlessShared ==
  \A r \in Runs :
    runner[r] \in VmOpen /\ lang[r] = "python" /\ interp = "closed" =>
      \E s \in Runs \ {r} : rid[s] = PyMain

RaceInv == QueryInv /\ IdLanguage /\ OpenUnlessShared

LEMMA RaceInit == Init => RaceInv /\ CrashNeedsRace
  BY DEF Init, RaceInv, QueryInv, IdLanguage, OpenUnlessShared, CrashNeedsRace, VmOpen

(* Steps that change nothing the handler of a query has looked at, keep    *)
(* the interpreter open and open no VM.                                    *)
LEMMA RaceFrame ==
  ASSUME RaceInv, UNCHANGED <<taskRunInfo, rid, lang>>,
         interp' = "closed" => interp = "closed",
         \A q \in Queries :
           query'[q] = "index" =>
             /\ qid'[q] = qid[q]
             /\ query[q] = "index" \/ taskRunInfo[qid[q]] # Absent,
         \A r \in Runs :
           \/ runner'[r] = runner[r]
           \/ runner[r] \in VmOpen /\ runner'[r] \in VmOpen
           \/ runner[r] # "done" /\ runner'[r] \notin VmOpen
  PROVE  RaceInv'
<1>1. QueryInv'
  BY DEF RaceInv, QueryInv, VmOpen
<1>2. IdLanguage'
  BY DEF RaceInv, IdLanguage
<1>3. OpenUnlessShared'
  BY DEF RaceInv, OpenUnlessShared
<1> QED  BY <1>1, <1>2, <1>3 DEF RaceInv

LEMMA RaceStep ==
  TypeOK /\ PromiseInv /\ RegistryInv /\ RaceInv /\ [Next]_vars => RaceInv'
<1> SUFFICES ASSUME TypeOK, PromiseInv, RegistryInv, RaceInv, [Next]_vars PROVE RaceInv'
  OBVIOUS
<1>1. ASSUME NEW r \in Runs, ReceiveRun(r) PROVE RaceInv'
  <2>1. /\ runner[r] = "none" /\ UNCHANGED <<runnerVars, taskRunInfo, queryVars>>
        /\ \A s \in Runs \ {r} : lang'[s] = lang[s]
    BY <1>1 DEF ReceiveRun, PromiseInv, NotSubmitted, TypeOK
  <2> QED  BY <2>1 DEF runnerVars, queryVars, RaceInv, QueryInv, IdLanguage,
                       OpenUnlessShared, VmOpen
<1>2. ASSUME NEW r \in Runs, SubmitRunner(r) \/ SkipRunner(r) \/ GetRunnerId(r)
      PROVE  RaceInv'
  BY <1>2, RaceFrame
  DEF SubmitRunner, SkipRunner, GetRunnerId, runnerVars, queryVars, PromiseInv, NotSubmitted,
      TypeOK, VmOpen
<1>3. ASSUME NEW w \in Workers, NEW r \in Runs, StartHandler(w, r) \/ ReplyRun(w, r)
      PROVE  RaceInv'
  BY <1>3, RaceFrame DEF StartHandler, ReplyRun, runnerVars, queryVars
<1>4. ASSUME NEW w \in Workers, NEW r \in Runs, StartRunner(w, r) \/ Refuse(w, r)
      PROVE  RaceInv'
  BY <1>4, RaceFrame DEF StartRunner, Refuse, runVars, queryVars, TypeOK, VmOpen
<1>5. ASSUME NEW r \in Runs, FailVm(r) PROVE RaceInv'
  BY <1>5, RaceFrame DEF FailVm, Py_Initialize, runVars, queryVars, TypeOK, VmOpen
<1>6. ASSUME NEW r \in Runs, CreateVm(r) PROVE RaceInv'
  <2>1. /\ runner[r] = "create" /\ runner'[r] = "emplace"
        /\ rid'[r] = PyMain <=> lang[r] = "python"
        /\ interp' = "closed" => interp = "closed" /\ lang[r] # "python"
        /\ \A s \in Runs \ {r} : runner'[s] = runner[s] /\ rid'[s] = rid[s]
        /\ UNCHANGED <<taskRunInfo, lang, query, qid>>
    BY <1>6, IdsAssumption DEF CreateVm, Py_Initialize, runVars, queryVars, TypeOK
  <2>2. rid[r] \notin Ids
    BY <2>1 DEF RegistryInv, IdOwned, VmOpen
  <2>3. QueryInv'
    BY <2>1 DEF RaceInv, QueryInv
  <2>4. IdLanguage'
    BY <2>1 DEF RaceInv, IdLanguage
  <2>5. OpenUnlessShared'
    BY <2>1, <2>2 DEF RaceInv, OpenUnlessShared, Ids
  <2> QED  BY <2>3, <2>4, <2>5 DEF RaceInv
<1>7. ASSUME NEW r \in Runs, Emplace(r) PROVE RaceInv'
  <2>1. /\ runner[r] = "emplace" /\ runner'[r] = "notify"
        /\ \A s \in Runs \ {r} : runner'[s] = runner[s]
        /\ UNCHANGED <<rid, lang, interp, query, qid>>
        /\ \A i \in Ids : taskRunInfo[i] # Absent => taskRunInfo'[i] # Absent
    BY <1>7, EntriesAssumption DEF Emplace, runVars, queryVars, TypeOK
  <2>2. QueryInv'
    BY <2>1 DEF RaceInv, QueryInv, TypeOK
  <2>3. IdLanguage' /\ OpenUnlessShared'
    BY <2>1 DEF RaceInv, IdLanguage, OpenUnlessShared, VmOpen
  <2> QED  BY <2>2, <2>3 DEF RaceInv
<1>8. ASSUME NEW r \in Runs,
             \/ NotifyRunnerId(r) \/ BindFails(r) \/ Load(r) \/ LoadFails(r) \/ ScriptEnds(r)
             \/ FinishStatus(r) \/ Report(r)
      PROVE  RaceInv'
  BY <1>8, RaceFrame
  DEF NotifyRunnerId, BindFails, Load, LoadFails, ScriptEnds, FinishStatus, Report, runVars, queryVars,
      TypeOK, VmOpen
<1>9. ASSUME NEW r \in Runs, CloseVm(r) PROVE RaceInv'
  <2>1. /\ runner[r] = "close" /\ runner'[r] = "erase"
        /\ \A s \in Runs \ {r} : runner'[s] = runner[s]
        /\ interp' = "closed" => interp = "closed" \/ lang[r] = "python"
        /\ UNCHANGED <<rid, lang, taskRunInfo, query, qid>>
    BY <1>9 DEF CloseVm, runVars, queryVars, TypeOK
  <2>2. QueryInv' /\ IdLanguage'
    BY <2>1 DEF RaceInv, QueryInv, IdLanguage, VmOpen
  <2>3. lang[r] = "python" => rid[r] = PyMain
    BY <2>1 DEF RaceInv, IdLanguage, VmOpen
  <2>4. OpenUnlessShared'
    BY <2>1, <2>3 DEF RaceInv, OpenUnlessShared, VmOpen, TypeOK
  <2> QED  BY <2>2, <2>4 DEF RaceInv
<1>10. ASSUME NEW w \in Workers, NEW r \in Runs, Erase(w, r) PROVE RaceInv'
  <2>1. /\ runner[r] = "erase" /\ runner'[r] = "done"
        /\ \A s \in Runs \ {r} : runner'[s] = runner[s]
        /\ UNCHANGED <<rid, lang, interp, query, qid>>
        /\ \A i \in Ids : i # rid[r] => taskRunInfo'[i] = taskRunInfo[i]
    BY <1>10 DEF Erase, runVars, queryVars, TypeOK
  <2>2. QueryInv'
    BY <2>1 DEF RaceInv, QueryInv, TypeOK
  <2>3. IdLanguage' /\ OpenUnlessShared'
    BY <2>1 DEF RaceInv, IdLanguage, OpenUnlessShared, VmOpen
  <2> QED  BY <2>2, <2>3 DEF RaceInv
<1>11. ASSUME NEW q \in Queries,
              ReceiveStatus(q) \/ FindNone(q) \/ FindEntry(q) \/ IndexEntry(q) \/ ReadStatus(q)
       PROVE  RaceInv'
  BY <1>11, RaceFrame
  DEF ReceiveStatus, FindNone, FindEntry, IndexEntry, ReadStatus, runVars, runnerVars, TypeOK
<1>12. ASSUME NEW w \in Workers, NEW q \in Queries, StartQuery(w, q) \/ ReplyStatus(w, q)
       PROVE  RaceInv'
  BY <1>12, RaceFrame DEF StartQuery, ReplyStatus, runVars, runnerVars, TypeOK
<1>13. ASSUME NEW q \in Queries, IndexNull(q) PROVE RaceInv'
  BY <1>13, EntriesAssumption
  DEF IndexNull, runVars, runnerVars, queryVars, RaceInv, QueryInv, IdLanguage,
      OpenUnlessShared, TypeOK
<1>14. ASSUME NEW r \in Runs, PythonCrash(r) \/ ScriptCrash(r) PROVE RaceInv'
  BY <1>14, RaceFrame DEF PythonCrash, ScriptCrash, runVars, runnerVars, queryVars
<1>15. CASE UNCHANGED vars
  BY <1>15, RaceFrame DEF vars, runVars, runnerVars, queryVars
<1> QED
  BY <1>1, <1>2, <1>3, <1>4, <1>5, <1>6, <1>7, <1>8, <1>9, <1>10, <1>11, <1>12, <1>13,
     <1>14, <1>15
  DEF Next, Alive, Dies, Step, Handling, Launching, Scripting, Finishing, Answering

LEMMA RaceAlways == Spec => []RaceInv
<1>1. Init => RaceInv
  BY RaceInit
<1> QED
  BY <1>1, RaceStep, TypeInit, TypeStep, PromiseInit, PromiseStep, RegistryInit,
     RegistryStep, PTL DEF Spec

(* A lone Python runner has its interpreter from creation to Py_Finalize.  *)
THEOREM LonePythonOpen == Spec => []PythonOpen
<1>1. RaceInv => PythonOpen
  BY DEF RaceInv, OpenUnlessShared, PythonOpen, UsesPython, VmOpen
<1> QED  BY <1>1, RaceAlways, PTL

LEMMA CrashStep ==
  TypeOK /\ RaceInv /\ CrashNeedsRace /\ [Next]_vars => CrashNeedsRace'
<1> SUFFICES ASSUME TypeOK, RaceInv, CrashNeedsRace, [Next]_vars PROVE CrashNeedsRace'
  OBVIOUS
<1>1. CASE Alive(Step)
  BY <1>1 DEF Alive, CrashNeedsRace
<1>2. ASSUME NEW q \in Queries, Dies(IndexNull(q), "query") PROVE CrashNeedsRace'
  BY <1>2 DEF Dies, IndexNull, RaceInv, QueryInv, CrashNeedsRace, runnerVars, queryVars
<1>3. ASSUME NEW r \in Runs, Dies(PythonCrash(r), "python") PROVE CrashNeedsRace'
  <2>1. PythonCrash(r) /\ crashed' = "python"
    BY <1>3 DEF Dies
  <2>2. rid[r] = PyMain
    BY <2>1 DEF PythonCrash, UsesPython, RaceInv, IdLanguage, VmOpen
  <2>3. \E s \in Runs \ {r} : rid[s] = PyMain
    BY <2>1 DEF PythonCrash, UsesPython, RaceInv, IdLanguage, OpenUnlessShared, VmOpen
  <2> QED  BY <2>1, <2>2, <2>3 DEF PythonCrash, CrashNeedsRace, runnerVars
<1>4. ASSUME NEW r \in Runs, Dies(ScriptCrash(r), "script") PROVE CrashNeedsRace'
  BY <1>4 DEF Dies, CrashNeedsRace
<1>5. CASE UNCHANGED vars
  BY <1>5 DEF vars, runnerVars, queryVars, CrashNeedsRace
<1> QED  BY <1>1, <1>2, <1>3, <1>4, <1>5 DEF Next

(* What the service does itself ends the process only by a race: of a      *)
(* status query with the end of a run it asks about, or of two Python      *)
(* runs.  A script may end the process whenever it executes.               *)
THEOREM ServiceDiesByRace == Spec => []CrashNeedsRace
<1>1. Init => CrashNeedsRace
  BY RaceInit
<1> QED  BY <1>1, RaceAlways, CrashStep, TypeInit, TypeStep, PTL DEF Spec

-----------------------------------------------------------------------------
(* Where the jobs are: the pool neither loses nor forgets one. *)
Queued(j) == \E i \in 1 .. Len(queue) : queue[i] = j
Held(j) == \E w \in Workers : running[w] = j

LEMMA SubmitKeeps ==
  ASSUME TypeOK, NEW j \in Jobs, Pool!Submit(j)
  PROVE  /\ Queued(j)'
         /\ \A k \in Jobs : (Queued(k) => Queued(k)') /\ (Held(k) => Held(k)')
<1>1. /\ Len(queue) \in Nat
      /\ queue' = Append(queue, j) /\ Len(queue') = Len(queue) + 1
      /\ \A i \in 1 .. Len(queue) : queue'[i] = queue[i]
      /\ queue'[Len(queue) + 1] = j
      /\ running' = running
  BY AppendProperties, LenProperties DEF TypeOK, Pool!Submit
<1>2. Queued(j)'
  <2>1. Len(queue) + 1 \in 1 .. Len(queue')
    BY <1>1
  <2> QED  BY <1>1, <2>1 DEF Queued
<1>3. \A i \in 1 .. Len(queue) : i \in 1 .. Len(queue')
  BY <1>1
<1> QED  BY <1>1, <1>2, <1>3 DEF Queued, Held

LEMMA StartKeeps ==
  ASSUME TypeOK, NEW w \in Workers, Pool!Start(w), NEW j \in Jobs, Head(queue) = j
  PROVE  /\ Held(j)'
         /\ \A k \in Jobs :
              (Queued(k) /\ k # j => Queued(k)') /\ (Held(k) => Held(k)')
<1>1. /\ queue # <<>>
      /\ running[w] = NoTask
      /\ running' = [running EXCEPT ![w] = Head(queue)]
      /\ queue' = Tail(queue)
  BY DEF Pool!Start
<1>2. running'[w] = Head(queue) /\ \A v \in Workers \ {w} : running'[v] = running[v]
  BY <1>1 DEF TypeOK
<1>3. /\ Len(queue) \in Nat \ {0} /\ Len(queue') = Len(queue) - 1
      /\ Head(queue) = queue[1]
      /\ \A i \in 1 .. Len(queue) - 1 : queue'[i] = queue[i + 1]
  BY <1>1, HeadTailProperties, EmptySeq DEF TypeOK
<1>4. ASSUME NEW k \in Jobs, Queued(k), k # j PROVE Queued(k)'
  <2>1. PICK i \in 1 .. Len(queue) : queue[i] = k
    BY <1>4 DEF Queued
  <2>2. i # 1
    BY <1>3, <1>4, <2>1
  <2>3. i - 1 \in 1 .. Len(queue') /\ queue'[i - 1] = k
    BY <1>3, <2>1, <2>2
  <2> QED  BY <2>3 DEF Queued
<1>5. ASSUME NEW k \in Jobs, Held(k) PROVE Held(k)'
  BY <1>1, <1>2, <1>5, JobsAssumption DEF Held
<1> QED  BY <1>2, <1>4, <1>5 DEF Held

LEMMA FinishKeeps ==
  ASSUME TypeOK, NEW w \in Workers, Pool!Finish(w)
  PROVE  \A k \in Jobs :
           (Queued(k) => Queued(k)') /\ (Held(k) /\ k # running[w] => Held(k)')
  BY DEF TypeOK, Pool!Finish, Queued, Held

(* Each runner that exists is in the queue or on a worker until it         *)
(* returns, and has set the promise once it is past the notification,      *)
(* unless it found the logger of another Python run, which had announced   *)
(* itself before.                                                          *)
ProducerInv ==
  /\ \A r \in Runs : runner[r] = "queued" => Queued(<<"runner", r>>)
  /\ \A r \in Runs : runner[r] \in Framed => Held(<<"runner", r>>)
  /\ \A r \in Runs :
       promise[r] = Unset =>
         \/ runner[r] \in {"none", "queued", "create", "refuse", "emplace", "notify"}
         \/ PythonMet(r)
  /\ \A r \in Runs :
       handler[r] \in {"wait", "reply", "done"} /\ lang[r] \in Known => runner[r] # "none"
  /\ interp = "bound" => \E s \in Runs : rid[s] = PyMain /\ promise[s] # Unset

LEMMA ProducerInit == Init => ProducerInv
  BY DEF Init, ProducerInv, Framed, VmOpen

(* Steps that lose no job, move no runner over a boundary, bind nothing    *)
(* and unset neither a promise nor an id.                                  *)
LEMMA ProducerFrame ==
  ASSUME TypeOK, ProducerInv, UNCHANGED <<handler, lang>>,
         interp' = "bound" => interp = "bound",
         \A r \in Runs : rid[r] = PyMain => rid'[r] = PyMain,
         \A k \in Jobs : (Queued(k) => Queued(k)') /\ (Held(k) => Held(k)'),
         \A r \in Runs :
           \/ runner'[r] = runner[r]
           \/ runner[r] \in Framed /\ runner'[r] \in Framed,
         \A r \in Runs :
           promise'[r] = Unset =>
             /\ promise[r] = Unset
             /\ \/ runner'[r] = runner[r]
                \/ runner'[r] \in {"create", "refuse", "emplace", "notify"}
                \/ PythonMet(r)
  PROVE  ProducerInv'
<1>1. \A r \in Runs : PythonMet(r) => PythonMet(r)'
  BY DEF PythonMet
<1> QED  BY <1>1, JobFacts DEF ProducerInv, Framed, VmOpen

LEMMA ProducerStep ==
  TypeOK /\ PromiseInv /\ RegistryInv /\ RaceInv /\ ProducerInv /\ [Next]_vars => ProducerInv'
<1> SUFFICES ASSUME TypeOK, PromiseInv, RegistryInv, RaceInv, ProducerInv, [Next]_vars
             PROVE  ProducerInv'
  OBVIOUS
<1>0. rid' = rid => \A r \in Runs : PythonMet(r) => PythonMet(r)'
  BY DEF PythonMet
<1> USE JobFacts, <1>0
<1>1. ASSUME NEW r \in Runs, ReceiveRun(r) PROVE ProducerInv'
  <2>1. \A k \in Jobs : (Queued(k) => Queued(k)') /\ (Held(k) => Held(k)')
    BY <1>1, SubmitKeeps DEF ReceiveRun
  <2> QED  BY <1>1, <2>1 DEF ReceiveRun, runnerVars, ProducerInv, TypeOK
<1>2. ASSUME NEW r \in Runs, SubmitRunner(r) PROVE ProducerInv'
  <2>1. /\ Queued(<<"runner", r>>)'
        /\ \A k \in Jobs : (Queued(k) => Queued(k)') /\ (Held(k) => Held(k)')
    BY <1>2, SubmitKeeps DEF SubmitRunner
  <2> QED  BY <1>2, <2>1 DEF SubmitRunner, ProducerInv, TypeOK, Framed, VmOpen
<1>3. ASSUME NEW r \in Runs, SkipRunner(r) PROVE ProducerInv'
  BY <1>3 DEF SkipRunner, poolVars, runnerVars, ProducerInv, TypeOK, Queued, Held
<1>4. ASSUME NEW r \in Runs, GetRunnerId(r) PROVE ProducerInv'
  BY <1>4 DEF GetRunnerId, poolVars, runnerVars, ProducerInv, TypeOK, Queued, Held
<1>5. ASSUME NEW w \in Workers, NEW r \in Runs, StartHandler(w, r) PROVE ProducerInv'
  <2>1. \A s \in Runs : /\ Queued(<<"runner", s>>) => Queued(<<"runner", s>>)'
                        /\ Held(<<"runner", s>>) => Held(<<"runner", s>>)'
    BY <1>5, StartKeeps DEF StartHandler
  <2> QED  BY <1>5, <2>1 DEF StartHandler, runnerVars, ProducerInv, TypeOK
<1>6. ASSUME NEW w \in Workers, NEW r \in Runs, ReplyRun(w, r) PROVE ProducerInv'
  <2>1. \A s \in Runs : /\ Queued(<<"runner", s>>) => Queued(<<"runner", s>>)'
                        /\ Held(<<"runner", s>>) => Held(<<"runner", s>>)'
    BY <1>6, FinishKeeps DEF ReplyRun
  <2> QED  BY <1>6, <2>1 DEF ReplyRun, runnerVars, ProducerInv, TypeOK
<1>7. ASSUME NEW w \in Workers, NEW r \in Runs, StartRunner(w, r) PROVE ProducerInv'
  <2>1. /\ Held(<<"runner", r>>)'
        /\ \A s \in Runs \ {r} : Queued(<<"runner", s>>) => Queued(<<"runner", s>>)'
        /\ \A s \in Runs : Held(<<"runner", s>>) => Held(<<"runner", s>>)'
    BY <1>7, StartKeeps DEF StartRunner
  <2> QED  BY <1>7, <2>1 DEF StartRunner, runVars, ProducerInv, TypeOK, Framed, VmOpen
<1>8. ASSUME NEW w \in Workers, NEW r \in Runs, Refuse(w, r) \/ Erase(w, r)
      PROVE  ProducerInv'
  <2>1. Pool!Finish(w) /\ running[w] = <<"runner", r>>
    BY <1>8 DEF Refuse, Erase
  <2>2. /\ \A s \in Runs : Queued(<<"runner", s>>) => Queued(<<"runner", s>>)'
        /\ \A s \in Runs \ {r} : Held(<<"runner", s>>) => Held(<<"runner", s>>)'
    BY <2>1, FinishKeeps
  <2>3. /\ UNCHANGED <<handler, lang, rid, interp>>
        /\ runner'[r] \in {"refused", "done"}
        /\ \A s \in Runs \ {r} : runner'[s] = runner[s] /\ promise'[s] = promise[s]
    BY <1>8 DEF Refuse, Erase, runVars, TypeOK
  <2>4. /\ promise'[r] = Unset => PythonMet(r)
        /\ promise[r] # Unset => promise'[r] # Unset
    <3>1. CASE Refuse(w, r)
      BY <3>1, IdsAssumption DEF Refuse, TypeOK
    <3>2. CASE Erase(w, r)
      <4>1. promise' = promise /\ runner[r] = "erase"
        BY <3>2 DEF Erase, runVars
      <4> QED  BY <4>1 DEF ProducerInv
    <3> QED  BY <1>8, <3>1, <3>2
  <2> QED  BY <2>2, <2>3, <2>4 DEF ProducerInv, Framed, VmOpen
<1>9. ASSUME NEW r \in Runs,
             \/ CreateVm(r) \/ FailVm(r) \/ Emplace(r) \/ Load(r) \/ LoadFails(r)
             \/ ScriptEnds(r) \/ FinishStatus(r) \/ Report(r) \/ CloseVm(r)
      PROVE  ProducerInv'
  <2>1. /\ UNCHANGED <<poolVars, runVars>>
        /\ runner[r] \in Framed /\ runner'[r] \in Framed
        /\ \A s \in Runs \ {r} : runner'[s] = runner[s]
        /\ runner[r] = "create" \/ runner[r] = "emplace" =>
             runner'[r] \in {"create", "refuse", "emplace", "notify"}
        /\ runner[r] \notin {"notify", "refuse"}
        /\ interp' = "bound" => interp = "bound"
    BY <1>9 DEF CreateVm, FailVm, Py_Initialize, Emplace, Load, LoadFails, ScriptEnds, FinishStatus, Report,
                CloseVm, Framed, VmOpen, TypeOK
  <2>2. \A k \in Jobs : (Queued(k) => Queued(k)') /\ (Held(k) => Held(k)')
    BY <2>1 DEF poolVars, Queued, Held
  <2>3. promise[r] = Unset =>
          runner'[r] \in {"create", "refuse", "emplace", "notify"} \/ PythonMet(r)
    BY <2>1 DEF ProducerInv, Framed, VmOpen
  <2>4. \A s \in Runs : rid[s] = PyMain => rid'[s] = PyMain
    <3>1. CASE CreateVm(r)
      <4>1. rid[r] \notin Ids
        BY <3>1 DEF CreateVm, RegistryInv, IdOwned, VmOpen
      <4> QED  BY <3>1, <4>1 DEF CreateVm, TypeOK, Ids
    <3>2. CASE ~CreateVm(r)
      BY <1>9, <3>2 DEF FailVm, Emplace, Load, LoadFails, ScriptEnds, FinishStatus, Report,
                        CloseVm
    <3> QED  BY <3>1, <3>2
  <2> QED  BY <2>1, <2>2, <2>3, <2>4, ProducerFrame DEF runVars
<1>10. ASSUME NEW r \in Runs, NotifyRunnerId(r) PROVE ProducerInv'
  <2>1. rid[r] # Unset
    BY <1>10, IdsAssumption DEF NotifyRunnerId, TypeOK, VmOpen
  <2>2. interp' = "bound" => \E s \in Runs : rid'[s] = PyMain /\ promise'[s] # Unset
    <3>1. promise'[r] # Unset /\ rid' = rid
          /\ \A s \in Runs \ {r} : promise'[s] = promise[s]
      BY <1>10, <2>1 DEF NotifyRunnerId, TypeOK
    <3>2. interp' = "bound" => interp = "bound" \/ rid[r] = PyMain
      BY <1>10 DEF NotifyRunnerId, RaceInv, IdLanguage, VmOpen
    <3> QED  BY <3>1, <3>2 DEF ProducerInv
  <2> QED  BY <1>10, <2>1, <2>2
           DEF NotifyRunnerId, poolVars, Queued, Held, ProducerInv, TypeOK, Framed, VmOpen
<1>18. ASSUME NEW r \in Runs, BindFails(r) PROVE ProducerInv'
  <2>1. /\ runner[r] = "notify" /\ lang[r] = "python" /\ interp = "bound"
        /\ runner'[r] = "finish" /\ \A s \in Runs \ {r} : runner'[s] = runner[s]
        /\ UNCHANGED <<poolVars, runVars, rid, interp>>
    BY <1>18 DEF BindFails, TypeOK
  <2>2. promise[r] = Unset /\ rid[r] = PyMain
    BY <2>1 DEF PromiseInv, PromiseAlive, RaceInv, IdLanguage, VmOpen
  <2>3. PythonMet(r)
    BY <2>1, <2>2 DEF ProducerInv, PythonMet
  <2>4. \A k \in Jobs : (Queued(k) => Queued(k)') /\ (Held(k) => Held(k)')
    BY <2>1 DEF poolVars, Queued, Held
  <2> QED  BY <2>1, <2>3, <2>4, ProducerFrame DEF runVars, Framed, VmOpen
<1>11. ASSUME NEW q \in Queries, ReceiveStatus(q) PROVE ProducerInv'
  <2>1. \A k \in Jobs : (Queued(k) => Queued(k)') /\ (Held(k) => Held(k)')
    BY <1>11, SubmitKeeps DEF ReceiveStatus
  <2> QED  BY <1>11, <2>1, ProducerFrame DEF ReceiveStatus, runVars, runnerVars
<1>12. ASSUME NEW w \in Workers, NEW q \in Queries, StartQuery(w, q) PROVE ProducerInv'
  <2>1. \A s \in Runs : /\ Queued(<<"runner", s>>) => Queued(<<"runner", s>>)'
                        /\ Held(<<"runner", s>>) => Held(<<"runner", s>>)'
    BY <1>12, StartKeeps DEF StartQuery
  <2> QED  BY <1>12, <2>1 DEF StartQuery, runVars, runnerVars, ProducerInv
<1>13. ASSUME NEW w \in Workers, NEW q \in Queries, ReplyStatus(w, q) PROVE ProducerInv'
  <2>1. \A s \in Runs : /\ Queued(<<"runner", s>>) => Queued(<<"runner", s>>)'
                        /\ Held(<<"runner", s>>) => Held(<<"runner", s>>)'
    BY <1>13, FinishKeeps DEF ReplyStatus
  <2> QED  BY <1>13, <2>1 DEF ReplyStatus, runVars, runnerVars, ProducerInv
<1>14. CASE UNCHANGED <<poolVars, runVars, runnerVars>>
  BY <1>14 DEF poolVars, runVars, runnerVars, ProducerInv, PythonMet, Queued, Held
<1>15. ASSUME NEW q \in Queries,
              FindNone(q) \/ FindEntry(q) \/ IndexEntry(q) \/ ReadStatus(q) \/ IndexNull(q)
       PROVE  UNCHANGED <<poolVars, runVars, runnerVars>>
  BY <1>15 DEF FindNone, FindEntry, IndexEntry, ReadStatus, IndexNull
<1>16. ASSUME NEW r \in Runs, PythonCrash(r) \/ ScriptCrash(r)
       PROVE  UNCHANGED <<poolVars, runVars, runnerVars>>
  BY <1>16 DEF PythonCrash, ScriptCrash
<1>17. ASSUME UNCHANGED vars PROVE UNCHANGED <<poolVars, runVars, runnerVars>>
  BY <1>17 DEF vars
<1> QED
  BY <1>1, <1>2, <1>3, <1>4, <1>5, <1>6, <1>7, <1>8, <1>9, <1>10, <1>11, <1>12, <1>13,
     <1>14, <1>15, <1>16, <1>17, <1>18
  DEF Next, Alive, Dies, Step, Handling, Launching, Scripting, Finishing, Answering

(* However busy the pool is, the runner a handler waits for is never lost: *)
(* it is queued or has a worker until it has set the promise.              *)
THEOREM WaitedForRunnerExists == Spec => []WaitHasProducer
<1>1. TypeOK /\ ProducerInv => WaitHasProducer
  BY LenProperties DEF TypeOK, ProducerInv, WaitHasProducer, Queued, Held, Framed, VmOpen
<1>2. Init => RaceInv
  BY RaceInit
<1> QED
  BY <1>1, <1>2, TypeInit, TypeStep, PromiseInit, PromiseStep, RegistryInit, RegistryStep,
     RaceStep, ProducerInit, ProducerStep, PTL DEF Spec

-----------------------------------------------------------------------------
(* The contract with the clients.  A promise that is set holds the id of   *)
(* the runner, or 0 if the runner has given up; a handler past get() has   *)
(* one that is set; two open VMs have the same address only in Python.     *)
ContractInv ==
  /\ \A r \in Runs : promise[r] = NoId => runner[r] = "refused"
  /\ \A r \in Runs : promise[r] \in Ids => promise[r] = rid[r]
  /\ \A r \in Runs : handler[r] \in {"reply", "done"} => promise[r] # Unset
  /\ \A r, s \in Runs :
       r # s /\ runner[r] \in VmOpen /\ runner[s] \in VmOpen /\ rid[r] = rid[s] =>
         rid[r] = PyMain

LEMMA ContractInvInit == Init => ContractInv
  BY IdsAssumption DEF Init, ContractInv, VmOpen

(* Steps that set no promise, give no id and open no VM. *)
LEMMA ContractInvFrame ==
  ASSUME ContractInv, UNCHANGED <<handler, promise, rid>>,
         \A r \in Runs : runner[r] = "refused" => runner'[r] = "refused",
         \A r \in Runs : runner'[r] \in VmOpen => runner[r] \in VmOpen
  PROVE  ContractInv'
  BY DEF ContractInv

LEMMA ContractInvStep ==
  TypeOK /\ PromiseInv /\ RaceInv /\ ContractInv /\ [Next]_vars => ContractInv'
<1> SUFFICES ASSUME TypeOK, PromiseInv, RaceInv, ContractInv, [Next]_vars PROVE ContractInv'
  OBVIOUS
<1>1. ASSUME NEW r \in Runs, ReceiveRun(r) \/ SubmitRunner(r) \/ SkipRunner(r) \/ GetRunnerId(r)
      PROVE  ContractInv'
  BY <1>1 DEF ReceiveRun, SubmitRunner, SkipRunner, GetRunnerId, runnerVars, ContractInv,
              PromiseInv, NotSubmitted, TypeOK, VmOpen
<1>2. ASSUME NEW w \in Workers, NEW r \in Runs, StartHandler(w, r) \/ ReplyRun(w, r)
      PROVE  ContractInv'
  BY <1>2 DEF StartHandler, ReplyRun, runnerVars, ContractInv, TypeOK
<1>3. ASSUME NEW w \in Workers, NEW r \in Runs, Refuse(w, r) PROVE ContractInv'
  <2>1. /\ runner'[r] = "refused" /\ promise'[r] = NoId
        /\ \A s \in Runs \ {r} : runner'[s] = runner[s] /\ promise'[s] = promise[s]
        /\ UNCHANGED <<handler, rid>>
    BY <1>3 DEF Refuse, TypeOK
  <2> QED  BY <2>1, IdsAssumption DEF ContractInv, VmOpen
<1>4. ASSUME NEW r \in Runs, CreateVm(r) PROVE ContractInv'
  <2>1. /\ runner[r] = "create" /\ runner'[r] = "emplace" /\ promise[r] = Unset
        /\ rid'[r] = PyMain \/ rid'[r] \notin OpenVms
        /\ \A s \in Runs \ {r} : runner'[s] = runner[s] /\ rid'[s] = rid[s]
        /\ UNCHANGED <<handler, promise>>
    BY <1>4 DEF CreateVm, runVars, TypeOK, PromiseInv, PromiseAlive
  <2>2. \A s \in Runs \ {r} : runner[s] \in VmOpen => rid[s] \in OpenVms
    BY DEF OpenVms
  <2> QED  BY <2>1, <2>2, IdsAssumption DEF ContractInv
<1>5. ASSUME NEW r \in Runs, NotifyRunnerId(r) PROVE ContractInv'
  <2>1. /\ runner[r] = "notify" /\ runner'[r] = "load" /\ promise'[r] = rid[r] /\ rid[r] \in Ids
        /\ \A s \in Runs \ {r} : runner'[s] = runner[s] /\ promise'[s] = promise[s]
        /\ UNCHANGED <<handler, rid>>
    BY <1>5 DEF NotifyRunnerId, TypeOK, VmOpen
  <2> QED  BY <2>1, IdsAssumption DEF ContractInv, VmOpen
<1>6. ASSUME NEW w \in Workers, NEW r \in Runs, StartRunner(w, r) \/ Erase(w, r)
      PROVE  ContractInv'
  BY ContractInvFrame, <1>6 DEF StartRunner, Erase, runVars, TypeOK, VmOpen
<1>7. ASSUME NEW r \in Runs,
             \/ FailVm(r) \/ Emplace(r) \/ BindFails(r) \/ Scripting(r)
             \/ FinishStatus(r) \/ Report(r)
      PROVE  ContractInv'
  BY ContractInvFrame, <1>7 DEF FailVm, Emplace, BindFails, Scripting, Load, LoadFails, ScriptEnds,
              FinishStatus, Report, CloseVm, runVars, TypeOK, VmOpen
<1>8. ASSUME NEW q \in Queries, ReceiveStatus(q) \/ Answering(q) \/ IndexNull(q)
      PROVE  ContractInv'
  BY ContractInvFrame, <1>8 DEF ReceiveStatus, Answering, FindNone, FindEntry, IndexEntry, ReadStatus,
              StartQuery, ReplyStatus, IndexNull, runVars, runnerVars
<1>9. ASSUME NEW r \in Runs, PythonCrash(r) \/ ScriptCrash(r) PROVE ContractInv'
  BY ContractInvFrame, <1>9 DEF PythonCrash, ScriptCrash, runVars, runnerVars
<1>10. CASE UNCHANGED vars
  BY ContractInvFrame, <1>10 DEF vars, runVars, runnerVars
<1> QED
  BY <1>1, <1>2, <1>3, <1>4, <1>5, <1>6, <1>7, <1>8, <1>9, <1>10
  DEF Next, Alive, Dies, Step, Handling, Launching, Finishing

LEMMA ContractInit == Init => Contract!Init
  BY DEF Init, Contract!Init, Accepted, RepliedId, ResultId, Reported

(* Steps that accept nothing and send nothing. *)
LEMMA ContractFrame ==
  ASSUME \A r \in Runs :
           /\ handler'[r] = "idle" <=> handler[r] = "idle"
           /\ handler'[r] = "done" <=> handler[r] = "done"
           /\ handler[r] = "done" => promise'[r] = promise[r]
           /\ runner'[r] \in Reported <=> runner[r] \in Reported
           /\ runner[r] \in Reported => rid'[r] = rid[r]
  PROVE  UNCHANGED Contract!vars
<1>1. Accepted' = Accepted
  BY DEF Accepted
<1>2. RepliedId' = RepliedId
  BY DEF RepliedId
<1>3. ResultId' = ResultId
  BY DEF ResultId
<1> QED  BY <1>1, <1>2, <1>3 DEF Contract!vars

LEMMA ContractStep ==
  TypeOK /\ PromiseInv /\ RegistryInv /\ ContractInv /\ [Next]_vars =>
    [Contract!Next]_(Contract!vars)
<1> SUFFICES ASSUME TypeOK, PromiseInv, RegistryInv, ContractInv, [Next]_vars
             PROVE  Contract!Next \/ UNCHANGED Contract!vars
  OBVIOUS
<1>1. ASSUME NEW r \in Runs, ReceiveRun(r) PROVE Contract!Next
  <2>1. /\ handler[r] = "idle" /\ handler'[r] = "queued"
        /\ \A s \in Runs \ {r} : handler'[s] = handler[s]
        /\ UNCHANGED <<promise, runner, rid>>
    BY <1>1 DEF ReceiveRun, runnerVars, TypeOK
  <2>2. r \notin Accepted /\ Accepted' = Accepted \cup {r}
    BY <2>1 DEF Accepted
  <2>3. RepliedId' = RepliedId
    BY <2>1 DEF RepliedId
  <2>4. ResultId' = ResultId
    BY <2>1 DEF ResultId
  <2> QED  BY <2>2, <2>3, <2>4 DEF Contract!Next, Contract!Accept
<1>2. ASSUME NEW w \in Workers, NEW r \in Runs, ReplyRun(w, r) PROVE Contract!Next
  <2>1. /\ handler[r] = "reply" /\ handler'[r] = "done"
        /\ \A s \in Runs \ {r} : handler'[s] = handler[s]
        /\ UNCHANGED <<promise, runner, rid>>
    BY <1>2 DEF ReplyRun, runnerVars, TypeOK
  <2>2. promise[r] \in Ids \cup {NoId}
    BY <2>1 DEF ContractInv, TypeOK
  <2>3. r \in Accepted /\ Accepted' = Accepted /\ RepliedId[r] = Unset
    BY <2>1 DEF Accepted, RepliedId
  <2>4. ResultId' = ResultId /\ RepliedId' = [RepliedId EXCEPT ![r] = promise[r]]
    BY <2>1 DEF ResultId, RepliedId
  <2>5. ResultId[r] \in {Unset, promise[r]}
    BY <2>2 DEF ResultId, ContractInv, Reported
  <2>6. ASSUME ResultId[r] = Unset, promise[r] \in Ids \ {PyMain}, NEW s \in Runs \ {r}
        PROVE  ~Contract!Pending(s, promise[r])
    <3>1. \A u \in Runs : promise[u] \in Ids /\ ResultId[u] = Unset =>
                           runner[u] \in VmOpen /\ promise[u] = rid[u]
      BY IdsAssumption DEF ContractInv, ResultId, Reported, RegistryInv, IdOwned
    <3>2. RepliedId[s] = promise[r] => promise[s] = promise[r]
      BY <2>6, IdsAssumption DEF RepliedId
    <3>3. ASSUME RepliedId[s] = promise[r], ResultId[s] = Unset PROVE FALSE
      <4>1. promise[s] = promise[r]
        BY <3>2, <3>3
      <4>2. /\ runner[r] \in VmOpen /\ runner[s] \in VmOpen
            /\ rid[r] = promise[r] /\ rid[s] = rid[r]
        BY <2>6, <3>1, <3>3, <4>1
      <4> QED  BY <2>6, <4>2 DEF ContractInv
    <3> QED  BY <3>3 DEF Contract!Pending
  <2> QED  BY <2>2, <2>3, <2>4, <2>5, <2>6 DEF Contract!Next, Contract!Reply
<1>3. ASSUME NEW r \in Runs, Report(r) PROVE Contract!Next
  <2>1. /\ runner[r] = "report" /\ runner'[r] = "close" /\ rid[r] \in Ids
        /\ \A s \in Runs \ {r} : runner'[s] = runner[s]
        /\ UNCHANGED <<handler, promise, rid>>
    BY <1>3 DEF Report, runVars, TypeOK, VmOpen
  <2>2. r \in Accepted /\ Accepted' = Accepted /\ RepliedId' = RepliedId
    BY <2>1 DEF Accepted, RepliedId, PromiseInv, NotSubmitted
  <2>3. ResultId[r] = Unset /\ ResultId' = [ResultId EXCEPT ![r] = rid[r]]
    BY <2>1 DEF ResultId, Reported
  <2>4. RepliedId[r] \in {Unset, rid[r]}
    BY <2>1 DEF RepliedId, ContractInv, TypeOK
  <2> QED  BY <2>1, <2>2, <2>3, <2>4 DEF Contract!Next, Contract!Result
<1>4. ASSUME NEW r \in Runs, SubmitRunner(r) \/ SkipRunner(r) \/ GetRunnerId(r)
      PROVE  UNCHANGED Contract!vars
  BY <1>4, ContractFrame
  DEF SubmitRunner, SkipRunner, GetRunnerId, runnerVars, TypeOK, PromiseInv, NotSubmitted,
      Reported
<1>5. ASSUME NEW w \in Workers, NEW r \in Runs,
             StartHandler(w, r) \/ StartRunner(w, r) \/ Refuse(w, r) \/ Erase(w, r)
      PROVE  UNCHANGED Contract!vars
  <2>1. CASE StartHandler(w, r)
    BY <2>1, ContractFrame DEF StartHandler, runnerVars, TypeOK
  <2>2. CASE StartRunner(w, r) \/ Erase(w, r)
    BY <2>2, ContractFrame DEF StartRunner, Erase, runVars, TypeOK, Reported
  <2>3. CASE Refuse(w, r)
    BY <2>3, ContractFrame DEF Refuse, TypeOK, Reported, PromiseInv, PromiseAlive
  <2> QED  BY <1>5, <2>1, <2>2, <2>3
<1>6. ASSUME NEW r \in Runs, CreateVm(r) \/ NotifyRunnerId(r) PROVE UNCHANGED Contract!vars
  BY <1>6, ContractFrame
  DEF CreateVm, NotifyRunnerId, runVars, TypeOK, Reported, PromiseInv, PromiseAlive
<1>7. ASSUME NEW r \in Runs,
             \/ FailVm(r) \/ Emplace(r) \/ BindFails(r) \/ Scripting(r)
             \/ FinishStatus(r)
      PROVE  UNCHANGED Contract!vars
  BY <1>7, ContractFrame
  DEF FailVm, Emplace, BindFails, Scripting, Load, LoadFails, ScriptEnds, FinishStatus,
      CloseVm, runVars, TypeOK, Reported
<1>8. ASSUME UNCHANGED <<runVars, runnerVars>> PROVE UNCHANGED Contract!vars
  BY <1>8, ContractFrame DEF runVars, runnerVars
<1>9. ASSUME NEW q \in Queries, ReceiveStatus(q) \/ Answering(q) \/ IndexNull(q)
      PROVE  UNCHANGED <<runVars, runnerVars>>
  BY <1>9 DEF ReceiveStatus, Answering, FindNone, FindEntry, IndexEntry, ReadStatus,
              StartQuery, ReplyStatus, IndexNull
<1>10. ASSUME NEW r \in Runs, PythonCrash(r) \/ ScriptCrash(r) PROVE UNCHANGED <<runVars, runnerVars>>
  BY <1>10 DEF PythonCrash, ScriptCrash
<1>11. ASSUME UNCHANGED vars PROVE UNCHANGED <<runVars, runnerVars>>
  BY <1>11 DEF vars
<1> QED
  BY <1>1, <1>2, <1>3, <1>4, <1>5, <1>6, <1>7, <1>8, <1>9, <1>10, <1>11
  DEF Next, Alive, Dies, Step, Handling, Launching, Finishing

(* The service keeps its contract with the clients: the packets of a run   *)
(* come once, carry one id, and no id is told twice while it is in use.    *)
THEOREM Refinement == Spec => ImplementsContract
<1>1. Init => RaceInv
  BY RaceInit
<1> QED
  BY <1>1, TypeInit, TypeStep, PromiseInit, PromiseStep, RegistryInit, RegistryStep, RaceStep,
     ContractInvInit, ContractInvStep, ContractInit, ContractStep, PTL
  DEF Spec, ImplementsContract, Contract!Spec

-----------------------------------------------------------------------------
(* The service and the pool. *)

(* A handler or a runner that goes on has been handed over before. *)
LEMMA HandlerSubmitted ==
  ASSUME TypeOK, NEW r \in Runs, handler[r] # "idle",
         NEW h, h # "idle", handler' = [handler EXCEPT ![r] = h], UNCHANGED <<runner, query>>
  PROVE  Submitted' = Submitted
<1>1. \A x \in Runs : handler'[x] # "idle" <=> handler[x] # "idle"
  BY DEF TypeOK
<1>2. {x \in Runs : handler'[x] # "idle"} = {x \in Runs : handler[x] # "idle"}
  BY <1>1
<1> QED  BY <1>2 DEF Submitted

LEMMA RunnerSubmitted ==
  ASSUME TypeOK, NEW r \in Runs, runner[r] # "none",
         NEW s, s # "none", runner' = [runner EXCEPT ![r] = s], UNCHANGED <<handler, query>>
  PROVE  Submitted' = Submitted
<1>1. \A x \in Runs : runner'[x] # "none" <=> runner[x] # "none"
  BY DEF TypeOK
<1>2. {x \in Runs : runner'[x] # "none"} = {x \in Runs : runner[x] # "none"}
  BY <1>1
<1> QED  BY <1>2 DEF Submitted

LEMMA QuerySubmitted ==
  ASSUME TypeOK, NEW q \in Queries, query[q] # "idle",
         NEW s, s # "idle", query' = [query EXCEPT ![q] = s], UNCHANGED <<handler, runner>>
  PROVE  Submitted' = Submitted
<1>1. \A x \in Queries : query'[x] # "idle" <=> query[x] # "idle"
  BY DEF TypeOK
<1>2. {x \in Queries : query'[x] # "idle"} = {x \in Queries : query[x] # "idle"}
  BY <1>1
<1> QED  BY <1>2 DEF Submitted

LEMMA StepUsesQueue == TypeOK /\ [Next]_vars => [Pool!Next]_(Pool!vars)
<1> SUFFICES ASSUME TypeOK, [Next]_vars PROVE [Pool!Next]_(Pool!vars)
  OBVIOUS
<1>1. ASSUME UNCHANGED poolVars, Submitted' = Submitted PROVE UNCHANGED Pool!vars
  BY <1>1 DEF poolVars, Pool!vars
<1>2. ASSUME UNCHANGED <<handler, runner, query>> PROVE Submitted' = Submitted
  BY <1>2 DEF Submitted
<1>3. ASSUME NEW r \in Runs, ReceiveRun(r) \/ SubmitRunner(r) PROVE \E t \in Jobs : Pool!Submit(t)
  BY <1>3, JobFacts DEF ReceiveRun, SubmitRunner
<1>4. ASSUME NEW r \in Runs, SkipRunner(r) \/ GetRunnerId(r) PROVE UNCHANGED Pool!vars
  <2>1. /\ handler[r] # "idle" /\ UNCHANGED <<poolVars, runner, query>>
        /\ \E h \in {"wait", "reply"} : handler' = [handler EXCEPT ![r] = h]
    BY <1>4 DEF SkipRunner, GetRunnerId, runnerVars, queryVars
  <2> QED  BY <2>1, <1>1, HandlerSubmitted
<1>5. ASSUME NEW r \in Runs,
             \/ CreateVm(r) \/ FailVm(r) \/ Emplace(r) \/ NotifyRunnerId(r) \/ BindFails(r)
             \/ Scripting(r)
             \/ FinishStatus(r) \/ Report(r)
      PROVE  UNCHANGED Pool!vars
  <2>1. /\ runner[r] # "none" /\ UNCHANGED <<poolVars, handler, query>>
        /\ \E s \in RunnerSteps \ {"none"} : runner' = [runner EXCEPT ![r] = s]
    BY <1>5 DEF CreateVm, FailVm, Emplace, NotifyRunnerId, BindFails, Scripting, Load, LoadFails,
                ScriptEnds, FinishStatus, Report, CloseVm, RunnerSteps, Framed, VmOpen,
                runVars, queryVars
  <2> QED  BY <2>1, <1>1, RunnerSubmitted
<1>6. ASSUME NEW q \in Queries, FindNone(q) \/ FindEntry(q) \/ IndexEntry(q) \/ ReadStatus(q)
      PROVE  UNCHANGED Pool!vars
  <2>1. /\ query[q] # "idle" /\ UNCHANGED <<poolVars, handler, runner>>
        /\ \E s \in {"index", "read", "reply"} : query' = [query EXCEPT ![q] = s]
    BY <1>6 DEF FindNone, FindEntry, IndexEntry, ReadStatus, runVars, runnerVars
  <2> QED  BY <2>1, <1>1, QuerySubmitted
<1>7. ASSUME NEW q \in Queries, ReceiveStatus(q) PROVE \E t \in Jobs : Pool!Submit(t)
  BY <1>7, JobFacts DEF ReceiveStatus
<1>8. ASSUME NEW w \in Workers, NEW r \in Runs,
             StartHandler(w, r) \/ ReplyRun(w, r) \/ StartRunner(w, r) \/ Refuse(w, r) \/ Erase(w, r)
      PROVE  Pool!Start(w) \/ Pool!Finish(w)
  BY <1>8 DEF StartHandler, ReplyRun, StartRunner, Refuse, Erase
<1>9. ASSUME NEW w \in Workers, NEW q \in Queries, StartQuery(w, q) \/ ReplyStatus(w, q)
      PROVE  Pool!Start(w) \/ Pool!Finish(w)
  BY <1>9 DEF StartQuery, ReplyStatus
<1>10. CASE Step
  <2>1. ASSUME NEW r \in Runs,
               ReceiveRun(r) \/ Handling(r) \/ Launching(r) \/ Scripting(r) \/ Finishing(r)
        PROVE  [Pool!Next]_(Pool!vars)
    BY <2>1, <1>3, <1>4, <1>5, <1>8 DEF Handling, Launching, Finishing, Pool!Next
  <2>2. ASSUME NEW q \in Queries, ReceiveStatus(q) \/ Answering(q)
        PROVE  [Pool!Next]_(Pool!vars)
    BY <2>2, <1>6, <1>7, <1>9 DEF Answering, Pool!Next
  <2> QED  BY <1>10, <2>1, <2>2 DEF Step
<1>11. ASSUME NEW q \in Queries, IndexNull(q) PROVE UNCHANGED Pool!vars
  BY <1>1, <1>2, <1>11 DEF IndexNull, runVars, runnerVars, queryVars
<1>12. ASSUME NEW r \in Runs, PythonCrash(r) \/ ScriptCrash(r) PROVE UNCHANGED Pool!vars
  BY <1>1, <1>2, <1>12 DEF PythonCrash, ScriptCrash, runVars, runnerVars, queryVars
<1>13. CASE UNCHANGED vars
  BY <1>1, <1>2, <1>13 DEF vars, runVars, runnerVars, queryVars
<1> QED  BY <1>10, <1>11, <1>12, <1>13 DEF Next, Alive, Dies

(* The task service uses the pool as WorkQueue describes it, although its  *)
(* handlers hand jobs over while they are executed by it (service.cc, the  *)
(* switch of Service::run): each handler and each runner is handed over    *)
(* once.                                                                   *)
THEOREM UsesQueue == Spec => Pool!Spec
<1>1. Init => Pool!Init
  BY DEF Init, Pool!Init, Submitted
<1> QED  BY <1>1, TypeInit, TypeStep, StepUsesQueue, PTL DEF Spec, Pool!Spec
=============================================================================
