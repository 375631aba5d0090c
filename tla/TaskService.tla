----------------------------- MODULE TaskService -----------------------------
(***************************************************************************)
(* The task service of src/core: the run and status handlers of main.cc,   *)
(* Service::run and Service::status, and the three runners (lua, python,   *)
(* javascript) of service.cc, from the packet to the end of the script.    *)
(*                                                                         *)
(* Handlers and runners are jobs of the one g_threadPool, taken here as    *)
(* the abstract queue WorkQueue, which ThreadPool is proved to implement.  *)
(* A run handler blocks its worker until the runner it has queued behind   *)
(* it sets a promise that lives in the handler's frame; the registry       *)
(* taskRunInfo maps a runner id, the address of its VM, to a record in the *)
(* runner's frame and is used by all workers without a lock.               *)
(*                                                                         *)
(* Each operation on the registry is one step: what two threads inside the *)
(* same unordered_map may do to its buckets is not modelled.               *)
(***************************************************************************)
EXTENDS Naturals, Sequences, FiniteSets

CONSTANTS
  Workers,    (* the threads of g_threadPool                               *)
  Runs,       (* the run packets clients send                              *)
  Queries,    (* the status packets clients send                           *)
  Addresses,  (* where luaL_newstate and JS_NewContext can put a VM        *)
  PyMain,     (* the address of the one module __main__                    *)
  Languages,  (* the language bytes that occur                             *)
  NoTask,     (* a worker without a job                                    *)
  Nop,        (* the pool's empty callable, never used here                *)
  NoId,       (* a runner without a VM; runner id 0 in the reply           *)
  Unset,      (* a promise without a value                                 *)
  Absent,     (* no entry in the registry                                  *)
  Null        (* an entry holding a null pointer                           *)

Ids == Addresses \cup {PyMain}
Known == {"lua", "python", "javascript"}

ASSUME LanguagesAssumption == Languages \subseteq Known \cup {"unknown"}

ASSUME IdsAssumption ==
  /\ PyMain \notin Addresses
  /\ NoId \notin Ids
  /\ Unset \notin Ids \cup {NoId}

ASSUME EntriesAssumption ==
  /\ Absent \notin Runs
  /\ Null \notin Runs
  /\ Absent # Null

Jobs == ({"handler", "runner"} \X Runs) \cup ({"query"} \X Queries)

ASSUME JobsAssumption == NoTask \notin Jobs

VARIABLES
  queue,        (* the pool: jobs handed over, oldest first                *)
  running,      (* the pool: the job of each worker                        *)
  handler,      (* how far the handler of each run packet is               *)
  lang,         (* the language each run packet asks for                   *)
  promise,      (* the promise in the handler's frame: Unset, 0 or the id  *)
  runner,       (* how far the runner of each run is                       *)
  rid,          (* the address of its VM                                   *)
  status,       (* runInfo.status in the runner's frame                    *)
  interp,       (* the Python interpreter: closed, open, or bound, with    *)
                (* the logger of a run in its module __main__              *)
  taskRunInfo,  (* runner id -> the run whose frame holds the record       *)
  query,        (* how far the handler of each status packet is            *)
  qid,          (* the id it asks about                                    *)
  entry,        (* the pointer operator[] returned to it                   *)
  answer,       (* what it answers                                         *)
  crashed       (* what the process has died of: none, query, python, script *)

poolVars == <<queue, running>>
runVars == <<handler, lang, promise>>
runnerVars == <<runner, rid, status, interp>>
queryVars == <<query, qid, entry, answer>>
vars == <<poolVars, runVars, runnerVars, taskRunInfo, queryVars, crashed>>

(* The pool as this component uses it; it is not destroyed here. *)
Submitted ==
  {<<"handler", r>> : r \in {x \in Runs : handler[x] # "idle"}}
  \cup {<<"runner", r>> : r \in {x \in Runs : runner[x] # "none"}}
  \cup {<<"query", q>> : q \in {x \in Queries : query[x] # "idle"}}

Pool == INSTANCE WorkQueue WITH
  Tasks <- Jobs, submitted <- Submitted, closed <- FALSE, retired <- {}

(* The steps of a runner, by what is alive in them. *)
VmOpen == {"emplace", "notify", "load", "call", "finish", "report", "close"}
Framed == VmOpen \cup {"create", "refuse", "erase"}
RunnerSteps == Framed \cup {"none", "queued", "done", "refused"}

(* Mutant: the VM is closed before the result packet is built. *)
OpenUntilReport ==
  {rid[r] : r \in {x \in Runs : runner[x] \in VmOpen \ {"report", "close"}}}

(* The addresses that are taken: the VM is open while its runner reports. *)
OpenVms == {rid[r] : r \in {x \in Runs : runner[x] \in VmOpen}}

Statuses == {"waiting", "running", "finished", "none"}

Init ==
  /\ queue = <<>>
  /\ running = [w \in Workers |-> NoTask]
  /\ handler = [r \in Runs |-> "idle"]
  /\ lang = [r \in Runs |-> "unknown"]
  /\ promise = [r \in Runs |-> Unset]
  /\ runner = [r \in Runs |-> "none"]
  /\ rid = [r \in Runs |-> NoId]
  /\ status = [r \in Runs |-> "waiting"]
  /\ interp = "closed"
  /\ taskRunInfo = [i \in Ids |-> Absent]
  /\ query = [q \in Queries |-> "idle"]
  /\ qid = [q \in Queries |-> NoId]
  /\ entry = [q \in Queries |-> Absent]
  /\ answer = [q \in Queries |-> Unset]
  /\ crashed = "none"

-----------------------------------------------------------------------------
(* The handler of a run packet. *)

(* A handshaked client's run packet arrives: dataHandler is queued. *)
ReceiveRun(r) ==
  /\ handler[r] = "idle"
  /\ \E l \in Languages : lang' = [lang EXCEPT ![r] = l]
  /\ handler' = [handler EXCEPT ![r] = "queued"]
  /\ UNCHANGED <<promise, runnerVars, taskRunInfo, queryVars>>
  /\ Pool!Submit(<<"handler", r>>)

StartHandler(w, r) ==
  /\ handler[r] = "queued"
  /\ queue # <<>> /\ Head(queue) = <<"handler", r>>
  /\ handler' = [handler EXCEPT ![r] = "submit"]
  /\ UNCHANGED <<lang, promise, runnerVars, taskRunInfo, queryVars>>
  /\ Pool!Start(w)

(* Service::run queues the runner of the language. *)
SubmitRunner(r) ==
  /\ handler[r] = "submit"
  /\ lang[r] \in Known
  /\ handler' = [handler EXCEPT ![r] = "wait"]
  /\ runner' = [runner EXCEPT ![r] = "queued"]
  /\ UNCHANGED <<lang, promise, rid, status, interp, taskRunInfo, queryVars>>
  /\ Pool!Submit(<<"runner", r>>)

(* The switch of Service::run has no default: no runner is queued for a    *)
(* language byte it does not know, and the promise is waited for anyway.   *)
SkipRunner(r) ==
  /\ handler[r] = "submit"
  /\ lang[r] \notin Known
  /\ handler' = [handler EXCEPT ![r] = "wait"]
  /\ UNCHANGED <<poolVars, lang, promise, runnerVars, taskRunInfo, queryVars>>

(* Mutant: wait_for() with a timeout in place of get(). *)
GetOrTimeOut(r) ==
  /\ handler[r] = "wait"
  /\ handler' = [handler EXCEPT ![r] = "reply"]
  /\ UNCHANGED <<poolVars, lang, promise, runnerVars, taskRunInfo, queryVars>>

(* get() returns; the promise goes out of scope with Service::run. *)
GetRunnerId(r) ==
  /\ handler[r] = "wait"
  /\ promise[r] # Unset
  /\ handler' = [handler EXCEPT ![r] = "reply"]
  /\ UNCHANGED <<poolVars, lang, promise, runnerVars, taskRunInfo, queryVars>>

(* backward(): the reply packet; the handler returns. *)
ReplyRun(w, r) ==
  /\ handler[r] = "reply"
  /\ running[w] = <<"handler", r>>
  /\ handler' = [handler EXCEPT ![r] = "done"]
  /\ UNCHANGED <<lang, promise, runnerVars, taskRunInfo, queryVars>>
  /\ Pool!Finish(w)

-----------------------------------------------------------------------------
(* The runner. *)

StartRunner(w, r) ==
  /\ runner[r] = "queued"
  /\ queue # <<>> /\ Head(queue) = <<"runner", r>>
  /\ runner' = [runner EXCEPT ![r] = "create"]
  /\ UNCHANGED <<runVars, rid, status, interp, taskRunInfo, queryVars>>
  /\ Pool!Start(w)

(* Does nothing if the interpreter is initialized already. *)
Py_Initialize(r) ==
  interp' = IF lang[r] = "python" /\ interp = "closed" THEN "open" ELSE interp

(* Mutant: the null check is gone. *)
CreateUnchecked(r) ==
  /\ runner[r] = "create"
  /\ \E i \in {NoId} \cup (Addresses \ OpenVms) : rid' = [rid EXCEPT ![r] = i]
  /\ Py_Initialize(r)
  /\ runner' = [runner EXCEPT ![r] = "emplace"]
  /\ UNCHANGED <<poolVars, runVars, status, taskRunInfo, queryVars>>

(* luaL_newstate, JS_NewRuntime and JS_NewContext: an address no open VM   *)
(* has; __main__ is the same module for all Python runners.                *)
CreateVm(r) ==
  /\ runner[r] = "create"
  /\ \E i \in IF lang[r] = "python" THEN {PyMain} ELSE Addresses \ OpenVms :
       rid' = [rid EXCEPT ![r] = i]
  /\ Py_Initialize(r)
  /\ runner' = [runner EXCEPT ![r] = "emplace"]
  /\ UNCHANGED <<poolVars, runVars, status, taskRunInfo, queryVars>>

(* The creation fails.  Py_Initialize() has been called by then. *)
FailVm(r) ==
  /\ runner[r] = "create"
  /\ Py_Initialize(r)
  /\ runner' = [runner EXCEPT ![r] = "refuse"]
  /\ UNCHANGED <<poolVars, runVars, rid, status, taskRunInfo, queryVars>>

(* Mutant: the failure path returns without set_value(0). *)
RefuseSilently(w, r) ==
  /\ runner[r] = "refuse"
  /\ running[w] = <<"runner", r>>
  /\ runner' = [runner EXCEPT ![r] = "refused"]
  /\ UNCHANGED <<runVars, rid, status, interp, taskRunInfo, queryVars>>
  /\ Pool!Finish(w)

(* set_value(0) and return, before the finally block is constructed. *)
Refuse(w, r) ==
  /\ runner[r] = "refuse"
  /\ running[w] = <<"runner", r>>
  /\ promise' = [promise EXCEPT ![r] = NoId]
  /\ runner' = [runner EXCEPT ![r] = "refused"]
  /\ UNCHANGED <<handler, lang, rid, status, interp, taskRunInfo, queryVars>>
  /\ Pool!Finish(w)

(* emplace() does nothing if the key is there. *)
Emplace(r) ==
  /\ runner[r] = "emplace"
  /\ taskRunInfo' = IF taskRunInfo[rid[r]] = Absent
                    THEN [taskRunInfo EXCEPT ![rid[r]] = r]
                    ELSE taskRunInfo
  /\ runner' = [runner EXCEPT ![r] = "notify"]
  /\ UNCHANGED <<poolVars, runVars, rid, status, interp, queryVars>>

(* The modules are bound, and runnerId->set_value() is called. *)
NotifyRunnerId(r) ==
  /\ runner[r] = "notify"
  /\ lang[r] = "python" => interp # "bound"
  /\ interp' = IF lang[r] = "python" /\ interp = "open" THEN "bound" ELSE interp
  /\ promise' = [promise EXCEPT ![r] = rid[r]]
  /\ runner' = [runner EXCEPT ![r] = "load"]
  /\ UNCHANGED <<poolVars, handler, lang, rid, status, taskRunInfo, queryVars>>

(* A Python module in which another run's logger is bound refuses a second *)
(* one: the exception ends the runner, by way of its finally block, in the *)
(* packaged_task, whose future nobody looks at.                            *)
BindFails(r) ==
  /\ runner[r] = "notify"
  /\ lang[r] = "python" /\ interp = "bound"
  /\ runner' = [runner EXCEPT ![r] = "finish"]
  /\ UNCHANGED <<poolVars, runVars, rid, status, interp, taskRunInfo, queryVars>>

(* The script is loaded, which executes it, and the status says so ...     *)
Load(r) ==
  /\ runner[r] = "load"
  /\ status' = [status EXCEPT ![r] = "running"]
  /\ runner' = [runner EXCEPT ![r] = "call"]
  /\ UNCHANGED <<poolVars, runVars, rid, interp, taskRunInfo, queryVars>>

(* ... or it fails to load, and the finally block runs. *)
LoadFails(r) ==
  /\ runner[r] = "load"
  /\ runner' = [runner EXCEPT ![r] = "finish"]
  /\ UNCHANGED <<poolVars, runVars, rid, status, interp, taskRunInfo, queryVars>>

(* setTaskPassport and the methods, to the end of the script. *)
ScriptEnds(r) ==
  /\ runner[r] = "call"
  /\ runner' = [runner EXCEPT ![r] = "finish"]
  /\ UNCHANGED <<poolVars, runVars, rid, status, interp, taskRunInfo, queryVars>>

(* Mutant: the entry is erased first. *)
FinishErasing(r) ==
  /\ runner[r] = "finish"
  /\ status' = [status EXCEPT ![r] = "finished"]
  /\ taskRunInfo' = [taskRunInfo EXCEPT ![rid[r]] = Absent]
  /\ runner' = [runner EXCEPT ![r] = "report"]
  /\ UNCHANGED <<poolVars, runVars, rid, interp, queryVars>>

(* The finally block: status, result packet, VM, registry, in this order. *)
FinishStatus(r) ==
  /\ runner[r] = "finish"
  /\ status' = [status EXCEPT ![r] = "finished"]
  /\ runner' = [runner EXCEPT ![r] = "report"]
  /\ UNCHANGED <<poolVars, runVars, rid, interp, taskRunInfo, queryVars>>

(* backward(): the result packet. *)
Report(r) ==
  /\ runner[r] = "report"
  /\ runner' = [runner EXCEPT ![r] = "close"]
  /\ UNCHANGED <<poolVars, runVars, rid, status, interp, taskRunInfo, queryVars>>

(* lua_close, JS_FreeContext and JS_FreeRuntime, or Py_Finalize, which     *)
(* execute what the script has left behind (finalizers, atexit functions): *)
(* from here on another runner can be given the address.                   *)
CloseVm(r) ==
  /\ runner[r] = "close"
  /\ interp' = IF lang[r] = "python" THEN "closed" ELSE interp
  /\ runner' = [runner EXCEPT ![r] = "erase"]
  /\ UNCHANGED <<poolVars, runVars, rid, status, taskRunInfo, queryVars>>

(* Mutant: the entry stays. *)
EraseForgotten(w, r) ==
  /\ runner[r] = "erase"
  /\ running[w] = <<"runner", r>>
  /\ runner' = [runner EXCEPT ![r] = "done"]
  /\ UNCHANGED <<runVars, rid, status, interp, taskRunInfo, queryVars>>
  /\ Pool!Finish(w)

Erase(w, r) ==
  /\ runner[r] = "erase"
  /\ running[w] = <<"runner", r>>
  /\ taskRunInfo' = [taskRunInfo EXCEPT ![rid[r]] = Absent]
  /\ runner' = [runner EXCEPT ![r] = "done"]
  /\ UNCHANGED <<runVars, rid, status, interp, queryVars>>
  /\ Pool!Finish(w)

-----------------------------------------------------------------------------
(* The handler of a status packet. *)

ReceiveStatus(q) ==
  /\ query[q] = "idle"
  /\ \E i \in Ids : qid' = [qid EXCEPT ![q] = i]
  /\ query' = [query EXCEPT ![q] = "queued"]
  /\ UNCHANGED <<runVars, runnerVars, taskRunInfo, entry, answer>>
  /\ Pool!Submit(<<"query", q>>)

StartQuery(w, q) ==
  /\ query[q] = "queued"
  /\ queue # <<>> /\ Head(queue) = <<"query", q>>
  /\ query' = [query EXCEPT ![q] = "contains"]
  /\ UNCHANGED <<runVars, runnerVars, taskRunInfo, qid, entry, answer>>
  /\ Pool!Start(w)

(* Mutant: status waits for the id to be registered. *)
FindLater(q) ==
  /\ query[q] = "contains"
  /\ taskRunInfo[qid[q]] = Absent
  /\ UNCHANGED <<poolVars, runVars, runnerVars, taskRunInfo, queryVars>>

(* contains(): an id that is not registered is answered with none. *)
FindNone(q) ==
  /\ query[q] = "contains"
  /\ taskRunInfo[qid[q]] = Absent
  /\ answer' = [answer EXCEPT ![q] = "none"]
  /\ query' = [query EXCEPT ![q] = "reply"]
  /\ UNCHANGED <<poolVars, runVars, runnerVars, taskRunInfo, qid, entry>>

(* Mutant: no contains() before operator[]. *)
FindUnchecked(q) ==
  /\ query[q] = "contains"
  /\ query' = [query EXCEPT ![q] = "index"]
  /\ UNCHANGED <<poolVars, runVars, runnerVars, taskRunInfo, qid, entry, answer>>

FindEntry(q) ==
  /\ query[q] = "contains"
  /\ taskRunInfo[qid[q]] # Absent
  /\ query' = [query EXCEPT ![q] = "index"]
  /\ UNCHANGED <<poolVars, runVars, runnerVars, taskRunInfo, qid, entry, answer>>

(* operator[] finds the entry ... *)
IndexEntry(q) ==
  /\ query[q] = "index"
  /\ taskRunInfo[qid[q]] \in Runs
  /\ entry' = [entry EXCEPT ![q] = taskRunInfo[qid[q]]]
  /\ query' = [query EXCEPT ![q] = "read"]
  /\ UNCHANGED <<poolVars, runVars, runnerVars, taskRunInfo, qid, answer>>

(* ... or, erased since contains(), it inserts a null pointer, and         *)
(* reading the status through it ends the process.                         *)
IndexNull(q) ==
  /\ query[q] = "index"
  /\ taskRunInfo[qid[q]] = Absent
  /\ taskRunInfo' = [taskRunInfo EXCEPT ![qid[q]] = Null]
  /\ UNCHANGED <<poolVars, runVars, runnerVars, queryVars>>

(* ->status: the record, if the frame is still there, else what has become *)
(* of that memory.                                                         *)
ReadStatus(q) ==
  /\ query[q] = "read"
  /\ \E s \in Statuses :
       /\ runner[entry[q]] \in Framed => s = status[entry[q]]
       /\ answer' = [answer EXCEPT ![q] = s]
  /\ query' = [query EXCEPT ![q] = "reply"]
  /\ UNCHANGED <<poolVars, runVars, runnerVars, taskRunInfo, qid, entry>>

ReplyStatus(w, q) ==
  /\ query[q] = "reply"
  /\ running[w] = <<"query", q>>
  /\ query' = [query EXCEPT ![q] = "done"]
  /\ UNCHANGED <<runVars, runnerVars, taskRunInfo, qid, entry, answer>>
  /\ Pool!Finish(w)

-----------------------------------------------------------------------------
(* No runner takes the GIL, and the first to end finalizes the interpreter *)
(* for all: a runner that uses it while another does, or after that, may   *)
(* take the process down.                                                  *)
UsesPython(r) ==
  lang[r] = "python" /\ runner[r] \in {"emplace", "notify", "load", "call", "close"}

PythonCrash(r) ==
  /\ UsesPython(r)
  /\ interp = "closed" \/ \E s \in Runs \ {r} : UsesPython(s)
  /\ UNCHANGED <<poolVars, runVars, runnerVars, taskRunInfo, queryVars>>

(* A script is not confined: in any language it can end the process, by    *)
(* os.exit and the like, by an error where no protected call is around     *)
(* (lua_getglobal, line 78), or by a message of a task that is null        *)
(* (main.cc, line 17); what it leaves behind still can in CloseVm.         *)
Executes(r) == runner[r] \in {"load", "call", "close"}

ScriptCrash(r) ==
  /\ Executes(r)
  /\ UNCHANGED <<poolVars, runVars, runnerVars, taskRunInfo, queryVars>>

Handling(r) ==
  \/ SubmitRunner(r) \/ SkipRunner(r) \/ GetRunnerId(r)
  \/ \E w \in Workers : StartHandler(w, r) \/ ReplyRun(w, r)

Launching(r) ==
  \/ \E w \in Workers : StartRunner(w, r) \/ Refuse(w, r)
  \/ CreateVm(r) \/ FailVm(r) \/ Emplace(r) \/ NotifyRunnerId(r) \/ BindFails(r)

(* What the script does, which may take for ever. *)
Scripting(r) == Load(r) \/ LoadFails(r) \/ ScriptEnds(r) \/ CloseVm(r)

Finishing(r) ==
  \/ FinishStatus(r) \/ Report(r)
  \/ \E w \in Workers : Erase(w, r)

Answering(q) ==
  \/ FindNone(q) \/ FindEntry(q) \/ IndexEntry(q) \/ ReadStatus(q)
  \/ \E w \in Workers : StartQuery(w, q) \/ ReplyStatus(w, q)

Step ==
  \/ \E r \in Runs :
       ReceiveRun(r) \/ Handling(r) \/ Launching(r) \/ Scripting(r) \/ Finishing(r)
  \/ \E q \in Queries : ReceiveStatus(q) \/ Answering(q)

(* Nothing runs in a process that has died. *)
Alive(A) == crashed = "none" /\ A /\ UNCHANGED crashed
Dies(A, cause) == crashed = "none" /\ A /\ crashed' = cause

Next ==
  \/ Alive(Step)
  \/ \E q \in Queries : Dies(IndexNull(q), "query")
  \/ \E r \in Runs : Dies(PythonCrash(r), "python") \/ Dies(ScriptCrash(r), "script")

Spec == Init /\ [][Next]_vars

(* The threads keep running, as long as the process lives.  Neither are    *)
(* clients assumed to send packets nor scripts to load, to end or to let   *)
(* go of their VM.                                                         *)
Fairness ==
  /\ \A r \in Runs :
       /\ WF_vars(Alive(Handling(r)))
       /\ WF_vars(Alive(Launching(r)))
       /\ WF_vars(Alive(Finishing(r)))
  /\ \A q \in Queries : WF_vars(Alive(Answering(q)) \/ Dies(IndexNull(q), "query"))

FairSpec == Spec /\ Fairness

-----------------------------------------------------------------------------
(* Every variable has its type. *)
TypeOK ==
  /\ queue \in Seq(Jobs)
  /\ running \in [Workers -> Jobs \cup {NoTask}]
  /\ handler \in [Runs -> {"idle", "queued", "submit", "wait", "reply", "done"}]
  /\ lang \in [Runs -> Known \cup {"unknown"}]
  /\ promise \in [Runs -> Ids \cup {NoId, Unset}]
  /\ runner \in [Runs -> RunnerSteps]
  /\ rid \in [Runs -> Ids \cup {NoId}]
  /\ \A r \in Runs : runner[r] \in VmOpen \cup {"erase"} => rid[r] \in Ids
  /\ status \in [Runs -> Statuses]
  /\ interp \in {"closed", "open", "bound"}
  /\ taskRunInfo \in [Ids -> Runs \cup {Absent, Null}]
  /\ query \in [Queries -> {"idle", "queued", "contains", "index", "read", "reply", "done"}]
  /\ qid \in [Queries -> Ids \cup {NoId}]
  /\ \A q \in Queries : query[q] # "idle" => qid[q] \in Ids
  /\ entry \in [Queries -> Runs \cup {Absent}]
  /\ \A q \in Queries : query[q] = "read" => entry[q] \in Runs
  /\ answer \in [Queries -> Statuses \cup {Unset}]
  /\ crashed \in {"none", "query", "python", "script"}

(* The registry never dangles: an entry points into the frame of a runner  *)
(* that has not returned and that used this id, even though VM addresses   *)
(* are reused before the entry of the previous user is erased.             *)
RegistryPointsToLive ==
  \A i \in Ids :
    taskRunInfo[i] \in Runs =>
      /\ runner[taskRunInfo[i]] \in (VmOpen \cup {"erase"}) \ {"emplace"}
      /\ rid[taskRunInfo[i]] = i

(* A runner that has announced its id is registered under it, so that      *)
(* status finds it, unless another runner has had the same address: then   *)
(* the other's late erase, or its entry that was still there, hides it.    *)
RegisteredUnlessReused ==
  \A r \in Runs :
    runner[r] \in VmOpen \ {"emplace"} =>
      \/ taskRunInfo[rid[r]] = r
      \/ \E s \in Runs \ {r} : rid[s] = rid[r] /\ runner[s] # "emplace"

(* The promise is a local of the handler and the runner has a pointer to   *)
(* it: until the runner has set it, the handler is still waiting.          *)
PromiseAlive ==
  \A r \in Runs :
    runner[r] \in {"queued", "create", "refuse", "emplace", "notify"} =>
      handler[r] = "wait" /\ promise[r] = Unset

(* Another Python run than r has been given the module __main__, too. *)
PythonMet(r) == rid[r] = PyMain /\ \E s \in Runs \ {r} : rid[s] = PyMain

(* A handler that waits is waited for by somebody: its runner is queued or *)
(* has a worker and has still to set the promise.  Only a language byte    *)
(* the service does not know and a Python run that meets another one leave *)
(* a handler waiting for nobody.                                           *)
WaitHasProducer ==
  \A r \in Runs :
    handler[r] = "wait" /\ promise[r] = Unset /\ lang[r] \in Known =>
      \/ runner[r] = "queued" /\ \E i \in DOMAIN queue : queue[i] = <<"runner", r>>
      \/ /\ runner[r] \in {"create", "refuse", "emplace", "notify"}
         /\ \E w \in Workers : running[w] = <<"runner", r>>
      \/ PythonMet(r)

(* A script may take the process down at any time.  What the service       *)
(* itself does kills it by a race only: a status query must have lost the  *)
(* race with the end of a run it asks about, or two Python runners must    *)
(* have been active; no single query and no lone run of a script that      *)
(* behaves is enough.                                                      *)
CrashNeedsRace ==
  /\ crashed = "query" =>
       \E q \in Queries, r \in Runs :
         query[q] = "index" /\ rid[r] = qid[q] /\ runner[r] = "done"
  /\ crashed = "python" =>
       \E r, s \in Runs : r # s /\ rid[r] = PyMain /\ rid[s] = PyMain

(* A Python runner that is the only one so far runs in an interpreter that *)
(* is initialized, from the creation of its module to Py_Finalize.         *)
PythonOpen ==
  \A r \in Runs :
    UsesPython(r) /\ interp = "closed" => \E s \in Runs \ {r} : rid[s] = PyMain

(* Every run of a known language is answered, whether or not any script    *)
(* ever ends, if there is a worker for each run and one more, and one more *)
(* for each Python run whose binding failed; or it is a Python run that    *)
(* has met another, or the process died.                                   *)
RunAnswered ==
  \A r \in Runs :
    handler[r] # "idle" /\ lang[r] \in Known ~>
      handler[r] = "done" \/ PythonMet(r) \/ crashed # "none"

(* Every worker is held: by a handler that waits or by what a script does. *)
AllHeld ==
  \A w \in Workers : \E r \in Runs :
    \/ running[w] = <<"handler", r>> /\ handler[r] = "wait" /\ promise[r] = Unset
    \/ running[w] = <<"runner", r>> /\ Executes(r)

(* Every status packet is answered, unless all workers are held for ever,  *)
(* which takes two for one run: its handler, that waits for nobody, and    *)
(* its runner, that executes what another script left behind.              *)
StatusAnswered ==
  \A q \in Queries :
    query[q] # "idle" ~> query[q] = "done" \/ crashed # "none" \/ []AllHeld

(* The packets a run has caused. *)
Reported == {"close", "erase", "done"}
Accepted == {r \in Runs : handler[r] # "idle"}
RepliedId == [r \in Runs |-> IF handler[r] = "done" THEN promise[r] ELSE Unset]
ResultId == [r \in Runs |-> IF runner[r] \in Reported THEN rid[r] ELSE Unset]

Contract == INSTANCE RunContract WITH
  SharedId <- PyMain, Silent <- Unset,
  accepted <- Accepted, reply <- RepliedId, result <- ResultId

(* The packets a run causes, as its client sees them: one reply, and one   *)
(* result unless the reply was 0, both with the id of the runner and in    *)
(* either order; and however VM addresses are reused, nobody is told the   *)
(* id of another client's run that is still to be reported.                *)
ImplementsContract == Contract!Spec
=============================================================================
