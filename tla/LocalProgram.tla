---------------------------- MODULE LocalProgram ----------------------------
(***************************************************************************)
(* The program `local` of src/local: main() hands one script to the thread *)
(* pool, waits for its runner id, waits until the registry is empty and    *)
(* returns, whereupon the static g_threadPool is destroyed.  The runner    *)
(* that main() has waited for is at that time still on its way back to the *)
(* worker's loop, so the end of the script races with ~ThreadPool().       *)
(* A script that ends the process itself, by os.exit or a crash, is not in *)
(* the module: it ends both at once.                                       *)
(***************************************************************************)
EXTENDS Naturals, Sequences, FiniteSets

CONSTANTS
  Workers,   (* the threads of g_threadPool                                *)
  Runner,    (* the one callable: lua, python or javascript                *)
  Nop, NoTask, NoOwner

(* hardware_concurrency() + 3 workers: a finite set with at least one. *)
ASSUME WorkersAssumption ==
  /\ IsFiniteSet(Workers)
  /\ Workers # {}
  /\ NoOwner \notin Workers

(* The runner is a callable, not the empty one of the destructor. *)
ASSUME RunnerAssumption ==
  /\ Nop # Runner
  /\ NoTask \notin {Runner, Nop}

VARIABLES
  m_tasks, m_started, m_takeMutex, pc, task, caller, dtor, fill,  (* g_threadPool *)
  main,         (* how far main() is                                       *)
  body,         (* how far the runner is                                   *)
  promise,      (* runnerId in the frame of Service::run                   *)
  taskRunInfo   (* the runners that are registered                         *)

poolVars == <<m_tasks, m_started, m_takeMutex, pc, task, caller, dtor, fill>>
programVars == <<main, body, promise, taskRunInfo>>
vars == <<poolVars, programVars>>

Pool == INSTANCE ThreadPool WITH Tasks <- {Runner}

Init ==
  /\ Pool!Init
  /\ main = "start"
  /\ body = "none"
  /\ promise = "unset"
  /\ taskRunInfo = {}

-----------------------------------------------------------------------------
(* Wrong arguments, --help, a script that cannot be read: exit(). *)
Quit ==
  /\ main = "start"
  /\ main' = "exit"
  /\ UNCHANGED <<poolVars, body, promise, taskRunInfo>>

(* Service::run hands the runner over ... *)
Submit ==
  /\ main = "start"
  /\ Pool!AddRunable(Runner)
  /\ main' = "submit"
  /\ UNCHANGED <<body, promise, taskRunInfo>>

(* ... addRunable notifies and returns, and the promise is waited for. *)
Notify ==
  /\ main = "submit"
  /\ Pool!NotifyTaken(Runner)
  /\ main' = "wait"
  /\ UNCHANGED <<body, promise, taskRunInfo>>

GetRunnerId ==
  /\ main = "wait"
  /\ promise # "unset"
  /\ main' = "join"
  /\ UNCHANGED <<poolVars, body, promise, taskRunInfo>>

(* Mutant: main() does not join. *)
JoinForgotten ==
  /\ main = "join"
  /\ main' = "exit"
  /\ UNCHANGED <<poolVars, body, promise, taskRunInfo>>

(* Service::join polls the registry; main() returns 0. *)
Join ==
  /\ main = "join"
  /\ taskRunInfo = {}
  /\ main' = "exit"
  /\ UNCHANGED <<poolVars, body, promise, taskRunInfo>>

(* The static objects are destroyed, the pool among them. *)
Destroy ==
  /\ main = "exit"
  /\ Pool!Destroy
  /\ UNCHANGED programVars

(* Mutant: the destructor detaches the workers. *)
EndDetached ==
  /\ main = "exit"
  /\ dtor = "join"
  /\ main' = "ended"
  /\ UNCHANGED <<poolVars, body, promise, taskRunInfo>>

(* The pool is gone: the process ends. *)
End ==
  /\ main = "exit"
  /\ dtor = "gone"
  /\ main' = "ended"
  /\ UNCHANGED <<poolVars, body, promise, taskRunInfo>>

Main == Quit \/ Submit \/ Notify \/ GetRunnerId \/ Join \/ Destroy \/ End

-----------------------------------------------------------------------------
(* A worker outside the callable. *)
Loop(w) ==
  \/ /\ Pool!Test(w) \/ Pool!Peek(w) \/ Pool!Lock(w) \/ Pool!FindEmpty(w) \/ Pool!Sleep(w)
     /\ UNCHANGED programVars
  \/ /\ Pool!Take(w)
     /\ body' = IF Head(m_tasks) = Runner THEN "create" ELSE body
     /\ UNCHANGED <<main, promise, taskRunInfo>>
  \/ /\ Pool!Finish(w)
     /\ task[w] = Runner => body = "return"
     /\ body' = IF task[w] = Runner THEN "done" ELSE body
     /\ UNCHANGED <<main, promise, taskRunInfo>>

(* The VM is created and registered ... *)
Register ==
  /\ body = "create"
  /\ body' = "notify"
  /\ taskRunInfo' = {Runner}
  /\ UNCHANGED <<poolVars, main, promise>>

(* Mutant: the failure path returns without set_value(0). *)
RefuseSilently ==
  /\ body = "create"
  /\ body' = "return"
  /\ UNCHANGED <<poolVars, main, promise, taskRunInfo>>

(* ... or it cannot be created: set_value(0) and return. *)
Refuse ==
  /\ body = "create"
  /\ promise' = "zero"
  /\ body' = "return"
  /\ UNCHANGED <<poolVars, main, taskRunInfo>>

NotifyRunnerId ==
  /\ body = "notify"
  /\ promise' = "id"
  /\ body' = "script"
  /\ UNCHANGED <<poolVars, main, taskRunInfo>>

(* The script is loaded and its methods called, or fails. *)
Script ==
  /\ body = "script"
  /\ body' = "erase"
  /\ UNCHANGED <<poolVars, main, promise, taskRunInfo>>

(* The finally block closes the VM and erases the registry's entry. *)
Unregister ==
  /\ body = "erase"
  /\ taskRunInfo' = {}
  /\ body' = "return"
  /\ UNCHANGED <<poolVars, main, promise>>

Body == Register \/ Refuse \/ NotifyRunnerId \/ Script \/ Unregister

(* Nothing runs after the end of the process. *)
Next ==
  /\ main # "ended"
  /\ \/ Main
     \/ \E w \in Workers : Loop(w)
     \/ \E w \in Workers : Pool!SpuriousWakeup(w) /\ UNCHANGED programVars
     \/ Body

Spec == Init /\ [][Next]_vars

(* main() and the workers keep running and the script ends; a wakeup that  *)
(* nobody sends may never come.                                            *)
FairSpec ==
  /\ Spec
  /\ WF_vars(Main)
  /\ WF_vars(Body)
  /\ \A w \in Workers : WF_vars(Loop(w))

-----------------------------------------------------------------------------
(* The destructor drops what is queued; main() never lets it come to that  *)
(* with the script, nor does it return while the script's VM is open.      *)
ScriptNotAbandoned ==
  main \in {"exit", "ended"} /\ caller[Runner] # "out" =>
    /\ body \in {"return", "done"}
    /\ \A i \in DOMAIN m_tasks : m_tasks[i] # Runner

(* A process that main() ends has executed its script to the end of the    *)
(* callable.                                                               *)
EndsAfterScript ==
  main = "ended" /\ caller[Runner] # "out" => body = "done"

(* main() gets its runner id and sees the script's end. *)
MainReturns == main = "start" ~> main = "exit"

(* The process ends after it has run its script, as tests/start.lua expects *)
(* of every `local` it starts: it waits for one before it starts the next.  *)
LocalExits == main = "join" ~> main = "ended"
=============================================================================
