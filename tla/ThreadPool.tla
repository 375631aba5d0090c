------------------------------ MODULE ThreadPool ------------------------------
(***************************************************************************)
(* The thread pool of modules/ThreadPool.h: a deque of callables guarded   *)
(* by m_takeMutex, a condition variable, and a fixed vector of workers.    *)
(* Every packet the service accepts and every script it runs goes through  *)
(* the one instance g_threadPool.                                          *)
(*                                                                         *)
(* The condition variable is its wait set (the workers whose pc is         *)
(* "asleep").  condition_variable::wait evaluates its predicate with the   *)
(* mutex held and only then releases it and sleeps, so the two are         *)
(* separate steps here: ~ThreadPool() appends and notifies without the     *)
(* mutex and can run between them.                                         *)
(***************************************************************************)
EXTENDS Naturals, Sequences, FiniteSets

CONSTANTS
  Workers,   (* the threads of m_workers                                   *)
  Tasks,     (* the callables handed to addRunable, each of them once      *)
  Nop,       (* the empty callable the destructor appends                  *)
  NoTask,    (* a worker holding no callable                               *)
  NoOwner    (* m_takeMutex is free                                        *)

(* hardware_concurrency() + 3 workers: a finite set with at least one. *)
ASSUME WorkersAssumption ==
  /\ IsFiniteSet(Workers)
  /\ Workers # {}
  /\ NoOwner \notin Workers

ASSUME TasksAssumption ==
  /\ Nop \notin Tasks
  /\ NoTask \notin Tasks \cup {Nop}

VARIABLES
  m_tasks,      (* the deque of callables                                  *)
  m_started,    (* cleared by the destructor                               *)
  m_takeMutex,  (* the worker that holds the mutex, or NoOwner             *)
  pc,           (* where each worker is in its loop                        *)
  task,         (* the callable a worker is executing                      *)
  caller,       (* how far the addRunable call of each task is             *)
  dtor,         (* how far ~ThreadPool() is                                *)
  fill          (* the counter i of the destructor's loop                  *)

vars == <<m_tasks, m_started, m_takeMutex, pc, task, caller, dtor, fill>>

Items == Tasks \cup {Nop}

WorkerPC ==
  {"loop", "peek", "lock", "check", "block", "asleep", "woken", "run", "exited"}

Asleep == {w \in Workers : pc[w] = "asleep"}

(* The workers that evaluate the wait predicate again before they sleep. *)
Heading == {w \in Workers : pc[w] \in {"loop", "peek", "lock", "check", "woken"}}

Init ==
  /\ m_tasks = <<>>
  /\ m_started = TRUE
  /\ m_takeMutex = NoOwner
  /\ pc = [w \in Workers |-> "loop"]
  /\ task = [w \in Workers |-> NoTask]
  /\ caller = [t \in Tasks |-> "out"]
  /\ dtor = "alive"
  /\ fill = 0

-----------------------------------------------------------------------------
(* m_takeCondition.notify_one() by a thread whose own pc becomes that of   *)
(* mid: one sleeping worker wakes, none if none sleeps.                    *)
NotifyOne(mid) ==
  \/ /\ Asleep = {}
     /\ pc' = mid
  \/ \E v \in Asleep : pc' = [mid EXCEPT ![v] = "woken"]

(* addRunable: wrap the callable, lock, emplace_back, unlock.  The critical *)
(* section touches nothing but the deque, so it is one step.               *)
AddRunable(t) ==
  /\ caller[t] = "out"
  /\ dtor # "gone"
  /\ m_takeMutex = NoOwner
  /\ m_tasks' = Append(m_tasks, t)
  /\ caller' = [caller EXCEPT ![t] = "notify"]
  /\ UNCHANGED <<m_started, m_takeMutex, pc, task, dtor, fill>>

(* Mutant: addRunable leaves the notification to the workers' own peek. *)
NotifyForgotten(t) ==
  /\ caller[t] = "notify"
  /\ caller' = [caller EXCEPT ![t] = "in"]
  /\ UNCHANGED <<m_tasks, m_started, m_takeMutex, pc, task, dtor, fill>>

(* addRunable, after the lock's scope: notify_one and return. *)
NotifyTaken(t) ==
  /\ caller[t] = "notify"
  /\ NotifyOne(pc)
  /\ caller' = [caller EXCEPT ![t] = "in"]
  /\ UNCHANGED <<m_tasks, m_started, m_takeMutex, task, dtor, fill>>

-----------------------------------------------------------------------------
(* while (m_started): the flag is read without the mutex. *)
Test(w) ==
  /\ pc[w] = "loop"
  /\ pc' = [pc EXCEPT ![w] = IF m_started THEN "peek" ELSE "exited"]
  /\ UNCHANGED <<m_tasks, m_started, m_takeMutex, task, caller, dtor, fill>>

(* if (!m_tasks.empty()) notify_one().  The read races with pushes and     *)
(* pops: it may miss an entry that is there; a notification for an entry   *)
(* that is gone again has the effect of a spurious wakeup.                 *)
Peek(w) ==
  /\ pc[w] = "peek"
  /\ LET mid == [pc EXCEPT ![w] = "lock"]
     IN  \/ pc' = mid
         \/ m_tasks # <<>> /\ NotifyOne(mid)
  /\ UNCHANGED <<m_tasks, m_started, m_takeMutex, task, caller, dtor, fill>>

(* The unique_lock, or wait() taking the mutex back after a wakeup. *)
Lock(w) ==
  /\ pc[w] \in {"lock", "woken"}
  /\ m_takeMutex = NoOwner
  /\ m_takeMutex' = w
  /\ pc' = [pc EXCEPT ![w] = "check"]
  /\ UNCHANGED <<m_tasks, m_started, task, caller, dtor, fill>>

(* Mutant: the front is copied and never popped. *)
TakeWithoutPop(w) ==
  /\ pc[w] = "check"
  /\ m_tasks # <<>>
  /\ task' = [task EXCEPT ![w] = Head(m_tasks)]
  /\ m_takeMutex' = NoOwner
  /\ pc' = [pc EXCEPT ![w] = "run"]
  /\ UNCHANGED <<m_tasks, m_started, caller, dtor, fill>>

(* Mutant: back() and pop_back(). *)
TakeLast(w) ==
  /\ pc[w] = "check"
  /\ m_tasks # <<>>
  /\ task' = [task EXCEPT ![w] = m_tasks[Len(m_tasks)]]
  /\ m_tasks' = SubSeq(m_tasks, 1, Len(m_tasks) - 1)
  /\ m_takeMutex' = NoOwner
  /\ pc' = [pc EXCEPT ![w] = "run"]
  /\ UNCHANGED <<m_started, caller, dtor, fill>>

(* The predicate holds: pop the front under the mutex and release it. *)
Take(w) ==
  /\ pc[w] = "check"
  /\ m_tasks # <<>>
  /\ task' = [task EXCEPT ![w] = Head(m_tasks)]
  /\ m_tasks' = Tail(m_tasks)
  /\ m_takeMutex' = NoOwner
  /\ pc' = [pc EXCEPT ![w] = "run"]
  /\ UNCHANGED <<m_started, caller, dtor, fill>>

(* The predicate fails; the worker has decided to sleep but holds the mutex. *)
FindEmpty(w) ==
  /\ pc[w] = "check"
  /\ m_tasks = <<>>
  /\ pc' = [pc EXCEPT ![w] = "block"]
  /\ UNCHANGED <<m_tasks, m_started, m_takeMutex, task, caller, dtor, fill>>

(* Mutant: the worker sleeps with the mutex held. *)
SleepHolding(w) ==
  /\ pc[w] = "block"
  /\ pc' = [pc EXCEPT ![w] = "asleep"]
  /\ UNCHANGED <<m_tasks, m_started, m_takeMutex, task, caller, dtor, fill>>

(* wait() releases the mutex and joins the wait set in one step. *)
Sleep(w) ==
  /\ pc[w] = "block"
  /\ m_takeMutex' = NoOwner
  /\ pc' = [pc EXCEPT ![w] = "asleep"]
  /\ UNCHANGED <<m_tasks, m_started, task, caller, dtor, fill>>

(* The standard library may wake a waiter that nobody notified. *)
SpuriousWakeup(w) ==
  /\ pc[w] = "asleep"
  /\ pc' = [pc EXCEPT ![w] = "woken"]
  /\ UNCHANGED <<m_tasks, m_started, m_takeMutex, task, caller, dtor, fill>>

(* Mutant: the callable is declared outside of the loop. *)
FinishKeeping(w) ==
  /\ pc[w] = "run"
  /\ pc' = [pc EXCEPT ![w] = "loop"]
  /\ UNCHANGED <<m_tasks, m_started, m_takeMutex, task, caller, dtor, fill>>

(* task() returns and the callable goes out of scope. *)
Finish(w) ==
  /\ pc[w] = "run"
  /\ task' = [task EXCEPT ![w] = NoTask]
  /\ pc' = [pc EXCEPT ![w] = "loop"]
  /\ UNCHANGED <<m_tasks, m_started, m_takeMutex, caller, dtor, fill>>

-----------------------------------------------------------------------------
(* ~ThreadPool().  None of these steps takes the mutex. *)

(* m_started = false *)
DtorStop ==
  /\ dtor = "alive"
  /\ m_started' = FALSE
  /\ dtor' = "size"
  /\ UNCHANGED <<m_tasks, m_takeMutex, pc, task, caller, fill>>

(* Mutant: the loop starts one past the size. *)
DtorPastSize ==
  /\ dtor = "size"
  /\ fill' = Len(m_tasks) + 1
  /\ dtor' = "fill"
  /\ UNCHANGED <<m_tasks, m_started, m_takeMutex, pc, task, caller>>

(* size_t i = m_tasks.size() *)
DtorSize ==
  /\ dtor = "size"
  /\ fill' = Len(m_tasks)
  /\ dtor' = "fill"
  /\ UNCHANGED <<m_tasks, m_started, m_takeMutex, pc, task, caller>>

(* i < m_workers.size(): append one empty callable, i++ *)
DtorFill ==
  /\ dtor = "fill"
  /\ fill < Cardinality(Workers)
  /\ m_tasks' = Append(m_tasks, Nop)
  /\ fill' = fill + 1
  /\ UNCHANGED <<m_started, m_takeMutex, pc, task, caller, dtor>>

(* m_takeCondition.notify_all() *)
DtorNotifyAll ==
  /\ dtor = "fill"
  /\ fill >= Cardinality(Workers)
  /\ pc' = [w \in Workers |-> IF pc[w] = "asleep" THEN "woken" ELSE pc[w]]
  /\ dtor' = "join"
  /\ UNCHANGED <<m_tasks, m_started, m_takeMutex, task, caller, fill>>

(* join() has returned for every worker *)
DtorJoin ==
  /\ dtor = "join"
  /\ \A w \in Workers : pc[w] = "exited"
  /\ dtor' = "gone"
  /\ UNCHANGED <<m_tasks, m_started, m_takeMutex, pc, task, caller, fill>>

-----------------------------------------------------------------------------
Worker(w) ==
  \/ Test(w) \/ Peek(w) \/ Lock(w) \/ Take(w) \/ FindEmpty(w) \/ Sleep(w)
  \/ Finish(w)

Destroy == DtorStop \/ DtorSize \/ DtorFill \/ DtorNotifyAll \/ DtorJoin

Next ==
  \/ \E t \in Tasks : AddRunable(t) \/ NotifyTaken(t)
  \/ \E w \in Workers : Worker(w) \/ SpuriousWakeup(w)
  \/ Destroy

(* Every thread that can run keeps running, and the callables return.      *)
(* Nobody has to call addRunable or to start the destructor, and no wakeup *)
(* may be expected that nobody sends.  The mutex need not be fair: a worker *)
(* may lose every race for it.                                             *)
Fairness ==
  /\ \A t \in Tasks : WF_vars(NotifyTaken(t))
  /\ \A w \in Workers : WF_vars(Worker(w))
  /\ WF_vars(Destroy /\ dtor # "alive")

Spec == Init /\ [][Next]_vars

FairSpec == Spec /\ Fairness

-----------------------------------------------------------------------------
(* Every variable has its type, and a worker holds a callable exactly      *)
(* while it executes one: nothing it has taken from the deque is left in   *)
(* its hands while it looks for the next, sleeps or leaves (lines 26-39 of *)
(* ThreadPool.h).                                                          *)
TypeOK ==
  /\ m_tasks \in Seq(Items)
  /\ m_started \in BOOLEAN
  /\ m_takeMutex \in Workers \cup {NoOwner}
  /\ pc \in [Workers -> WorkerPC]
  /\ task \in [Workers -> Items \cup {NoTask}]
  /\ \A w \in Workers : task[w] = NoTask <=> pc[w] # "run"
  /\ caller \in [Tasks -> {"out", "notify", "in"}]
  /\ dtor \in {"alive", "size", "fill", "join", "gone"}
  /\ fill \in Nat

(* The deque is changed by one thread at a time: a worker between taking   *)
(* and releasing m_takeMutex is its owner, and the owner is such a worker. *)
MutexHeld ==
  \A w \in Workers : pc[w] \in {"check", "block"} <=> m_takeMutex = w

(* No lost wakeup while the pool is in use: if some worker sleeps, every   *)
(* queued callable is paid for by a worker on its way to the deque or by a *)
(* notify_one still to come.  It is what the notification after the        *)
(* critical section of addRunable is for.                                  *)
NoLostWakeup ==
  dtor = "alive" /\ Asleep # {} =>
    Len(m_tasks) <=
      Cardinality(Heading) + Cardinality({t \in Tasks : caller[t] = "notify"})

(* No callable is executed by two workers, and none is executed while it   *)
(* is still queued: packaged_task may be called once only.                 *)
RunOnce ==
  \A w \in Workers :
    task[w] \in Tasks =>
      /\ \A v \in Workers \ {w} : task[v] # task[w]
      /\ \A i \in DOMAIN m_tasks : m_tasks[i] # task[w]

(* The workers that take one more callable before they read m_started. *)
Takers ==
  {w \in Workers : pc[w] \in {"peek", "lock", "check", "block", "asleep", "woken"}}

(* The destructor's loop appends enough: when it is done, every worker     *)
(* that will still wait on the deque finds a callable of its own there, so *)
(* that no worker is left waiting for want of one.                         *)
EnoughFill ==
  dtor \in {"join", "gone"} => Len(m_tasks) >= Cardinality(Takers)

(* A callable that was handed over is eventually executed to its end,      *)
(* unless the pool is destroyed first.                                     *)
Served(t) == caller[t] # "out" /\ (\A w \in Workers : task[w] # t)
             /\ \A i \in DOMAIN m_tasks : m_tasks[i] # t

TasksServed ==
  \A t \in Tasks : caller[t] # "out" ~> Served(t) \/ ~m_started

-----------------------------------------------------------------------------
(* The pool implements the queue it promises.  A callable is submitted     *)
(* when it is on the deque; a worker is retired once the flag is down and  *)
(* it is past the take of this turn of its loop.                           *)
WQ == INSTANCE WorkQueue WITH
  queue <- m_tasks,
  running <- task,
  submitted <- {t \in Tasks : caller[t] # "out"},
  closed <- ~m_started,
  retired <- {w \in Workers : ~m_started /\ pc[w] \in {"run", "loop", "exited"}}

(* Callables start in the order they were handed over, each once, and      *)
(* after m_started is cleared a worker starts at most one more.            *)
ImplementsWorkQueue == WQ!Spec
=============================================================================
