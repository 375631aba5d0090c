--------------------------- MODULE ServiceLifetime ---------------------------
(***************************************************************************)
(* The start and the end of the program core: the static objects it is     *)
(* made of, main() of src/core/main.cc, the thread of the network library  *)
(* and the jobs it hands to the pool.                                      *)
(*                                                                         *)
(* g_service and, after it, taskRunInfo are statics of core/service.cc,    *)
(* g_threadPool one of global.cc and the logger one of ModuelTools.cc.     *)
(* C++ leaves the order of construction across files open; destruction, at *)
(* the end of main(), is in the reverse order.  g_service listens from its *)
(* construction on and the workers outlive main(), so that either can      *)
(* touch an object before its construction or after its destruction: what  *)
(* happens then is undefined, and the model stops there.                   *)
(*                                                                         *)
(* One client is connected; the pool is the queue WorkQueue, of which one  *)
(* worker may sleep through the destructor's notification.  That a script  *)
(* can end the process, and what two Python runs do to each other's        *)
(* interpreter, is left to TaskService.                                    *)
(***************************************************************************)
EXTENDS Naturals, Sequences, FiniteSets, SequencesExt

CONSTANTS
  Workers,  (* the threads of g_threadPool                                 *)
  Packets,  (* the packets the client sends                                *)
  Nop,      (* the empty callable the pool's destructor queues             *)
  NoTask    (* a worker without a job                                      *)

Statics == {"service", "registry", "pool", "logger"}

(* The files come in any order, the statics of one file in that of their   *)
(* definition.                                                             *)
Orders ==
  {o \in [1 .. 4 -> Statics] :
     /\ \A x \in Statics : \E i \in 1 .. 4 : o[i] = x
     /\ \E i \in 1 .. 3 : o[i] = "service" /\ o[i + 1] = "registry"}

(* The commands, in the order in which main() adds their handlers. *)
Handlers == <<"run", "stop", "status">>

Jobs == {"packet", "runner"} \X Packets

ASSUME JobsAssumption == NoTask \notin Jobs \cup {Nop} /\ Nop \notin Jobs

VARIABLES
  order,      (* the order of construction the build has chosen            *)
  alive,      (* how many statics are constructed and not destroyed yet    *)
  undefined,  (* the static that was used outside of its lifetime          *)
  main,       (* how far the main thread is                                *)
  added,      (* the number of handlers added                              *)
  queue, running, closed, retired,  (* the pool                            *)
  missed,     (* the worker that has missed its notification               *)
  handshaked, (* the client has shown the key                              *)
  kind,       (* the command in each packet                                *)
  packet,     (* how far its handler is                                    *)
  runner      (* how far the runner of a run packet is                     *)

mainVars == <<alive, main, added>>
poolVars == <<queue, running, closed, retired>>
packetVars == <<handshaked, kind, packet, runner>>
vars == <<order, undefined, mainVars, poolVars, missed, packetVars>>

Submitted ==
  {<<"packet", p>> : p \in {x \in Packets : packet[x] # "idle"}}
  \cup {<<"runner", p>> : p \in {x \in Packets : runner[x] # "none"}}

Pool == INSTANCE WorkQueue WITH Tasks <- Jobs, submitted <- Submitted

Alive(x) == \E i \in 1 .. alive : order[i] = x
Precedes(x, y) == \E i, j \in DOMAIN order : i < j /\ order[i] = x /\ order[j] = y

Init ==
  /\ order \in Orders /\ alive = 0 /\ undefined = "none"
  /\ main = "construct" /\ added = 0
  /\ queue = <<>> /\ running = [w \in Workers |-> NoTask]
  /\ closed = FALSE /\ retired = {} /\ missed = {}
  /\ handshaked = FALSE
  /\ kind = [p \in Packets |-> "none"]
  /\ packet = [p \in Packets |-> "idle"]
  /\ runner = [p \in Packets |-> "none"]

-----------------------------------------------------------------------------
(* The main thread. *)

Construct ==
  /\ main = "construct"
  /\ alive' = alive + 1
  /\ main' = IF alive' = Len(order) THEN "handlers" ELSE main
  /\ UNCHANGED <<added, poolVars, packetVars>>

(* main() has set the logger before it adds the first handler. *)
AddEventHandler ==
  /\ main = "handlers"
  /\ added' = added + 1
  /\ main' = IF added' = Len(Handlers) THEN "commands" ELSE main
  /\ UNCHANGED <<alive, poolVars, packetVars>>

(* The command exit: main() returns, and the statics are destroyed. *)
Exit ==
  /\ main = "commands"
  /\ main' = "destroy"
  /\ UNCHANGED <<alive, added, poolVars, packetVars>>

Destroying(x) == main = "destroy" /\ order[alive] = x

Gone ==
  /\ alive' = alive - 1
  /\ main' = IF alive' = 0 THEN "ended" ELSE main
  /\ UNCHANGED <<added, poolVars, packetVars>>

(* ~NetworkService() stops the network thread; the map and the logger have *)
(* nothing to wait for.                                                    *)
Destroy == (\E x \in {"service", "registry", "logger"} : Destroying(x)) /\ Gone

(* ~ThreadPool(): it clears m_started, queues empty callables ... *)
ClosePool ==
  /\ Destroying("pool")
  /\ UNCHANGED <<mainVars, packetVars>>
  /\ Pool!Close

PadPool ==
  /\ Destroying("pool")
  /\ Len(queue) < Cardinality(Workers \ retired)
  /\ UNCHANGED <<mainVars, packetVars>>
  /\ Pool!Pad

AllIdle == \A w \in Workers : running[w] = NoTask

(* ... calls notify_all, without the mutex: a worker that has found the    *)
(* deque empty and is not waiting yet does not hear it.  The mutex is its, *)
(* so that there is one such worker at most and nobody takes a callable    *)
(* meanwhile; whatever wakes it later, nothing has to ...                  *)
Oversleep(w) ==
  /\ Destroying("pool") /\ closed /\ missed = {}
  /\ running[w] = NoTask /\ w \notin retired
  /\ ToSet(queue) \subseteq {Nop}
  /\ missed' = {w}
  /\ UNCHANGED <<mainVars, poolVars, packetVars>>

(* Mutant: the threads are detached. *)
DetachPool == Destroying("pool") /\ closed /\ Gone

(* Mutant: the destructor waits for the queue to drain. *)
DrainPool == Destroying("pool") /\ closed /\ retired = Workers /\ AllIdle /\ queue = <<>> /\ Gone

(* ... and joins the workers.  What is queued then is never executed. *)
JoinPool == Destroying("pool") /\ closed /\ retired = Workers /\ AllIdle /\ Gone

Main == Construct \/ AddEventHandler \/ Exit \/ Destroy \/ ClosePool \/ PadPool \/ JoinPool

-----------------------------------------------------------------------------
(* The packets and the scripts. *)

(* The network thread; until the handshake, a packet must be one. *)
Receive(p) ==
  /\ packet[p] = "idle"
  /\ Alive("service") /\ Alive("pool")
  /\ \E k \in {"handshake"} \cup (IF handshaked THEN ToSet(Handlers) ELSE {}) :
       kind' = [kind EXCEPT ![p] = k]
  /\ packet' = [packet EXCEPT ![p] = "queued"]
  /\ UNCHANGED <<mainVars, handshaked, runner>>
  /\ Pool!Submit(<<"packet", p>>)

(* A worker takes what is in front. *)
StartNop(w) ==
  /\ Alive("pool") /\ queue # <<>> /\ Head(queue) = Nop
  /\ UNCHANGED <<mainVars, packetVars>>
  /\ Pool!Start(w)

FinishNop(w) ==
  /\ running[w] = Nop
  /\ UNCHANGED <<mainVars, packetVars>>
  /\ Pool!Finish(w)

StartHandler(w, p) ==
  /\ packet[p] = "queued"
  /\ Alive("pool") /\ queue # <<>> /\ Head(queue) = <<"packet", p>>
  /\ packet' = [packet EXCEPT ![p] = "handle"]
  /\ UNCHANGED <<mainVars, handshaked, kind, runner>>
  /\ Pool!Start(w)

StartRunner(w, p) ==
  /\ runner[p] = "queued"
  /\ Alive("pool") /\ queue # <<>> /\ Head(queue) = <<"runner", p>>
  /\ runner' = [runner EXCEPT ![p] = "emplace"]
  /\ UNCHANGED <<mainVars, handshaked, kind, packet>>
  /\ Pool!Start(w)

Handled(p) == \E i \in 1 .. added : Handlers[i] = kind[p]

Handle(w, p) ==
  /\ running[w] = <<"packet", p>> /\ packet[p] = "handle"
  /\ Alive("service")

(* dataHandler finds a handler for a run, which queues a runner and waits; *)
(* for a language it does not know it waits without one.                   *)
HandleRun(w, p) ==
  /\ Handle(w, p) /\ kind[p] = "run" /\ Handled(p)
  /\ packet' = [packet EXCEPT ![p] = "wait"]
  /\ runner' = [runner EXCEPT ![p] = "queued"]
  /\ UNCHANGED <<mainVars, handshaked, kind>>
  /\ Pool!Submit(<<"runner", p>>)

SkipRunner(w, p) ==
  /\ Handle(w, p) /\ kind[p] = "run" /\ Handled(p)
  /\ packet' = [packet EXCEPT ![p] = "wait"]
  /\ UNCHANGED <<mainVars, poolVars, handshaked, kind, runner>>

(* Other packets, commands that have no handler yet and those that are cut *)
(* short, which throw, are done with at once; of a handshake the key may   *)
(* be wrong.                                                               *)
HandleOther(w, p) ==
  /\ Handle(w, p)
  /\ packet' = [packet EXCEPT ![p] = "done"]
  /\ handshaked' \in {handshaked, handshaked \/ kind[p] = "handshake"}
  /\ UNCHANGED <<mainVars, kind, runner>>
  /\ Pool!Finish(w)

(* get() returns, and the reply is sent. *)
ReplyRun(w, p) ==
  /\ running[w] = <<"packet", p>> /\ packet[p] = "told"
  /\ Alive("service")
  /\ packet' = [packet EXCEPT ![p] = "done"]
  /\ UNCHANGED <<mainVars, handshaked, kind, runner>>
  /\ Pool!Finish(w)

(* A runner: emplace() and set_value(), the script, the result packet and, *)
(* below, erase().                                                         *)
RunnerUses(p) ==
  CASE runner[p] \in {"emplace", "erase"} -> {"registry"}
    [] runner[p] = "report" -> {"service"}
    [] OTHER -> {}

Tell(p) == packet' = [packet EXCEPT ![p] = "told"]

(* While another run's script is open, the binding may throw: the promise  *)
(* stays without a value.                                                  *)
BindFails(p) ==
  /\ runner[p] = "emplace"
  /\ \E q \in Packets \ {p} : runner[q] \in {"script", "report", "erase"}
  /\ runner' = [runner EXCEPT ![p] = "report"]
  /\ UNCHANGED packet

Launch(p) ==
  /\ runner[p] = "emplace"
  /\ runner' = [runner EXCEPT ![p] = "script"]
  /\ Tell(p)

Proceed(p) ==
  /\ \E s \in {<<"script", "report">>, <<"report", "erase">>} :
       runner[p] = s[1] /\ runner' = [runner EXCEPT ![p] = s[2]]
  /\ UNCHANGED packet

RunnerGoesOn(p) ==
  /\ \A x \in RunnerUses(p) : Alive(x)
  /\ Launch(p) \/ BindFails(p) \/ Proceed(p)
  /\ UNCHANGED <<mainVars, poolVars, handshaked, kind>>

(* Without a VM the runner logs that, sets the value 0 and returns. *)
Refuse(w, p) ==
  /\ running[w] = <<"runner", p>> /\ runner[p] = "emplace"
  /\ Alive("logger") /\ Alive("service")
  /\ runner' = [runner EXCEPT ![p] = "done"]
  /\ Tell(p)
  /\ UNCHANGED <<mainVars, handshaked, kind>>
  /\ Pool!Finish(w)

RunnerReturns(w, p) ==
  /\ running[w] = <<"runner", p>> /\ runner[p] = "erase"
  /\ Alive("registry")
  /\ runner' = [runner EXCEPT ![p] = "done"]
  /\ UNCHANGED <<mainVars, handshaked, kind, packet>>
  /\ Pool!Finish(w)

(* What a handler or a runner has to use next, and what else may be used:  *)
(* a runner may log, a script until its VM is closed, and a packet may     *)
(* come in.                                                                *)
Uses(p) ==
  RunnerUses(p) \cup
    CASE packet[p] = "handle" ->
           {"service"} \cup IF kind[p] = "status" /\ Handled(p) THEN {"registry"} ELSE {}
      [] packet[p] = "told" -> {"service"}
      [] OTHER -> {}

MayUse(p) ==
  (IF runner[p] \in {"emplace", "script", "erase"} THEN {"logger", "service"} ELSE {})
  \cup IF packet[p] = "idle" /\ Alive("service") THEN {"pool"} ELSE {}

Misuse(X) ==
  /\ undefined = "none"
  /\ \E x \in X : ~Alive(x) /\ undefined' = x
  /\ UNCHANGED <<order, mainVars, poolVars, missed, packetVars>>

Handling(w) ==
  \/ StartNop(w) \/ FinishNop(w)
  \/ \E p \in Packets :
       \/ StartHandler(w, p) \/ HandleRun(w, p) \/ SkipRunner(w, p) \/ HandleOther(w, p)
       \/ ReplyRun(w, p) \/ StartRunner(w, p) \/ Refuse(w, p) \/ RunnerReturns(w, p)

Step ==
  \/ Main
  \/ \E p \in Packets : Receive(p) \/ RunnerGoesOn(p)
  \/ \E w \in Workers : Handling(w)

Defined(A) == undefined = "none" /\ main # "ended" /\ A /\ UNCHANGED <<order, undefined>>

Next ==
  \/ Defined(Step /\ UNCHANGED missed)
  \/ \E w \in Workers : Defined(Oversleep(w))
  \/ \E p \in Packets : Misuse(Uses(p)) \/ Misuse(MayUse(p))

Spec == Init /\ [][Next]_vars

(* The threads keep running, but for a worker that sleeps through the      *)
(* notification, and the scripts come to an end here.  Nobody has to type  *)
(* exit, and the client has to send nothing.                               *)
Fairness ==
  /\ WF_vars(Defined(Main /\ main # "commands" /\ UNCHANGED missed))
  /\ \A w \in Workers :
       WF_vars(Defined(w \notin missed \ retired /\ Handling(w) /\ UNCHANGED missed))
  /\ \A p \in Packets :
       WF_vars(Defined(RunnerGoesOn(p) /\ UNCHANGED missed) \/ Misuse(Uses(p)))

FairSpec == Spec /\ Fairness

-----------------------------------------------------------------------------
(* Which order the build has chosen decides what can be touched too early  *)
(* or too late.  A service that is constructed before the pool can hand    *)
(* packets to a pool that does not exist yet; scripts that go on during    *)
(* the destruction log, report and erase through a logger, a service and   *)
(* a registry that are gone if these were constructed after the pool.  So  *)
(* in every order the service has one fault or the other, and join() in    *)
(* the pool's destructor protects what was constructed before the pool.    *)
LifetimeByOrder ==
  /\ undefined = "pool" => Precedes("service", "pool")
  /\ undefined \in {"service", "registry", "logger"} => Precedes("pool", undefined)

(* A run handler waits for a runner that is still queued, was never queued *)
(* or has gone without setting the promise.                                *)
Stranded == \E p \in Packets : packet[p] = "wait" /\ runner[p] # "emplace"

(* A worker sleeps that has missed the destructor's notification. *)
Overslept == missed \ retired # {}

(* After exit the process ends, if its scripts do, unless a handler is     *)
(* stranded or a worker has overslept: join() waits for them.              *)
ExitEnds ==
  main = "destroy" ~>
    main = "ended" \/ undefined # "none" \/ []Stranded \/ []Overslept
=============================================================================
