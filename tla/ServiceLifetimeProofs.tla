------------------------ MODULE ServiceLifetimeProofs ------------------------
(***************************************************************************)
(* Proofs about the start and the end of the program core, for any number  *)
(* of workers and packets and every order of construction.                 *)
(***************************************************************************)
EXTENDS ServiceLifetime, SequenceTheorems, TLAPS

-----------------------------------------------------------------------------
(* How many statics there are at which stage of the main thread. *)
StageInv ==
  /\ order \in Orders
  /\ alive \in 0 .. 4
  /\ main \in {"construct", "handlers", "commands", "destroy", "ended"}
  /\ main = "construct" => alive < 4
  /\ main \in {"handlers", "commands"} => alive = 4
  /\ main = "destroy" => alive > 0

(* A handler or a runner that has begun and not returned is a job some     *)
(* worker executes, and a runner that has not set the promise is waited    *)
(* for.                                                                    *)
HandInv ==
  /\ DOMAIN running = Workers /\ DOMAIN packet = Packets /\ DOMAIN runner = Packets
  /\ \A p \in Packets :
       /\ packet[p] \in {"handle", "wait", "told"} =>
            \E w \in Workers : running[w] = <<"packet", p>>
       /\ runner[p] \in {"emplace", "script", "report", "erase"} =>
            \E w \in Workers : running[w] = <<"runner", p>>
       /\ runner[p] \in {"queued", "emplace"} => packet[p] = "wait"

(* A worker executes a job only between the construction of the pool and   *)
(* the end of its destructor.                                              *)
PoolInv == ~AllIdle => Alive("pool")

LifetimeInv == StageInv /\ HandInv /\ PoolInv /\ LifetimeByOrder
-----------------------------------------------------------------------------
(* The jobs of a packet are neither empty callables nor nothing. *)
LEMMA JobFacts ==
  ASSUME NEW p \in Packets
  PROVE  /\ <<"packet", p>> \notin {Nop, NoTask}
         /\ <<"runner", p>> \notin {Nop, NoTask}
<1>1. <<"packet", p>> \in Jobs /\ <<"runner", p>> \in Jobs
  BY DEF Jobs
<1> QED  BY <1>1, JobsAssumption

(* Every order of construction has the four statics. *)
LEMMA OrderFacts ==
  ASSUME NEW o \in Orders
  PROVE  /\ DOMAIN o = 1 .. 4
         /\ Len(o) = 4
         /\ \A x \in Statics : \E i \in 1 .. 4 : o[i] = x
<1>1. o \in [1 .. 4 -> Statics] /\ \A x \in Statics : \E i \in 1 .. 4 : o[i] = x
  BY DEF Orders
<1>2. o \in Seq(Statics)
  BY <1>1, SeqDef
<1> QED  BY <1>1, <1>2, LenProperties

(* The statics that are alive come before those that are not: either these *)
(* are not constructed yet or they are destroyed already.                  *)
LEMMA AliveFirst ==
  ASSUME StageInv, NEW x \in Statics, NEW y \in Statics, Alive(x), ~Alive(y)
  PROVE  Precedes(x, y)
<1>1. PICK i \in 1 .. alive : order[i] = x
  BY DEF Alive
<1>2. DOMAIN order = 1 .. 4 /\ \E j \in 1 .. 4 : order[j] = y
  BY OrderFacts DEF StageInv
<1>3. PICK j \in 1 .. 4 : order[j] = y
  BY <1>2
<1>4. ~(j \in 1 .. alive)
  BY <1>3 DEF Alive
<1>5. i \in 1 .. 4 /\ i < j
  BY <1>1, <1>3, <1>4 DEF StageInv
<1> QED  BY <1>1, <1>2, <1>3, <1>5 DEF Precedes

-----------------------------------------------------------------------------
LEMMA LifetimeInit == Init => LifetimeInv
<1> SUFFICES ASSUME Init PROVE LifetimeInv
  OBVIOUS
<1>1. StageInv
  BY DEF Init, StageInv
<1>2. HandInv
  BY DEF Init, HandInv
<1>3. AllIdle
  BY DEF Init, AllIdle
<1>4. LifetimeByOrder
  BY DEF Init, LifetimeByOrder
<1> QED  BY <1>1, <1>2, <1>3, <1>4 DEF LifetimeInv, PoolInv

(* The main thread constructs and destroys one static at a time, and does  *)
(* not get past the pool while a worker is executing.                      *)
LEMMA MainStep ==
  ASSUME StageInv, HandInv, PoolInv, Main, order' = order
  PROVE  StageInv' /\ HandInv' /\ PoolInv'
<1>1. /\ running' = running /\ packet' = packet /\ runner' = runner
  BY DEF Main, Construct, AddEventHandler, Exit, Destroy, Gone, ClosePool, PadPool,
         JoinPool, poolVars, packetVars, Pool!Close, Pool!Pad
<1>2. HandInv'
  BY <1>1 DEF HandInv
<1>3. Len(order) = 4 /\ order \in Orders
  BY OrderFacts DEF StageInv
<1>4. CASE Construct
  <2>1. StageInv'
    BY <1>3, <1>4 DEF Construct, StageInv
  <2>2. Alive("pool") => Alive("pool")'
    BY <1>4 DEF Construct, StageInv, Alive
  <2> QED  BY <1>1, <1>2, <2>1, <2>2 DEF PoolInv, AllIdle
<1>5. CASE AddEventHandler \/ Exit \/ ClosePool \/ PadPool
  <2>1. StageInv'
    BY <1>5 DEF AddEventHandler, Exit, ClosePool, PadPool, mainVars, StageInv
  <2>2. Alive("pool") => Alive("pool")'
    BY <1>5 DEF AddEventHandler, Exit, ClosePool, PadPool, mainVars, Alive
  <2> QED  BY <1>1, <1>2, <2>1, <2>2 DEF PoolInv, AllIdle
<1>6. CASE Destroy
  <2>1. StageInv'
    BY <1>6 DEF Destroy, Destroying, Gone, StageInv
  <2>2. Alive("pool") => Alive("pool")'
    <3> SUFFICES ASSUME NEW i \in 1 .. alive, order[i] = "pool" PROVE Alive("pool")'
      BY DEF Alive
    <3>1. order[alive] # "pool" /\ alive' = alive - 1
      BY <1>6 DEF Destroy, Destroying, Gone
    <3>2. i \in 1 .. alive'
      BY <3>1 DEF StageInv
    <3> QED  BY <3>2 DEF Alive
  <2> QED  BY <1>1, <1>2, <2>1, <2>2 DEF PoolInv, AllIdle
<1>7. CASE JoinPool
  <2>1. StageInv'
    BY <1>7 DEF JoinPool, Destroying, Gone, StageInv
  <2>2. AllIdle'
    BY <1>1, <1>7 DEF JoinPool, AllIdle
  <2> QED  BY <1>2, <2>1, <2>2 DEF PoolInv
<1> QED  BY <1>4, <1>5, <1>6, <1>7 DEF Main

(* A packet comes in, or a script goes on. *)
LEMMA PacketStep ==
  ASSUME HandInv, PoolInv, NEW p \in Packets, Receive(p) \/ RunnerGoesOn(p), order' = order
  PROVE  HandInv' /\ PoolInv'
<1>1. running' = running /\ alive' = alive
  BY DEF Receive, RunnerGoesOn, Pool!Submit, mainVars, poolVars
<1>2. PoolInv'
  BY <1>1 DEF PoolInv, AllIdle, Alive
<1>3. CASE Receive(p)
  BY <1>1, <1>2, <1>3 DEF Receive, HandInv
<1>4. CASE RunnerGoesOn(p)
  <2>1. /\ runner[p] \in {"emplace", "script", "report"}
        /\ runner'[p] \in {"script", "report", "erase"}
        /\ \A q \in Packets \ {p} : runner'[q] = runner[q] /\ packet'[q] = packet[q]
        /\ packet'[p] = packet[p] \/ (packet[p] = "wait" /\ packet'[p] = "told")
        /\ DOMAIN runner' = Packets /\ DOMAIN packet' = Packets
    BY <1>4 DEF RunnerGoesOn, Launch, BindFails, Proceed, Tell, HandInv
  <2> QED  BY <1>1, <1>2, <2>1 DEF HandInv
<1> QED  BY <1>3, <1>4

(* A worker takes a job, which needs the pool. *)
LEMMA StartStep ==
  ASSUME HandInv, NEW w \in Workers,
         StartNop(w) \/ \E p \in Packets : StartHandler(w, p) \/ StartRunner(w, p),
         order' = order
  PROVE  HandInv' /\ PoolInv'
<1>1. /\ Alive("pool") /\ alive' = alive
      /\ running[w] = NoTask /\ running' = [running EXCEPT ![w] = Head(queue)]
  BY DEF StartNop, StartHandler, StartRunner, Pool!Start, mainVars
<1>2. PoolInv'
  BY <1>1 DEF PoolInv, Alive
<1>3. \A v \in Workers : running[v] # NoTask => running'[v] = running[v]
  BY <1>1 DEF HandInv
<1>4. \A q \in Packets :
        /\ (\E v \in Workers : running[v] = <<"packet", q>>)
              => \E v \in Workers : running'[v] = <<"packet", q>>
        /\ (\E v \in Workers : running[v] = <<"runner", q>>)
              => \E v \in Workers : running'[v] = <<"runner", q>>
  BY <1>3, JobFacts
<1>5. CASE StartNop(w)
  BY <1>1, <1>2, <1>4, <1>5 DEF StartNop, packetVars, HandInv
<1>6. ASSUME NEW p \in Packets, StartHandler(w, p) PROVE HandInv'
  <2>1. running'[w] = <<"packet", p>> /\ packet' = [packet EXCEPT ![p] = "handle"]
        /\ runner' = runner /\ packet[p] = "queued"
    BY <1>1, <1>6 DEF StartHandler, HandInv
  <2> QED  BY <1>1, <1>4, <2>1 DEF HandInv
<1>7. ASSUME NEW p \in Packets, StartRunner(w, p) PROVE HandInv'
  <2>1. running'[w] = <<"runner", p>> /\ runner' = [runner EXCEPT ![p] = "emplace"]
        /\ packet' = packet /\ runner[p] = "queued"
    BY <1>1, <1>7 DEF StartRunner, HandInv
  <2> QED  BY <1>1, <1>4, <2>1 DEF HandInv
<1> QED  BY <1>2, <1>5, <1>6, <1>7

(* A handler hands a runner over, or does not, and waits with its job in   *)
(* hand.                                                                   *)
LEMMA WaitStep ==
  ASSUME HandInv, PoolInv, NEW w \in Workers, NEW p \in Packets,
         HandleRun(w, p) \/ SkipRunner(w, p), order' = order
  PROVE  HandInv' /\ PoolInv'
<1>1. running' = running /\ alive' = alive
  BY DEF HandleRun, SkipRunner, Pool!Submit, mainVars, poolVars
<1>2. PoolInv'
  BY <1>1 DEF PoolInv, AllIdle, Alive
<1>3. HandInv'
  BY <1>1 DEF HandleRun, SkipRunner, Handle, HandInv
<1> QED  BY <1>2, <1>3

(* A job returns, and nothing of it is left to do. *)
LEMMA FinishStep ==
  ASSUME HandInv, PoolInv, NEW w \in Workers,
         \/ FinishNop(w)
         \/ \E p \in Packets :
              HandleOther(w, p) \/ ReplyRun(w, p) \/ Refuse(w, p) \/ RunnerReturns(w, p),
         order' = order
  PROVE  HandInv' /\ PoolInv'
<1>1. alive' = alive /\ running[w] # NoTask /\ running' = [running EXCEPT ![w] = NoTask]
  BY DEF FinishNop, HandleOther, ReplyRun, Refuse, RunnerReturns, Pool!Finish, mainVars
<1>2. AllIdle => AllIdle'
  BY <1>1 DEF HandInv, AllIdle
<1>3. PoolInv'
  BY <1>1, <1>2 DEF PoolInv, Alive
<1>4. \A v \in Workers \ {w} : running'[v] = running[v]
  BY <1>1 DEF HandInv
<1>5. \A q \in Packets :
        /\ running[w] # <<"packet", q>> /\ (\E v \in Workers : running[v] = <<"packet", q>>)
              => \E v \in Workers : running'[v] = <<"packet", q>>
        /\ running[w] # <<"runner", q>> /\ (\E v \in Workers : running[v] = <<"runner", q>>)
              => \E v \in Workers : running'[v] = <<"runner", q>>
  BY <1>4
<1>6. ASSUME FinishNop(w) PROVE HandInv'
  <2>1. running[w] = Nop /\ packet' = packet /\ runner' = runner
    BY <1>6 DEF FinishNop, packetVars
  <2>2. \A q \in Packets : running[w] # <<"packet", q>> /\ running[w] # <<"runner", q>>
    BY <2>1, JobFacts
  <2> QED  BY <1>1, <1>5, <2>1, <2>2 DEF HandInv
<1>7. ASSUME NEW p \in Packets, HandleOther(w, p) \/ ReplyRun(w, p) PROVE HandInv'
  <2>1. /\ running[w] = <<"packet", p>> /\ packet' = [packet EXCEPT ![p] = "done"]
        /\ runner' = runner /\ packet[p] # "wait"
    BY <1>7 DEF HandleOther, Handle, ReplyRun
  <2>2. \A q \in Packets : running[w] # <<"runner", q>> /\ (q # p => running[w] # <<"packet", q>>)
    BY <2>1
  <2> QED  BY <1>1, <1>5, <2>1, <2>2 DEF HandInv
<1>8. ASSUME NEW p \in Packets, Refuse(w, p) \/ RunnerReturns(w, p) PROVE HandInv'
  <2>1. /\ running[w] = <<"runner", p>> /\ runner' = [runner EXCEPT ![p] = "done"]
        /\ DOMAIN packet' = Packets /\ \A q \in Packets \ {p} : packet'[q] = packet[q]
        /\ packet'[p] = packet[p] \/ (packet[p] = "wait" /\ packet'[p] = "told")
    BY <1>8 DEF Refuse, RunnerReturns, Tell, HandInv
  <2>2. \A q \in Packets : running[w] # <<"packet", q>> /\ (q # p => running[w] # <<"runner", q>>)
    BY <2>1
  <2>3. \A q \in Packets :
          /\ packet'[q] \in {"handle", "wait", "told"} => packet[q] \in {"handle", "wait", "told"}
          /\ runner'[q] \in {"emplace", "script", "report", "erase"} =>
               q # p /\ runner[q] \in {"emplace", "script", "report", "erase"}
          /\ runner'[q] \in {"queued", "emplace"} => packet'[q] = "wait"
    BY <2>1 DEF HandInv
  <2>4. DOMAIN running' = Workers /\ DOMAIN runner' = Packets
    BY <1>1, <2>1 DEF HandInv
  <2>5. \A q \in Packets :
          /\ packet'[q] \in {"handle", "wait", "told"} => \E v \in Workers : running'[v] = <<"packet", q>>
          /\ runner'[q] \in {"emplace", "script", "report", "erase"} =>
               \E v \in Workers : running'[v] = <<"runner", q>>
    BY <1>5, <2>2, <2>3 DEF HandInv
  <2> QED  BY <2>1, <2>3, <2>4, <2>5 DEF HandInv
<1> QED  BY <1>3, <1>6, <1>7, <1>8

(* What is touched outside of its lifetime lies on the wrong side of what  *)
(* made it possible to touch it: of the service that listens already, or   *)
(* of the pool that still executes the toucher.                            *)
LEMMA MisuseStep ==
  ASSUME LifetimeInv, NEW p \in Packets, Misuse(Uses(p)) \/ Misuse(MayUse(p))
  PROVE  LifetimeByOrder'
<1> USE DEF LifetimeInv
<1>1. order' = order /\ undefined' \in Uses(p) \cup MayUse(p) /\ ~Alive(undefined')
  BY DEF Misuse
<1>2. CASE undefined' = "pool"
  <2>1. Alive("service")
    BY <1>1, <1>2 DEF Uses, MayUse, RunnerUses
  <2>2. Precedes("service", "pool")
    BY <1>1, <1>2, <2>1, AliveFirst DEF Statics
  <2> QED  BY <1>1, <1>2, <2>2 DEF LifetimeByOrder, Precedes
<1>3. CASE undefined' \in {"service", "registry", "logger"}
  <2>1. \/ packet[p] \in {"handle", "told"}
        \/ runner[p] \in {"emplace", "script", "report", "erase"}
    BY <1>1, <1>3 DEF Uses, MayUse, RunnerUses
  <2>2. ~AllIdle
    BY <2>1, JobFacts DEF HandInv, AllIdle
  <2>3. Precedes("pool", undefined')
    BY <1>1, <1>3, <2>2, AliveFirst DEF Statics, PoolInv
  <2> QED  BY <1>1, <1>3, <2>3 DEF LifetimeByOrder, Precedes
<1> QED  BY <1>2, <1>3 DEF LifetimeByOrder

LEMMA LifetimeStep == LifetimeInv /\ [Next]_vars => LifetimeInv'
<1> SUFFICES ASSUME LifetimeInv, [Next]_vars PROVE LifetimeInv'
  OBVIOUS
<1> USE DEF LifetimeInv
<1>1. CASE Defined(Step /\ UNCHANGED missed)
  <2>1. Step /\ order' = order /\ undefined' = undefined
    BY <1>1 DEF Defined
  <2>2. LifetimeByOrder'
    BY <2>1 DEF LifetimeByOrder, Precedes
  <2>3. CASE Main  BY <2>1, <2>2, <2>3, MainStep
  <2>4. CASE ~Main
    <3>1. UNCHANGED mainVars
      BY <2>1, <2>4 DEF Step, Handling, Receive, RunnerGoesOn, StartNop, FinishNop,
         StartHandler, HandleRun, SkipRunner, HandleOther, ReplyRun, StartRunner, Refuse,
         RunnerReturns
    <3>2. StageInv'
      BY <2>1, <3>1 DEF StageInv, mainVars
    <3>3. HandInv' /\ PoolInv'
      BY <2>1, <2>4, PacketStep, StartStep, WaitStep, FinishStep DEF Step, Handling
    <3> QED  BY <2>2, <3>2, <3>3
  <2> QED  BY <2>3, <2>4
<1>2. ASSUME NEW p \in Packets, Misuse(Uses(p)) \/ Misuse(MayUse(p)) PROVE LifetimeInv'
  <2>1. UNCHANGED <<order, mainVars, poolVars, packetVars>>
    BY <1>2 DEF Misuse
  <2>2. StageInv' /\ HandInv' /\ PoolInv'
    BY <2>1 DEF mainVars, poolVars, packetVars, StageInv, HandInv, PoolInv, AllIdle, Alive
  <2> QED  BY <1>2, <2>2, MisuseStep
<1>3. CASE UNCHANGED vars
  BY <1>3 DEF vars, mainVars, poolVars, packetVars, StageInv, HandInv, PoolInv, AllIdle,
     Alive, LifetimeByOrder, Precedes
<1>4. ASSUME NEW w \in Workers, Defined(Oversleep(w)) PROVE LifetimeInv'
  BY <1>4 DEF Defined, Oversleep, mainVars, poolVars, packetVars, StageInv, HandInv, PoolInv,
     AllIdle, Alive, LifetimeByOrder, Precedes
<1> QED  BY <1>1, <1>2, <1>3, <1>4 DEF Next

(* Whatever order the build has chosen, a static is used too early or too  *)
(* late only where that order allows it.                                   *)
THEOREM FaultByOrder == Spec => []LifetimeByOrder
<1>1. LifetimeInv => LifetimeByOrder
  BY DEF LifetimeInv
<1> QED  BY <1>1, LifetimeInit, LifetimeStep, PTL DEF Spec

-----------------------------------------------------------------------------
(* The steps between two calls of the pool change nothing it knows of: a   *)
(* runner that goes on has been handed over before.                        *)
LEMMA GoesOnSubmitted ==
  ASSUME HandInv, NEW p \in Packets, RunnerGoesOn(p)
  PROVE  Submitted' = Submitted
<1>1. /\ runner[p] # "none" /\ runner'[p] # "none"
      /\ \A q \in Packets \ {p} : runner'[q] = runner[q] /\ packet'[q] = packet[q]
  BY DEF RunnerGoesOn, Launch, BindFails, Proceed, Tell, HandInv
<1>2. packet[p] # "idle" <=> packet'[p] # "idle"
  BY DEF RunnerGoesOn, Launch, BindFails, Proceed, Tell, HandInv
<1>3. {q \in Packets : runner'[q] # "none"} = {q \in Packets : runner[q] # "none"}
  BY <1>1
<1>4. {q \in Packets : packet'[q] # "idle"} = {q \in Packets : packet[q] # "idle"}
  BY <1>1, <1>2
<1> QED  BY <1>3, <1>4 DEF Submitted

(* A handler that waits for nobody has been handed over before. *)
LEMMA SkipSubmitted ==
  ASSUME HandInv, NEW w \in Workers, NEW p \in Packets, SkipRunner(w, p)
  PROVE  Submitted' = Submitted
<1>1. \A q \in Packets : packet'[q] # "idle" <=> packet[q] # "idle"
  BY DEF SkipRunner, Handle, HandInv
<1>2. {q \in Packets : packet'[q] # "idle"} = {q \in Packets : packet[q] # "idle"}
  BY <1>1
<1> QED  BY <1>2 DEF SkipRunner, Submitted

LEMMA StepUsesQueue == LifetimeInv /\ [Next]_vars => [Pool!Next]_(Pool!vars)
<1> SUFFICES ASSUME LifetimeInv, [Next]_vars PROVE [Pool!Next]_(Pool!vars)
  OBVIOUS
<1> USE DEF Pool!Next, Pool!vars
<1>1. ASSUME UNCHANGED <<poolVars, packetVars>> PROVE UNCHANGED Pool!vars
  BY <1>1 DEF poolVars, packetVars, Submitted
<1>2. CASE Main
  BY <1>1, <1>2 DEF Main, Construct, AddEventHandler, Exit, Destroy, Gone, ClosePool,
                    PadPool, JoinPool
<1>3. ASSUME NEW p \in Packets, Receive(p) PROVE \E t \in Jobs : Pool!Submit(t)
  BY <1>3 DEF Receive, Jobs
<1>4. ASSUME NEW p \in Packets, RunnerGoesOn(p) PROVE UNCHANGED Pool!vars
  BY <1>4, GoesOnSubmitted DEF LifetimeInv, RunnerGoesOn, poolVars
<1>5. ASSUME NEW w \in Workers, NEW p \in Packets, HandleRun(w, p)
      PROVE  \E t \in Jobs : Pool!Submit(t)
  BY <1>5 DEF HandleRun, Jobs
<1>6. ASSUME NEW w \in Workers, Handling(w)
      PROVE  \/ Pool!Start(w) \/ Pool!Finish(w)
             \/ \E p \in Packets : HandleRun(w, p) \/ SkipRunner(w, p)
  BY <1>6 DEF Handling, StartNop, FinishNop, StartHandler, HandleOther, ReplyRun,
              StartRunner, Refuse, RunnerReturns
<1>7. ASSUME NEW w \in Workers, NEW p \in Packets, SkipRunner(w, p)
      PROVE  UNCHANGED Pool!vars
  BY <1>7, SkipSubmitted DEF LifetimeInv, SkipRunner, poolVars
<1>8. CASE Defined(Step /\ UNCHANGED missed)
  BY <1>2, <1>3, <1>4, <1>5, <1>6, <1>7, <1>8 DEF Defined, Step
<1>9. ASSUME NEW w \in Workers, Oversleep(w) PROVE UNCHANGED Pool!vars
  BY <1>1, <1>9 DEF Oversleep
<1>10. ASSUME NEW p \in Packets, Misuse(Uses(p)) \/ Misuse(MayUse(p)) PROVE UNCHANGED Pool!vars
  BY <1>1, <1>10 DEF Misuse
<1>11. CASE UNCHANGED vars
  BY <1>1, <1>11 DEF vars
<1> QED  BY <1>8, <1>9, <1>10, <1>11 DEF Next, Defined

(* The service uses the pool as WorkQueue describes it, which ThreadPool   *)
(* is proved to implement: each job is handed over once, and what the      *)
(* destructor leaves in the queue nobody executes later.                   *)
THEOREM UsesQueue == Spec => Pool!Spec
<1>1. Init => Pool!Init
  BY DEF Init, Pool!Init, Submitted
<1> QED  BY <1>1, LifetimeInit, LifetimeStep, StepUsesQueue, PTL DEF Spec, Pool!Spec
==============================================================================
