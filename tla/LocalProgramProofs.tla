------------------------- MODULE LocalProgramProofs -------------------------
(***************************************************************************)
(* Proofs about the program `local` for any number of workers.  Its pool   *)
(* is the one ThreadPoolProofs reasons about, with a single callable; what *)
(* is proved there carries over, and what is added here is how far main(), *)
(* the callable and the registry can be apart.                             *)
(***************************************************************************)
EXTENDS LocalProgram, SequenceTheorems, TLAPS

PoolProofs == INSTANCE ThreadPoolProofs WITH Tasks <- {Runner}

-----------------------------------------------------------------------------
(* What ThreadPool assumes of its constants holds of those of `local`. *)
LEMMA PoolAssumptions ==
  PoolProofs!WorkersAssumption /\ PoolProofs!TasksAssumption
  BY WorkersAssumption, RunnerAssumption
     DEF PoolProofs!WorkersAssumption, PoolProofs!TasksAssumption, IsFiniteSet,
         PoolProofs!IsFiniteSet

(* The pool of LocalProgram and the one of ThreadPoolProofs are the same. *)
LEMMA SamePoolInit == Pool!Init <=> PoolProofs!Init
  BY DEF Pool!Init, PoolProofs!Init

LEMMA SamePoolType ==
  (Pool!TypeOK <=> PoolProofs!TypeOK) /\ (Pool!TypeOK' <=> PoolProofs!TypeOK')
  BY DEF Pool!TypeOK, PoolProofs!TypeOK, Pool!Items, PoolProofs!Items,
         Pool!WorkerPC, PoolProofs!WorkerPC

LEMMA SamePoolNext == [Pool!Next]_(Pool!vars) <=> [PoolProofs!Next]_(PoolProofs!vars)
  BY DEF Pool!Next, PoolProofs!Next, Pool!vars, PoolProofs!vars,
     Pool!Asleep, PoolProofs!Asleep, Pool!NotifyOne, PoolProofs!NotifyOne,
     Pool!AddRunable, PoolProofs!AddRunable, Pool!NotifyTaken, PoolProofs!NotifyTaken,
     Pool!Test, PoolProofs!Test, Pool!Peek, PoolProofs!Peek,
     Pool!Lock, PoolProofs!Lock, Pool!Take, PoolProofs!Take,
     Pool!FindEmpty, PoolProofs!FindEmpty, Pool!Sleep, PoolProofs!Sleep,
     Pool!SpuriousWakeup, PoolProofs!SpuriousWakeup,
     Pool!Finish, PoolProofs!Finish, Pool!Worker, PoolProofs!Worker,
     Pool!Destroy, PoolProofs!Destroy, Pool!DtorStop, PoolProofs!DtorStop,
     Pool!DtorSize, PoolProofs!DtorSize, Pool!DtorFill, PoolProofs!DtorFill,
     Pool!DtorNotifyAll, PoolProofs!DtorNotifyAll, Pool!DtorJoin, PoolProofs!DtorJoin,
     Cardinality, Pool!Cardinality, PoolProofs!Cardinality
-----------------------------------------------------------------------------
(* main(), the callable and the workers never use the pool in a way that   *)
(* its own specification does not have.                                    *)
LEMMA StepUsesPool == [Next]_vars => [Pool!Next]_(Pool!vars)
  BY DEF Next, vars, poolVars, programVars, Main, Loop, Body, Quit, Submit, Notify,
         GetRunnerId, Join, Destroy, End, Register, Refuse, NotifyRunnerId, Script,
         Unregister, Pool!Next, Pool!Worker, Pool!vars

(* `local` is one of the programs ThreadPool speaks of, so that what is    *)
(* promised of the pool, and proved in ThreadPoolProofs, holds here: one   *)
(* program that hands over one callable and destroys the pool at its end.  *)
THEOREM UsesPool == Spec => Pool!Spec
<1>1. Init => Pool!Init
  BY DEF Init
<1> QED  BY <1>1, StepUsesPool, PTL DEF Spec, Pool!Spec

-----------------------------------------------------------------------------
(* How far each of the actors can be when the others are where they are.   *)
ProgramTypes ==
  /\ main \in {"start", "submit", "wait", "join", "exit", "ended"}
  /\ body \in {"none", "create", "notify", "script", "erase", "return", "done"}
  /\ promise \in {"unset", "zero", "id"}
  /\ taskRunInfo \in SUBSET {Runner}

(* main() submits once, destroys the pool at its end and ends after it. *)
MainInv ==
  /\ main = "start" => caller[Runner] = "out"
  /\ main \in {"submit", "wait", "join"} => caller[Runner] # "out"
  /\ main \in {"start", "submit", "wait", "join"} => dtor = "alive"
  /\ main = "join" => promise # "unset"
  /\ main = "ended" => dtor = "gone"
  /\ dtor = "gone" => \A w \in Workers : pc[w] = "exited"

Queued == \E i \in 1 .. Len(m_tasks) : m_tasks[i] = Runner

(* The callable is not begun while it is queued, and a worker has it in    *)
(* hand while it is not done.                                              *)
BodyInv ==
  /\ caller[Runner] = "out" => body = "none"
  /\ Queued => body = "none"
  /\ body \notin {"none", "done"} => \E w \in Workers : pc[w] = "run" /\ task[w] = Runner

(* The promise is set after the runner is registered, which it is until    *)
(* its VM is closed, or without it where there is no VM.                   *)
RegistryInv ==
  /\ promise # "unset" => body \in {"script", "erase", "return", "done"}
  /\ body \in {"notify", "script", "erase"} => taskRunInfo = {Runner}
  /\ main \in {"exit", "ended"} /\ caller[Runner] # "out" => body \in {"return", "done"}

ProgramInv ==
  /\ Pool!TypeOK
  /\ PoolProofs!OnceInv
  /\ ProgramTypes
  /\ MainInv
  /\ BodyInv
  /\ RegistryInv

LEMMA ProgramInit == Init => ProgramInv
<1> SUFFICES ASSUME Init PROVE ProgramInv
  OBVIOUS
<1>1. Pool!TypeOK /\ PoolProofs!OnceInv
  BY PoolAssumptions, SamePoolInit, SamePoolType, PoolProofs!TypeInit, PoolProofs!OnceInit
     DEF Init
<1>2. ProgramTypes /\ RegistryInv
  BY DEF Init, ProgramTypes, RegistryInv
<1>3. MainInv
  BY DEF Init, Pool!Init, MainInv
<1>4. BodyInv
  BY LenProperties DEF Init, Pool!Init, BodyInv, Queued
<1> QED  BY <1>1, <1>2, <1>3, <1>4 DEF ProgramInv

-----------------------------------------------------------------------------
(* What the steps of the pool leave as it is. *)

(* A notification moves nobody but sleepers. *)
LEMMA WakesSleepersOnly ==
  ASSUME NEW mid \in [Workers -> Pool!WorkerPC], Pool!NotifyOne(mid),
         NEW v \in Workers, pc[v] # "asleep"
  PROVE  pc'[v] = mid[v]
  BY DEF Pool!NotifyOne, Pool!Asleep

(* A worker inside a callable stays there until the callable returns, and  *)
(* one that has left its loop does not come back.                          *)
LEMMA SettledStay ==
  ASSUME Pool!TypeOK, [Pool!Next]_(Pool!vars), NEW v \in Workers,
         pc[v] \in {"run", "exited"}, ~Pool!Finish(v)
  PROVE  pc'[v] = pc[v] /\ task'[v] = task[v]
<1> USE DEF Pool!TypeOK
<1>1. ASSUME NEW t \in {Runner}, Pool!AddRunable(t) \/ Pool!NotifyTaken(t)
      PROVE  pc'[v] = pc[v] /\ task'[v] = task[v]
  BY <1>1, WakesSleepersOnly DEF Pool!AddRunable, Pool!NotifyTaken
<1>2. ASSUME NEW w \in Workers, Pool!Peek(w)
      PROVE  pc'[v] = pc[v] /\ task'[v] = task[v]
  <2>1. [pc EXCEPT ![w] = "lock"] \in [Workers -> Pool!WorkerPC] /\ v # w
    BY <1>2 DEF Pool!Peek, Pool!WorkerPC
  <2> QED  BY <1>2, <2>1, WakesSleepersOnly DEF Pool!Peek
<1>3. ASSUME NEW w \in Workers,
             \/ Pool!Test(w) \/ Pool!Lock(w) \/ Pool!Take(w) \/ Pool!FindEmpty(w)
             \/ Pool!Sleep(w) \/ Pool!Finish(w) \/ Pool!SpuriousWakeup(w)
      PROVE  pc'[v] = pc[v] /\ task'[v] = task[v]
  <2>1. v # w
    BY <1>3 DEF Pool!Test, Pool!Lock, Pool!Take, Pool!FindEmpty, Pool!Sleep,
                Pool!SpuriousWakeup
  <2> QED
    BY <1>3, <2>1 DEF Pool!Test, Pool!Lock, Pool!Take, Pool!FindEmpty, Pool!Sleep,
                      Pool!Finish, Pool!SpuriousWakeup
<1>4. CASE Pool!Destroy \/ UNCHANGED Pool!vars
  BY <1>4 DEF Pool!Destroy, Pool!DtorStop, Pool!DtorSize, Pool!DtorFill,
              Pool!DtorNotifyAll, Pool!DtorJoin, Pool!vars
<1> QED  BY <1>1, <1>2, <1>3, <1>4 DEF Pool!Next, Pool!Worker

(* Nobody but addRunable puts the callable into the deque. *)
LEMMA QueuedByCaller ==
  ASSUME Pool!TypeOK, [Pool!Next]_(Pool!vars), ~Pool!AddRunable(Runner), Queued'
  PROVE  Queued
<1> USE DEF Pool!TypeOK
<1>1. CASE m_tasks' = m_tasks  BY <1>1 DEF Queued
<1>2. ASSUME NEW w \in Workers, Pool!Take(w) PROVE Queued
  <2>1. /\ Len(m_tasks) \in Nat
        /\ Len(m_tasks') = Len(m_tasks) - 1
        /\ \A i \in 1 .. Len(m_tasks) - 1 : m_tasks'[i] = m_tasks[i + 1]
    BY <1>2, HeadTailProperties, LenProperties, EmptySeq DEF Pool!Take
  <2>2. \A i \in 1 .. Len(m_tasks') : i + 1 \in 1 .. Len(m_tasks) /\ i \in 1 .. Len(m_tasks) - 1
    BY <2>1
  <2> QED  BY <2>1, <2>2 DEF Queued
<1>3. CASE Pool!DtorFill
  <2>1. /\ Len(m_tasks) \in Nat
        /\ Len(m_tasks') = Len(m_tasks) + 1
        /\ \A i \in 1 .. Len(m_tasks) : m_tasks'[i] = m_tasks[i]
        /\ m_tasks'[Len(m_tasks) + 1] = Nop
    BY <1>3, AppendProperties, LenProperties DEF Pool!DtorFill, Pool!Items
  <2>2. \A i \in 1 .. Len(m_tasks') : i \in 1 .. Len(m_tasks) \/ i = Len(m_tasks) + 1
    BY <2>1
  <2> QED  BY <2>1, <2>2, RunnerAssumption DEF Queued
<1> QED
  BY <1>1, <1>2, <1>3 DEF Pool!Next, Pool!Worker, Pool!vars, Pool!NotifyTaken,
     Pool!Test, Pool!Peek, Pool!Lock, Pool!FindEmpty, Pool!Sleep, Pool!Finish,
     Pool!SpuriousWakeup, Pool!Destroy, Pool!DtorStop, Pool!DtorSize,
     Pool!DtorNotifyAll, Pool!DtorJoin

(* The pool's part of the invariant is kept by every step of the program. *)
LEMMA PoolPartStep ==
  ASSUME Pool!TypeOK, PoolProofs!OnceInv, [Next]_vars
  PROVE  Pool!TypeOK' /\ PoolProofs!OnceInv'
  BY PoolAssumptions, SamePoolType, SamePoolNext, StepUsesPool, PoolProofs!TypeStep,
     PoolProofs!OnceStep

-----------------------------------------------------------------------------
(* The steps of main(). *)
LEMMA MainStep ==
  ASSUME ProgramInv, Main, Pool!TypeOK', PoolProofs!OnceInv'
  PROVE  ProgramInv'
<1> USE DEF ProgramInv, Pool!TypeOK
<1>1. CASE Quit
  <2>1. ProgramTypes' /\ BodyInv' /\ RegistryInv'
    BY <1>1 DEF Quit, poolVars, ProgramTypes, MainInv, BodyInv, RegistryInv, Queued
  <2> QED  BY <1>1, <2>1 DEF Quit, poolVars, MainInv
<1>2. CASE Submit
  <2>1. caller[Runner] = "out" /\ caller'[Runner] = "notify" /\ dtor = "alive"
    BY <1>2 DEF Submit, Pool!AddRunable, MainInv
  <2>2. ProgramTypes' /\ RegistryInv' /\ BodyInv'
    BY <1>2, <2>1 DEF Submit, Pool!AddRunable, ProgramTypes, BodyInv, RegistryInv
  <2> QED  BY <1>2, <2>1, <2>2 DEF Submit, Pool!AddRunable, MainInv
<1>3. CASE Notify
  <2>1. caller[Runner] = "notify" /\ caller'[Runner] = "in"
    BY <1>3 DEF Notify, Pool!NotifyTaken
  <2>2. ProgramTypes' /\ RegistryInv'
    BY <1>3, <2>1 DEF Notify, ProgramTypes, RegistryInv
  <2>3. MainInv'
    BY <1>3, <2>1 DEF Notify, Pool!NotifyTaken, MainInv
  <2>4. \A w \in Workers : pc[w] = "run" => pc'[w] = "run" /\ task'[w] = task[w]
    BY <1>3, WakesSleepersOnly DEF Notify, Pool!NotifyTaken
  <2>5. BodyInv'
    BY <1>3, <2>1, <2>4 DEF Notify, Pool!NotifyTaken, BodyInv, Queued
  <2> QED  BY <2>2, <2>3, <2>5
<1>4. CASE GetRunnerId \/ Join
  <2>1. BodyInv'
    BY <1>4 DEF GetRunnerId, Join, poolVars, BodyInv, Queued
  <2> QED
    BY <1>4, <2>1 DEF GetRunnerId, Join, poolVars, ProgramTypes, MainInv, RegistryInv
<1>5. CASE Destroy
  <2>1. [Next]_vars /\ [Pool!Next]_(Pool!vars) /\ ~Pool!AddRunable(Runner)
    <3>1. [Pool!Next]_(Pool!vars)
      BY <1>5 DEF Destroy, Pool!Next
    <3>2. ~Pool!AddRunable(Runner)
      BY <1>5 DEF Destroy, Pool!Destroy, Pool!DtorStop, Pool!DtorSize, Pool!DtorFill,
                  Pool!DtorNotifyAll, Pool!DtorJoin, Pool!AddRunable
    <3>3. [Next]_vars
      BY <1>5 DEF Next, Main, Destroy
    <3> QED  BY <3>1, <3>2, <3>3
  <2>2. caller' = caller /\ task' = task /\ main = "exit" /\ UNCHANGED programVars
    BY <1>5 DEF Destroy, Pool!Destroy, Pool!DtorStop, Pool!DtorSize, Pool!DtorFill,
                Pool!DtorNotifyAll, Pool!DtorJoin
  <2>3. \A w \in Workers : pc[w] \in {"run", "exited"} => pc'[w] = pc[w]
    BY <1>5 DEF Destroy, Pool!Destroy, Pool!DtorStop, Pool!DtorSize, Pool!DtorFill,
                Pool!DtorNotifyAll, Pool!DtorJoin
  <2>4. dtor' = "gone" => \A w \in Workers : pc[w] = "exited"
    BY <1>5 DEF Destroy, Pool!Destroy, Pool!DtorStop, Pool!DtorSize, Pool!DtorFill,
                Pool!DtorNotifyAll, Pool!DtorJoin, MainInv
  <2>5. Queued' => Queued
    BY <2>1, QueuedByCaller
  <2>6. BodyInv'
    BY <2>2, <2>3, <2>5 DEF BodyInv, programVars
  <2>7. MainInv'
    BY <2>2, <2>3, <2>4 DEF MainInv, programVars
  <2> QED  BY <2>2, <2>6, <2>7 DEF ProgramTypes, RegistryInv, programVars
<1>6. CASE End
  <2>1. BodyInv'
    BY <1>6 DEF End, poolVars, BodyInv, Queued
  <2> QED  BY <1>6, <2>1 DEF End, poolVars, ProgramTypes, MainInv, RegistryInv
<1> QED  BY <1>1, <1>2, <1>3, <1>4, <1>5, <1>6 DEF Main

(* The steps of the callable leave the pool alone. *)
LEMMA BodyStep ==
  ASSUME ProgramInv, Body, Pool!TypeOK', PoolProofs!OnceInv'
  PROVE  ProgramInv'
<1>1. UNCHANGED <<poolVars, main>>
  BY DEF Body, Register, Refuse, NotifyRunnerId, Script, Unregister
<1>2. ProgramTypes'
  BY DEF ProgramInv, ProgramTypes, Body, Register, Refuse, NotifyRunnerId, Script, Unregister
<1>3. MainInv'
  BY <1>1 DEF ProgramInv, MainInv, poolVars, Body, Register, Refuse, NotifyRunnerId,
              Script, Unregister
<1>4. body \notin {"none", "done"} /\ body' \notin {"none", "done"}
  BY DEF Body, Register, Refuse, NotifyRunnerId, Script, Unregister
<1>5. BodyInv'
  BY <1>1, <1>4 DEF ProgramInv, BodyInv, Queued, poolVars
<1>6. RegistryInv'
  BY <1>1 DEF ProgramInv, ProgramTypes, RegistryInv, poolVars, Body, Register, Refuse,
              NotifyRunnerId, Script, Unregister
<1> QED  BY <1>2, <1>3, <1>5, <1>6 DEF ProgramInv

(* The steps of a worker outside the callable. *)
LEMMA LoopStep ==
  ASSUME ProgramInv, NEW w \in Workers,
         Loop(w) \/ (Pool!SpuriousWakeup(w) /\ UNCHANGED programVars),
         Pool!TypeOK', PoolProofs!OnceInv'
  PROVE  ProgramInv'
<1> USE DEF ProgramInv
<1>0. /\ [Pool!Next]_(Pool!vars)
      /\ ~Pool!AddRunable(Runner)
      /\ UNCHANGED <<caller, dtor, main, promise, taskRunInfo>>
  BY DEF Loop, Pool!Next, Pool!Worker, programVars, Pool!AddRunable, Pool!TypeOK,
     Pool!Test, Pool!Peek, Pool!Lock, Pool!Take, Pool!FindEmpty, Pool!Sleep,
     Pool!Finish, Pool!SpuriousWakeup
<1>1. Queued' => Queued
  BY <1>0, QueuedByCaller
<1>2. \A v \in Workers : pc[v] = "exited" => pc'[v] = "exited"
  BY <1>0, SettledStay DEF Pool!Finish
<1>3. MainInv'
  BY <1>0, <1>2 DEF MainInv
<1>4. CASE Pool!Take(w) /\ Head(m_tasks) = Runner
  <2>1. body' = "create" /\ body = "none" /\ caller[Runner] # "out"
        /\ pc'[w] = "run" /\ task'[w] = Runner
    <3>1. Len(m_tasks) \in Nat \ {0} /\ m_tasks[1] = Runner
      <4>1. m_tasks \in Seq(Pool!Items) /\ m_tasks # <<>>
        BY <1>4 DEF Pool!Take, Pool!TypeOK
      <4>2. Len(m_tasks) \in Nat /\ Len(m_tasks) # 0
        BY <4>1, EmptySeq, LenProperties
      <4>3. Head(m_tasks) = m_tasks[1]
        BY <4>1, HeadTailProperties
      <4> QED  BY <1>4, <4>2, <4>3
    <3>2. Queued
      BY <3>1 DEF Queued
    <3>3. body' = "create"
      BY <1>4 DEF Loop, Pool!Take, Pool!Test, Pool!Peek, Pool!Lock, Pool!FindEmpty,
         Pool!Sleep, Pool!Finish, Pool!SpuriousWakeup
    <3>4. caller[Runner] # "out"
      BY <3>1 DEF PoolProofs!OnceInv
    <3> QED  BY <1>4, <3>2, <3>3, <3>4 DEF BodyInv, Pool!Take, Pool!TypeOK
  <2>2. ~Queued'
    <3>1. DOMAIN m_tasks' = 1 .. Len(m_tasks')
      BY LenProperties DEF Pool!TypeOK
    <3> QED  BY <2>1, <3>1 DEF Queued, PoolProofs!OnceInv, PoolProofs!RunOnce
  <2>3. BodyInv'
    BY <2>1, <2>2, <1>0 DEF BodyInv
  <2>4. promise = "unset" /\ main \notin {"exit", "ended"}
    BY <2>1 DEF RegistryInv, ProgramTypes
  <2> QED  BY <1>0, <1>3, <2>1, <2>3, <2>4 DEF ProgramTypes, RegistryInv
<1>5. CASE Pool!Finish(w) /\ task[w] = Runner
  <2>1. body = "return" /\ body' = "done"
    BY <1>5 DEF Loop, Pool!Finish, Pool!Take, Pool!Test, Pool!Peek, Pool!Lock,
       Pool!FindEmpty, Pool!Sleep, Pool!SpuriousWakeup
  <2>2. BodyInv'
    BY <2>1, <1>0, <1>1 DEF BodyInv
  <2> QED  BY <1>0, <1>3, <2>1, <2>2 DEF ProgramTypes, RegistryInv
<1>6. CASE /\ ~(Pool!Take(w) /\ Head(m_tasks) = Runner)
           /\ ~(Pool!Finish(w) /\ task[w] = Runner)
  <2>1. body' = body
    BY <1>6 DEF Loop, programVars
  <2>2. \A v \in Workers : pc[v] = "run" /\ task[v] = Runner =>
                            pc'[v] = "run" /\ task'[v] = Runner
    <3>1. \A v \in Workers : task[v] = Runner => ~Pool!Finish(v)
      <4> SUFFICES ASSUME NEW v \in Workers \ {w}, task[v] = Runner PROVE ~Pool!Finish(v)
        BY <1>6
      <4>1. task'[v] = Runner
        BY DEF Loop, Pool!Finish, Pool!Take, Pool!Test, Pool!Peek, Pool!Lock,
           Pool!FindEmpty, Pool!Sleep, Pool!SpuriousWakeup, Pool!TypeOK
      <4> QED  BY <4>1, RunnerAssumption DEF Pool!Finish, Pool!TypeOK
    <3> QED  BY <3>1, <1>0, SettledStay
  <2>3. BodyInv'
    BY <1>0, <1>1, <2>1, <2>2 DEF BodyInv
  <2> QED  BY <1>0, <1>3, <2>1, <2>3 DEF ProgramTypes, RegistryInv
<1> QED  BY <1>4, <1>5, <1>6

LEMMA ProgramStep == ProgramInv /\ [Next]_vars => ProgramInv'
<1> SUFFICES ASSUME ProgramInv, [Next]_vars PROVE ProgramInv'
  OBVIOUS
<1>1. Pool!TypeOK' /\ PoolProofs!OnceInv'
  BY PoolPartStep DEF ProgramInv
<1>2. CASE Main  BY <1>1, <1>2, MainStep
<1>3. CASE Body  BY <1>1, <1>3, BodyStep
<1>4. CASE \E w \in Workers : Loop(w) \/ (Pool!SpuriousWakeup(w) /\ UNCHANGED programVars)
  BY <1>1, <1>4, LoopStep
<1>5. CASE UNCHANGED vars
  BY <1>1, <1>5 DEF vars, poolVars, programVars, ProgramInv, ProgramTypes, MainInv,
     BodyInv, Queued, RegistryInv
<1> QED  BY <1>2, <1>3, <1>4, <1>5 DEF Next

LEMMA ProgramAlways == Spec => []ProgramInv
  BY ProgramInit, ProgramStep, PTL DEF Spec

-----------------------------------------------------------------------------
(* When main() has returned, with a script handed over, the callable has   *)
(* closed its VM and is not in the deque that ~ThreadPool() drops.         *)
THEOREM NotAbandoned == Spec => []ScriptNotAbandoned
<1>1. ProgramInv => ScriptNotAbandoned
  <2> SUFFICES ASSUME ProgramInv, main \in {"exit", "ended"}, caller[Runner] # "out"
               PROVE  /\ body \in {"return", "done"}
                      /\ \A i \in DOMAIN m_tasks : m_tasks[i] # Runner
    BY DEF ScriptNotAbandoned
  <2>1. body \in {"return", "done"}
    BY DEF ProgramInv, RegistryInv
  <2>2. DOMAIN m_tasks = 1 .. Len(m_tasks)
    BY LenProperties DEF ProgramInv, Pool!TypeOK
  <2> QED  BY <2>1, <2>2 DEF ProgramInv, BodyInv, Queued
<1> QED  BY <1>1, ProgramAlways, PTL

(* A process that ends has run the callable to its end. *)
THEOREM EndsAfter == Spec => []EndsAfterScript
<1>1. ProgramInv => EndsAfterScript
  BY DEF ProgramInv, EndsAfterScript, MainInv, BodyInv, RegistryInv
<1> QED  BY <1>1, ProgramAlways, PTL
=============================================================================
