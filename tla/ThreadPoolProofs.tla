--------------------------- MODULE ThreadPoolProofs ---------------------------
(***************************************************************************)
(* Proofs about modules/ThreadPool.h for any number of workers and any set *)
(* of callables.  ThreadPool.tla states the properties; this module adds   *)
(* the strengthenings that make them inductive.                            *)
(***************************************************************************)
EXTENDS ThreadPool, FiniteSetTheorems, SequenceTheorems, TLAPS

-----------------------------------------------------------------------------
(* What the steps that change the deque do to it.                          *)

(* Appending adds one entry behind the others. *)
LEMMA AppendSeq ==
  ASSUME NEW S, NEW s \in Seq(S), NEW e \in S
  PROVE  /\ Append(s, e) \in Seq(S)
         /\ Len(Append(s, e)) = Len(s) + 1
         /\ \A i \in 1 .. Len(s) : Append(s, e)[i] = s[i]
         /\ Append(s, e)[Len(s) + 1] = e
  BY AppendProperties

(* Popping removes the first entry and moves the others up by one. *)
LEMMA PopSeq ==
  ASSUME NEW S, NEW s \in Seq(S), s # <<>>
  PROVE  /\ Head(s) \in S
         /\ Head(s) = s[1]
         /\ Tail(s) \in Seq(S)
         /\ Len(s) \in Nat \ {0}
         /\ Len(Tail(s)) = Len(s) - 1
         /\ \A i \in 1 .. Len(s) - 1 : Tail(s)[i] = s[i + 1]
  BY HeadTailProperties, EmptySeq

-----------------------------------------------------------------------------
(* notify_one leaves every worker in a legal place, and wakes at most one. *)
LEMMA NotifyOneType ==
  ASSUME NEW mid \in [Workers -> WorkerPC], NotifyOne(mid)
  PROVE  pc' \in [Workers -> WorkerPC]
  BY DEF NotifyOne, WorkerPC

(* A notification moves at most sleeping workers, and those to "woken". *)
LEMMA NotifyOneEffect ==
  ASSUME NEW mid \in [Workers -> WorkerPC], NotifyOne(mid),
         \A v \in Asleep : mid[v] = "asleep"
  PROVE  \A u \in Workers :
           \/ pc'[u] = mid[u]
           \/ pc[u] = "asleep" /\ mid[u] = "asleep" /\ pc'[u] = "woken"
  BY DEF NotifyOne, Asleep

(* The unlocked peek moves its worker on and wakes at most sleepers. *)
LEMMA PeekEffect ==
  ASSUME TypeOK, NEW w \in Workers, Peek(w)
  PROVE  /\ pc'[w] = "lock"
         /\ \A u \in Workers \ {w} :
              pc'[u] = pc[u] \/ (pc[u] = "asleep" /\ pc'[u] = "woken")
<1> DEFINE mid == [pc EXCEPT ![w] = "lock"]
<1>1. pc[w] = "peek" /\ mid \in [Workers -> WorkerPC]
  BY DEF Peek, TypeOK, WorkerPC
<1>2. \A v \in Asleep : mid[v] = "asleep"
  BY <1>1 DEF Asleep, TypeOK
<1>3. CASE pc' = mid  BY <1>3 DEF TypeOK
<1>4. CASE NotifyOne(mid)
  <2> HIDE DEF mid
  <2>1. \A u \in Workers :
          \/ pc'[u] = mid[u]
          \/ pc[u] = "asleep" /\ mid[u] = "asleep" /\ pc'[u] = "woken"
    BY <1>1, <1>2, <1>4, NotifyOneEffect
  <2> QED  BY <2>1, <1>1 DEF TypeOK, mid
<1> QED  BY <1>3, <1>4 DEF Peek

(* addRunable's notification moves nobody but sleepers. *)
LEMMA NotifyTakenEffect ==
  ASSUME TypeOK, NEW t \in Tasks, NotifyTaken(t)
  PROVE  \A u \in Workers :
           pc'[u] = pc[u] \/ (pc[u] = "asleep" /\ pc'[u] = "woken")
<1>1. \A v \in Asleep : pc[v] = "asleep"
  BY DEF Asleep
<1> QED  BY <1>1, NotifyOneEffect DEF NotifyTaken, TypeOK

-----------------------------------------------------------------------------
(* The type invariant is inductive as it stands. *)
LEMMA TypeInit == Init => TypeOK
  BY EmptySeq DEF Init, TypeOK, Items, WorkerPC

LEMMA TypeStep == TypeOK /\ [Next]_vars => TypeOK'
<1> SUFFICES ASSUME TypeOK, [Next]_vars PROVE TypeOK'
  OBVIOUS
<1> USE DEF TypeOK, Items
<1>1. ASSUME NEW t \in Tasks, AddRunable(t) PROVE TypeOK'
  BY <1>1, AppendSeq DEF AddRunable
<1>2. ASSUME NEW t \in Tasks, NotifyTaken(t) PROVE TypeOK'
  BY <1>2, NotifyOneType, NotifyTakenEffect DEF NotifyTaken
<1>3. ASSUME NEW w \in Workers, Test(w) PROVE TypeOK'
  BY <1>3 DEF Test, WorkerPC
<1>4. ASSUME NEW w \in Workers, Peek(w) PROVE TypeOK'
  <2>1. [pc EXCEPT ![w] = "lock"] \in [Workers -> WorkerPC]
    BY DEF WorkerPC
  <2>2. pc' \in [Workers -> WorkerPC]
    BY <1>4, <2>1, NotifyOneType DEF Peek
  <2> QED  BY <1>4, <2>2, PeekEffect DEF Peek
<1>5. ASSUME NEW w \in Workers, Lock(w) PROVE TypeOK'
  BY <1>5 DEF Lock, WorkerPC
<1>6. ASSUME NEW w \in Workers, Take(w) PROVE TypeOK'
  BY <1>6, PopSeq, TasksAssumption DEF Take, WorkerPC
<1>7. ASSUME NEW w \in Workers, FindEmpty(w) PROVE TypeOK'
  BY <1>7 DEF FindEmpty, WorkerPC
<1>8. ASSUME NEW w \in Workers, Sleep(w) PROVE TypeOK'
  BY <1>8 DEF Sleep, WorkerPC
<1>9. ASSUME NEW w \in Workers, SpuriousWakeup(w) PROVE TypeOK'
  BY <1>9 DEF SpuriousWakeup, WorkerPC
<1>10. ASSUME NEW w \in Workers, Finish(w) PROVE TypeOK'
  BY <1>10 DEF Finish, WorkerPC
<1>11. CASE DtorStop  BY <1>11 DEF DtorStop
<1>12. CASE DtorSize  BY <1>12, LenProperties DEF DtorSize
<1>13. CASE DtorFill  BY <1>13, AppendSeq DEF DtorFill
<1>14. CASE DtorNotifyAll  BY <1>14 DEF DtorNotifyAll, WorkerPC
<1>15. CASE DtorJoin  BY <1>15 DEF DtorJoin
<1>16. CASE UNCHANGED vars  BY <1>16 DEF vars
<1> QED
  BY <1>1, <1>2, <1>3, <1>4, <1>5, <1>6, <1>7, <1>8, <1>9, <1>10, <1>11, <1>12,
     <1>13, <1>14, <1>15, <1>16 DEF Next, Worker, Destroy

(* The variables of the pool keep their types whatever workers, callers    *)
(* and the destructor do.                                                  *)
THEOREM TypeCorrect == Spec => []TypeOK
  BY TypeInit, TypeStep, PTL DEF Spec

-----------------------------------------------------------------------------
(* Mutual exclusion is inductive relative to the types. *)
LEMMA MutexInit == Init => MutexHeld
  BY WorkersAssumption DEF Init, MutexHeld

LEMMA MutexStep == TypeOK /\ MutexHeld /\ [Next]_vars => MutexHeld'
<1> SUFFICES ASSUME TypeOK, MutexHeld, [Next]_vars PROVE MutexHeld'
  OBVIOUS
<1> USE DEF TypeOK, MutexHeld
<1>1. ASSUME NEW t \in Tasks, AddRunable(t) PROVE MutexHeld'
  BY <1>1 DEF AddRunable
<1>2. ASSUME NEW t \in Tasks, NotifyTaken(t) PROVE MutexHeld'
  BY <1>2, NotifyTakenEffect DEF NotifyTaken
<1>3. ASSUME NEW w \in Workers, Test(w) PROVE MutexHeld'
  BY <1>3 DEF Test
<1>4. ASSUME NEW w \in Workers, Peek(w) PROVE MutexHeld'
  BY <1>4, PeekEffect DEF Peek
<1>5. ASSUME NEW w \in Workers, Lock(w) PROVE MutexHeld'
  BY <1>5, WorkersAssumption DEF Lock
<1>6. ASSUME NEW w \in Workers, Take(w) PROVE MutexHeld'
  BY <1>6, WorkersAssumption DEF Take
<1>7. ASSUME NEW w \in Workers, FindEmpty(w) PROVE MutexHeld'
  BY <1>7 DEF FindEmpty
<1>8. ASSUME NEW w \in Workers, Sleep(w) PROVE MutexHeld'
  BY <1>8, WorkersAssumption DEF Sleep
<1>9. ASSUME NEW w \in Workers, SpuriousWakeup(w) PROVE MutexHeld'
  BY <1>9 DEF SpuriousWakeup
<1>10. ASSUME NEW w \in Workers, Finish(w) PROVE MutexHeld'
  BY <1>10 DEF Finish
<1>11. CASE DtorStop \/ DtorSize \/ DtorFill \/ DtorJoin
  BY <1>11 DEF DtorStop, DtorSize, DtorFill, DtorJoin
<1>12. CASE DtorNotifyAll  BY <1>12 DEF DtorNotifyAll
<1>13. CASE UNCHANGED vars  BY <1>13 DEF vars
<1> QED
  BY <1>1, <1>2, <1>3, <1>4, <1>5, <1>6, <1>7, <1>8, <1>9, <1>10, <1>11, <1>12,
     <1>13 DEF Next, Worker, Destroy

(* At most one worker is between taking and releasing m_takeMutex, however *)
(* many workers and callers there are.                                     *)
THEOREM MutualExclusion == Spec => []MutexHeld
  BY TypeInit, TypeStep, MutexInit, MutexStep, PTL DEF Spec

-----------------------------------------------------------------------------
(* RunOnce needs to know where a callable may be: once in the deque, or in *)
(* the hands of one worker, and nowhere before its addRunable call.        *)
OnceInv ==
  /\ \A i, j \in 1 .. Len(m_tasks) :
       m_tasks[i] \in Tasks /\ m_tasks[i] = m_tasks[j] => i = j
  /\ \A i \in 1 .. Len(m_tasks) :
       m_tasks[i] \in Tasks => caller[m_tasks[i]] # "out"
  /\ \A w \in Workers : task[w] \in Tasks => caller[task[w]] # "out"
  /\ RunOnce

LEMMA OnceInit == Init => OnceInv
  BY TasksAssumption DEF Init, OnceInv, RunOnce

(* The steps that leave deque and hands alone. *)
LEMMA OnceFrame ==
  ASSUME TypeOK, OnceInv, UNCHANGED <<m_tasks, task>>,
         \A t \in Tasks : caller[t] # "out" => caller'[t] # "out"
  PROVE  OnceInv'
<1>1. DOMAIN m_tasks = 1 .. Len(m_tasks)
  BY LenProperties DEF TypeOK
<1> QED  BY <1>1 DEF OnceInv, RunOnce

LEMMA OnceStep == TypeOK /\ OnceInv /\ [Next]_vars => OnceInv'
<1> SUFFICES ASSUME TypeOK, OnceInv, [Next]_vars PROVE OnceInv'
  OBVIOUS
<1>0. TypeOK' /\ DOMAIN m_tasks = 1 .. Len(m_tasks) /\ DOMAIN m_tasks' = 1 .. Len(m_tasks')
  BY TypeStep, LenProperties DEF TypeOK
<1>1. ASSUME NEW t \in Tasks, AddRunable(t) PROVE OnceInv'
  <2>1. /\ Len(m_tasks) \in Nat
        /\ Len(m_tasks') = Len(m_tasks) + 1
        /\ \A i \in 1 .. Len(m_tasks) : m_tasks'[i] = m_tasks[i]
        /\ m_tasks'[Len(m_tasks) + 1] = t
    BY <1>1, AppendSeq, LenProperties DEF AddRunable, TypeOK, Items
  <2>2. /\ caller[t] = "out" /\ caller'[t] = "notify" /\ task' = task
        /\ \A u \in Tasks : u # t => caller'[u] = caller[u]
    BY <1>1 DEF AddRunable, TypeOK
  <2>3. \A i \in 1 .. Len(m_tasks) : m_tasks[i] # t
    BY <2>2 DEF OnceInv
  <2>4. \A w \in Workers : task[w] # t
    BY <2>2 DEF OnceInv
  <2>5. \A i \in 1 .. Len(m_tasks') : i \in 1 .. Len(m_tasks) \/ i = Len(m_tasks) + 1
    BY <2>1
  <2>6. \A i, j \in 1 .. Len(m_tasks') :
          m_tasks'[i] \in Tasks /\ m_tasks'[i] = m_tasks'[j] => i = j
    BY <2>1, <2>3, <2>5 DEF OnceInv
  <2>7. \A i \in 1 .. Len(m_tasks') : m_tasks'[i] \in Tasks => caller'[m_tasks'[i]] # "out"
    BY <2>1, <2>2, <2>5 DEF OnceInv
  <2>8. \A w \in Workers : task'[w] \in Tasks => caller'[task'[w]] # "out"
    BY <2>2, <2>4 DEF OnceInv
  <2>9. RunOnce'
    BY <2>1, <2>2, <2>4, <2>5, <1>0 DEF OnceInv, RunOnce
  <2> QED  BY <2>6, <2>7, <2>8, <2>9 DEF OnceInv
<1>2. ASSUME NEW t \in Tasks, NotifyTaken(t) PROVE OnceInv'
  BY <1>2, OnceFrame DEF NotifyTaken, TypeOK
<1>3. ASSUME NEW w \in Workers, Take(w) PROVE OnceInv'
  <2>1. /\ Len(m_tasks) \in Nat \ {0}
        /\ Head(m_tasks) = m_tasks[1]
        /\ Len(m_tasks') = Len(m_tasks) - 1
        /\ \A i \in 1 .. Len(m_tasks') : m_tasks'[i] = m_tasks[i + 1]
    BY <1>3, PopSeq DEF Take, TypeOK, Items
  <2>2. /\ task'[w] = m_tasks[1] /\ caller' = caller
        /\ \A v \in Workers \ {w} : task'[v] = task[v]
    BY <1>3, <2>1 DEF Take, TypeOK
  <2>3. \A i \in 1 .. Len(m_tasks') :
          i + 1 \in 1 .. Len(m_tasks) /\ i + 1 # 1 /\ 1 \in 1 .. Len(m_tasks)
    BY <2>1
  <2>4. \A i, j \in 1 .. Len(m_tasks') :
          m_tasks'[i] \in Tasks /\ m_tasks'[i] = m_tasks'[j] => i = j
    <3> SUFFICES ASSUME NEW i \in 1 .. Len(m_tasks'), NEW j \in 1 .. Len(m_tasks'),
                        m_tasks'[i] \in Tasks, m_tasks'[i] = m_tasks'[j]
                 PROVE  i = j
      OBVIOUS
    <3>1. i + 1 = j + 1
      BY <2>1, <2>3 DEF OnceInv
    <3> QED  BY <3>1
  <2>5. \A i \in 1 .. Len(m_tasks') : m_tasks'[i] \in Tasks => caller'[m_tasks'[i]] # "out"
    BY <2>1, <2>2, <2>3 DEF OnceInv
  <2>6. 1 \in 1 .. Len(m_tasks)
    BY <2>1
  <2>7. \A v \in Workers : task'[v] \in Tasks => caller'[task'[v]] # "out"
    BY <2>2, <2>6 DEF OnceInv
  <2>8. m_tasks[1] \in Tasks => \A i \in 1 .. Len(m_tasks') : m_tasks'[i] # m_tasks[1]
    BY <2>1, <2>3 DEF OnceInv
  <2>9. \A v \in Workers \ {w} : task[v] \in Tasks => task[v] # m_tasks[1]
    BY <2>6, <1>0 DEF OnceInv, RunOnce
  <2>10. \A v \in Workers \ {w} : task[v] \in Tasks =>
           \A i \in 1 .. Len(m_tasks') : m_tasks'[i] # task[v]
    BY <2>1, <2>3, <1>0 DEF OnceInv, RunOnce
  <2>11. \A v \in Workers \ {w} : task[v] \in Tasks =>
           \A u \in Workers \ {v} : task[u] # task[v]
    BY DEF OnceInv, RunOnce
  <2>12. RunOnce'
    BY <2>2, <2>8, <2>9, <2>10, <2>11, <1>0 DEF RunOnce
  <2> QED  BY <2>4, <2>5, <2>7, <2>12 DEF OnceInv
<1>4. ASSUME NEW w \in Workers, Finish(w) PROVE OnceInv'
  BY <1>4, TasksAssumption DEF Finish, TypeOK, OnceInv, RunOnce
<1>5. ASSUME NEW w \in Workers,
             \/ Test(w) \/ Peek(w) \/ Lock(w) \/ FindEmpty(w) \/ Sleep(w)
             \/ SpuriousWakeup(w)
      PROVE  OnceInv'
  BY <1>5, OnceFrame DEF Test, Peek, Lock, FindEmpty, Sleep, SpuriousWakeup
<1>6. CASE DtorFill
  <2>1. /\ Len(m_tasks) \in Nat
        /\ Len(m_tasks') = Len(m_tasks) + 1
        /\ \A i \in 1 .. Len(m_tasks) : m_tasks'[i] = m_tasks[i]
        /\ m_tasks'[Len(m_tasks) + 1] \notin Tasks
    BY <1>6, AppendSeq, LenProperties, TasksAssumption DEF DtorFill, TypeOK, Items
  <2>2. task' = task /\ caller' = caller
    BY <1>6 DEF DtorFill
  <2>3. \A i \in 1 .. Len(m_tasks') : i \in 1 .. Len(m_tasks) \/ i = Len(m_tasks) + 1
    BY <2>1
  <2>4. \A i, j \in 1 .. Len(m_tasks') :
          m_tasks'[i] \in Tasks /\ m_tasks'[i] = m_tasks'[j] => i = j
    BY <2>1, <2>3 DEF OnceInv
  <2>5. RunOnce'
    BY <2>1, <2>2, <2>3, <1>0 DEF OnceInv, RunOnce
  <2> QED  BY <2>1, <2>2, <2>3, <2>4, <2>5 DEF OnceInv
<1>7. CASE DtorStop \/ DtorSize \/ DtorNotifyAll \/ DtorJoin
  BY <1>7, OnceFrame DEF DtorStop, DtorSize, DtorNotifyAll, DtorJoin
<1>8. CASE UNCHANGED vars  BY <1>8, OnceFrame DEF vars
<1> QED
  BY <1>1, <1>2, <1>3, <1>4, <1>5, <1>6, <1>7, <1>8 DEF Next, Worker, Destroy

(* No callable is ever executed by two workers, or executed and queued. *)
THEOREM EachTaskRunsOnce == Spec => []RunOnce
<1>1. OnceInv => RunOnce
  BY DEF OnceInv
<1> QED  BY <1>1, TypeInit, TypeStep, OnceInit, OnceStep, PTL DEF Spec

-----------------------------------------------------------------------------
(* While the pool is in use, the wakeups still to come cover the deque.    *)
Pending == {t \in Tasks : caller[t] = "notify"}

Covered == Len(m_tasks) <= Cardinality(Heading) + Cardinality(Pending)

(* A worker about to sleep has seen an empty deque and still holds the     *)
(* mutex, so nothing can have been appended behind its back: this is what  *)
(* fails once ~ThreadPool() appends without the mutex.                     *)
WakeupInv ==
  /\ IsFiniteSet(Pending)
  /\ dtor = "alive" =>
       /\ m_started
       /\ \A w \in Workers : pc[w] = "block" => m_tasks = <<>>
       /\ Asleep # {} => Covered

(* The workers on their way to the deque are finitely many. *)
LEMMA HeadingFinite ==
  /\ IsFiniteSet(Heading)
  /\ Cardinality(Heading) \in Nat
  BY WorkersAssumption, FS_Subset, FS_CardinalityType DEF Heading

(* A set that only grows keeps at least its size; by one element, exactly  *)
(* one more.                                                               *)
LEMMA GrowByOne ==
  ASSUME NEW S, NEW x, IsFiniteSet(S), x \notin S
  PROVE  Cardinality(S) \in Nat /\ Cardinality(S \cup {x}) = Cardinality(S) + 1
  BY FS_AddElement, FS_CardinalityType

LEMMA ShrinkByOne ==
  ASSUME NEW S, NEW x, IsFiniteSet(S), x \in S
  PROVE  Cardinality(S) \in Nat /\ Cardinality(S \ {x}) = Cardinality(S) - 1
  BY FS_RemoveElement, FS_CardinalityType

LEMMA WakeupInit == Init => WakeupInv
<1> SUFFICES ASSUME Init PROVE WakeupInv
  OBVIOUS
<1>1. Pending = {}
  BY DEF Init, Pending
<1>2. IsFiniteSet(Pending)
  BY <1>1, FS_EmptySet
<1>3. Asleep = {}
  BY DEF Init, Asleep
<1> QED  BY <1>2, <1>3 DEF WakeupInv, Init

(* Steps by which no worker stops heading for the deque, no notification   *)
(* is sent or lost and the deque does not change.                          *)
LEMMA WakeupFrame ==
  ASSUME TypeOK, WakeupInv, UNCHANGED <<m_tasks, m_started, caller>>,
         dtor' = "alive" => dtor = "alive",
         Heading \subseteq Heading',
         \A w \in Workers : pc'[w] = "asleep" => pc[w] = "asleep",
         \A w \in Workers : pc'[w] = "block" => pc[w] = "block" \/ m_tasks = <<>>
  PROVE  WakeupInv'
<1>1. Pending' = Pending
  BY DEF Pending
<1>2. Cardinality(Heading) <= Cardinality(Heading') /\ Cardinality(Heading') \in Nat
      /\ Cardinality(Heading) \in Nat
  <2>1. IsFiniteSet(Heading') /\ Heading' \subseteq Workers
    BY WorkersAssumption, FS_Subset DEF Heading
  <2> QED  BY <2>1, FS_Subset, FS_CardinalityType, HeadingFinite
<1>3. Cardinality(Pending) \in Nat
  BY FS_CardinalityType DEF WakeupInv
<1>4. Len(m_tasks) \in Nat
  BY LenProperties DEF TypeOK
<1>5. Asleep' # {} => Asleep # {}
  BY DEF Asleep
<1>6. dtor = "alive" /\ Asleep # {} => Covered'
  BY <1>1, <1>2, <1>3, <1>4 DEF WakeupInv, Covered
<1> QED  BY <1>1, <1>5, <1>6 DEF WakeupInv

LEMMA WakeupStep == TypeOK /\ MutexHeld /\ WakeupInv /\ [Next]_vars => WakeupInv'
<1> SUFFICES ASSUME TypeOK, MutexHeld, WakeupInv, [Next]_vars PROVE WakeupInv'
  OBVIOUS
<1>0. /\ TypeOK'
      /\ Len(m_tasks) \in Nat
      /\ IsFiniteSet(Pending) /\ Cardinality(Pending) \in Nat
      /\ IsFiniteSet(Heading) /\ Cardinality(Heading) \in Nat
  BY TypeStep, LenProperties, HeadingFinite, FS_CardinalityType DEF TypeOK, WakeupInv
<1>1. ASSUME NEW t \in Tasks, AddRunable(t) PROVE WakeupInv'
  <2>1. Pending' = Pending \cup {t} /\ t \notin Pending
    BY <1>1 DEF AddRunable, Pending, TypeOK
  <2>2. IsFiniteSet(Pending') /\ Cardinality(Pending') = Cardinality(Pending) + 1
    BY <2>1, <1>0, FS_AddElement
  <2>3. Len(m_tasks') = Len(m_tasks) + 1
    BY <1>1, AppendSeq DEF AddRunable, TypeOK, Items
  <2>4. Heading' = Heading /\ Asleep' = Asleep
    BY <1>1 DEF AddRunable, Heading, Asleep
  <2>5. \A w \in Workers : pc'[w] # "block"
    BY <1>1, WorkersAssumption DEF AddRunable, MutexHeld
  <2>6. dtor = "alive" /\ Asleep' # {} => Covered'
    BY <2>2, <2>3, <2>4, <1>0 DEF WakeupInv, Covered
  <2> QED  BY <1>1, <2>2, <2>5, <2>6 DEF WakeupInv, AddRunable
<1>2. ASSUME NEW t \in Tasks, NotifyTaken(t) PROVE WakeupInv'
  <2>1. Pending' = Pending \ {t} /\ t \in Pending
    BY <1>2 DEF NotifyTaken, Pending, TypeOK
  <2>2. IsFiniteSet(Pending') /\ Cardinality(Pending') = Cardinality(Pending) - 1
    BY <2>1, <1>0, ShrinkByOne, FS_RemoveElement
  <2>3. CASE Asleep = {} /\ pc' = pc
    BY <1>2, <2>2, <2>3 DEF WakeupInv, NotifyTaken, Asleep
  <2>4. CASE \E v \in Asleep : pc' = [pc EXCEPT ![v] = "woken"]
    <3>1. PICK v \in Asleep : pc' = [pc EXCEPT ![v] = "woken"]
      BY <2>4
    <3>2. Heading' = Heading \cup {v} /\ v \notin Heading
      BY <3>1 DEF Heading, Asleep, TypeOK
    <3>3. Cardinality(Heading') = Cardinality(Heading) + 1
      BY <3>2, <1>0, GrowByOne
    <3>4. \A w \in Workers : pc'[w] = "block" => pc[w] = "block"
      BY <3>1 DEF TypeOK
    <3>5. dtor = "alive" => Covered'
      <4>1. m_tasks' = m_tasks
        BY <1>2 DEF NotifyTaken
      <4>2. dtor = "alive" => Covered
        BY <3>1 DEF WakeupInv
      <4> QED  BY <4>1, <4>2, <3>3, <2>2, <1>0 DEF Covered
    <3> QED  BY <1>2, <2>2, <3>4, <3>5 DEF WakeupInv, NotifyTaken
  <2> QED  BY <1>2, <2>3, <2>4 DEF NotifyTaken, NotifyOne
<1>3. ASSUME NEW w \in Workers, Test(w) PROVE WakeupInv'
  <2>1. CASE m_started
    <3>1. Heading \subseteq Heading'
      BY <1>3, <2>1 DEF Test, Heading, TypeOK
    <3> QED  BY <1>3, <2>1, <3>1, WakeupFrame DEF Test, TypeOK
  <2>2. CASE ~m_started
    <3>1. dtor' # "alive" /\ Pending' = Pending
      BY <1>3, <2>2 DEF WakeupInv, Test, Pending
    <3> QED  BY <3>1, <1>0 DEF WakeupInv
  <2> QED  BY <2>1, <2>2 DEF TypeOK
<1>4. ASSUME NEW w \in Workers, Peek(w) PROVE WakeupInv'
  <2>1. Heading \subseteq Heading'
    BY <1>4, PeekEffect DEF Heading
  <2> QED  BY <1>4, <2>1, PeekEffect, WakeupFrame DEF Peek
<1>5. ASSUME NEW w \in Workers, Lock(w) PROVE WakeupInv'
  <2>1. Heading \subseteq Heading'
    BY <1>5 DEF Lock, Heading, TypeOK
  <2> QED  BY <1>5, <2>1, WakeupFrame DEF Lock, TypeOK
<1>6. ASSUME NEW w \in Workers, Take(w) PROVE WakeupInv'
  <2>1. Heading' = Heading \ {w} /\ w \in Heading
    BY <1>6 DEF Take, Heading, TypeOK
  <2>2. Cardinality(Heading') = Cardinality(Heading) - 1
    BY <2>1, <1>0, ShrinkByOne
  <2>3. Len(m_tasks') = Len(m_tasks) - 1
    BY <1>6, PopSeq DEF Take, TypeOK
  <2>4. Pending' = Pending /\ Asleep' = Asleep
    BY <1>6 DEF Take, Pending, Asleep, TypeOK
  <2>5. \A u \in Workers : pc'[u] # "block"
    BY <1>6 DEF Take, MutexHeld, TypeOK
  <2>6. dtor = "alive" /\ Asleep' # {} => Covered'
    BY <2>2, <2>3, <2>4, <1>0 DEF WakeupInv, Covered
  <2> QED  BY <1>6, <2>4, <2>5, <2>6, <1>0 DEF WakeupInv, Take
<1>7. ASSUME NEW w \in Workers, FindEmpty(w) PROVE WakeupInv'
  <2>1. m_tasks' = <<>> /\ Pending' = Pending /\ IsFiniteSet(Heading')
    BY <1>7, WorkersAssumption, FS_Subset DEF FindEmpty, Pending, Heading
  <2>2. Covered'
    BY <2>1, <1>0, FS_CardinalityType, EmptySeq DEF Covered
  <2> QED  BY <1>7, <2>1, <2>2, <1>0 DEF WakeupInv, FindEmpty
<1>8. ASSUME NEW w \in Workers, Sleep(w) PROVE WakeupInv'
  <2>1. Pending' = Pending /\ IsFiniteSet(Heading')
    BY <1>8, WorkersAssumption, FS_Subset DEF Sleep, Pending, Heading
  <2>2. dtor = "alive" => m_tasks' = <<>>
    BY <1>8 DEF Sleep, WakeupInv
  <2>3. dtor = "alive" => Covered'
    BY <2>1, <2>2, <1>0, FS_CardinalityType, EmptySeq DEF Covered
  <2> QED  BY <1>8, <2>1, <2>2, <2>3, <1>0 DEF WakeupInv, Sleep
<1>9. ASSUME NEW w \in Workers, SpuriousWakeup(w) \/ Finish(w) PROVE WakeupInv'
  <2>1. Heading \subseteq Heading'
    BY <1>9 DEF SpuriousWakeup, Finish, Heading, TypeOK
  <2> QED  BY <1>9, <2>1, WakeupFrame DEF SpuriousWakeup, Finish, TypeOK
<1>10. CASE Destroy
  <2>1. dtor' # "alive" /\ Pending' = Pending
    BY <1>10 DEF Destroy, DtorStop, DtorSize, DtorFill, DtorNotifyAll, DtorJoin, Pending
  <2> QED  BY <2>1, <1>0 DEF WakeupInv
<1>11. CASE UNCHANGED vars
  <2>1. Heading' = Heading
    BY <1>11 DEF vars, Heading
  <2> QED  BY <1>11, <2>1, WakeupFrame DEF vars
<1> QED
  BY <1>1, <1>2, <1>3, <1>4, <1>5, <1>6, <1>7, <1>8, <1>9, <1>10, <1>11
  DEF Next, Worker

(* As long as the pool is not being destroyed, a sleeping worker never     *)
(* goes unneeded while callables wait that nobody is coming for.           *)
THEOREM WakeupsSuffice == Spec => []NoLostWakeup
<1>1. WakeupInv => NoLostWakeup
  BY DEF WakeupInv, NoLostWakeup, Covered, Pending
<1> QED
  BY <1>1, TypeInit, TypeStep, MutexInit, MutexStep, WakeupInit, WakeupStep, PTL DEF Spec

-----------------------------------------------------------------------------
(* The destructor's arithmetic.  While it appends, each worker that has    *)
(* stopped taking since m_tasks.size() was read makes up for an entry that *)
(* has been popped since: the deque is at most so much shorter than i.     *)
FillInv ==
  /\ m_started <=> dtor = "alive"
  /\ dtor = "fill" =>
       fill + Cardinality(Takers) <= Len(m_tasks) + Cardinality(Workers)
  /\ EnoughFill

LEMMA TakersFinite ==
  /\ IsFiniteSet(Takers)
  /\ Cardinality(Takers) \in Nat
  /\ Cardinality(Workers) \in Nat
  /\ Cardinality(Takers) <= Cardinality(Workers)
  BY WorkersAssumption, FS_Subset, FS_CardinalityType DEF Takers

LEMMA FillInit == Init => FillInv
  BY DEF Init, FillInv, EnoughFill

(* Steps that make no worker a taker and shorten nothing. *)
LEMMA FillFrame ==
  ASSUME TypeOK, TypeOK', FillInv, UNCHANGED <<m_started, dtor, fill>>,
         dtor # "alive" => Takers' \subseteq Takers,
         Len(m_tasks') >= Len(m_tasks)
  PROVE  FillInv'
<1>1. Len(m_tasks) \in Nat /\ Len(m_tasks') \in Nat /\ fill \in Nat
  BY LenProperties DEF TypeOK
<1>2. dtor # "alive" => Cardinality(Takers') <= Cardinality(Takers) /\ Cardinality(Takers') \in Nat
  BY TakersFinite, FS_Subset, FS_CardinalityType
<1> QED  BY <1>1, <1>2, TakersFinite DEF FillInv, EnoughFill, TypeOK

LEMMA FillStep == TypeOK /\ FillInv /\ [Next]_vars => FillInv'
<1> SUFFICES ASSUME TypeOK, FillInv, [Next]_vars PROVE FillInv'
  OBVIOUS
<1>0. TypeOK' /\ Len(m_tasks) \in Nat /\ fill \in Nat
  BY TypeStep, LenProperties DEF TypeOK
<1>1. ASSUME NEW t \in Tasks, AddRunable(t) PROVE FillInv'
  <2>1. Len(m_tasks') = Len(m_tasks) + 1 /\ Takers' = Takers
    BY <1>1, AppendSeq DEF AddRunable, TypeOK, Items, Takers
  <2> QED  BY <1>0, <1>1, <2>1, FillFrame DEF AddRunable
<1>2. ASSUME NEW t \in Tasks, NotifyTaken(t) PROVE FillInv'
  <2>1. Takers' \subseteq Takers
    BY <1>2, NotifyTakenEffect DEF Takers
  <2> QED  BY <1>0, <1>2, <2>1, FillFrame DEF NotifyTaken
<1>3. ASSUME NEW w \in Workers, Test(w) PROVE FillInv'
  <2>1. dtor # "alive" => Takers' \subseteq Takers
    BY <1>3 DEF Test, Takers, TypeOK, FillInv
  <2> QED  BY <1>0, <1>3, <2>1, FillFrame DEF Test
<1>4. ASSUME NEW w \in Workers, Peek(w) PROVE FillInv'
  <2>1. Takers' \subseteq Takers
    BY <1>4, PeekEffect DEF Takers, Peek
  <2> QED  BY <1>0, <1>4, <2>1, FillFrame DEF Peek
<1>5. ASSUME NEW w \in Workers, Take(w) PROVE FillInv'
  <2>1. Takers' = Takers \ {w} /\ w \in Takers
    BY <1>5 DEF Take, Takers, TypeOK
  <2>2. Cardinality(Takers') = Cardinality(Takers) - 1
    BY <2>1, TakersFinite, ShrinkByOne
  <2>3. Len(m_tasks') = Len(m_tasks) - 1
    BY <1>5, PopSeq DEF Take, TypeOK
  <2>4. UNCHANGED <<m_started, dtor, fill>>
    BY <1>5 DEF Take
  <2> QED  BY <1>0, <2>2, <2>3, <2>4, TakersFinite DEF FillInv, EnoughFill
<1>6. ASSUME NEW w \in Workers,
             Lock(w) \/ FindEmpty(w) \/ Sleep(w) \/ SpuriousWakeup(w) \/ Finish(w)
      PROVE  FillInv'
  <2>1. Takers' \subseteq Takers
    BY <1>6 DEF Lock, FindEmpty, Sleep, SpuriousWakeup, Finish, Takers, TypeOK
  <2> QED  BY <1>0, <1>6, <2>1, FillFrame DEF Lock, FindEmpty, Sleep, SpuriousWakeup, Finish
<1>7. CASE DtorStop
  BY <1>7 DEF DtorStop, FillInv, EnoughFill
<1>8. CASE DtorSize
  <2>1. Takers' = Takers
    BY <1>8 DEF DtorSize, Takers
  <2> QED  BY <1>0, <1>8, <2>1, TakersFinite DEF DtorSize, FillInv, EnoughFill
<1>9. CASE DtorFill
  <2>1. Takers' = Takers
    BY <1>9 DEF DtorFill, Takers
  <2>2. Len(m_tasks') = Len(m_tasks) + 1
    BY <1>9, AppendSeq DEF DtorFill, TypeOK, Items
  <2> QED  BY <1>0, <1>9, <2>1, <2>2, TakersFinite DEF DtorFill, FillInv, EnoughFill
<1>10. CASE DtorNotifyAll
  <2>1. Takers' = Takers
    BY <1>10 DEF DtorNotifyAll, Takers, TypeOK
  <2> QED  BY <1>0, <1>10, <2>1, TakersFinite DEF DtorNotifyAll, FillInv, EnoughFill
<1>11. CASE DtorJoin
  <2>1. Takers' = Takers
    BY <1>11 DEF DtorJoin, Takers
  <2> QED  BY <1>11, <2>1 DEF DtorJoin, FillInv, EnoughFill
<1>12. CASE UNCHANGED vars
  <2>1. Takers' = Takers
    BY <1>12 DEF vars, Takers
  <2> QED  BY <1>12, <2>1 DEF vars, FillInv, EnoughFill
<1> QED
  BY <1>1, <1>2, <1>3, <1>4, <1>5, <1>6, <1>7, <1>8, <1>9, <1>10, <1>11, <1>12
  DEF Next, Worker, Destroy

(* When the destructor's loop is done, no worker can be left waiting for   *)
(* want of an entry, although size() is read before the appends and        *)
(* neither is done under the mutex.                                        *)
THEOREM FillSuffices == Spec => []EnoughFill
<1>1. FillInv => EnoughFill
  BY DEF FillInv
<1> QED  BY <1>1, TypeInit, TypeStep, FillInit, FillStep, PTL DEF Spec

-----------------------------------------------------------------------------
(* The pool is the queue that the other components take it for. *)
LEMMA RefinesInit == Init => WQ!Init
  BY DEF Init, WQ!Init

LEMMA RefinesStep ==
  TypeOK /\ FillInv /\ [Next]_vars => [WQ!Next]_(WQ!vars)
<1> SUFFICES ASSUME TypeOK, FillInv, [Next]_vars
             PROVE  [WQ!Next]_(WQ!vars)
  OBVIOUS
<1> DEFINE retired == {w \in Workers : ~m_started /\ pc[w] \in {"run", "loop", "exited"}}
           submitted == {t \in Tasks : caller[t] # "out"}
<1>1. ASSUME NEW t \in Tasks, AddRunable(t) PROVE WQ!Submit(t)
  BY <1>1 DEF AddRunable, WQ!Submit, TypeOK
<1>2. ASSUME NEW t \in Tasks, NotifyTaken(t) PROVE UNCHANGED WQ!vars
  <2>1. submitted' = submitted
    BY <1>2 DEF NotifyTaken, TypeOK
  <2>2. retired' = retired
    BY <1>2, NotifyTakenEffect DEF NotifyTaken
  <2> QED  BY <1>2, <2>1, <2>2 DEF NotifyTaken, WQ!vars
<1>3. ASSUME NEW w \in Workers, Peek(w) PROVE UNCHANGED WQ!vars
  <2>1. retired' = retired
    BY <1>3, PeekEffect DEF Peek
  <2> QED  BY <1>3, <2>1 DEF Peek, WQ!vars
<1>4. ASSUME NEW w \in Workers, Take(w) PROVE WQ!Start(w)
  <2>1. task[w] = NoTask /\ w \notin retired
    BY <1>4 DEF Take, TypeOK
  <2>2. retired' = IF ~m_started THEN retired \cup {w} ELSE retired
    BY <1>4 DEF Take, TypeOK
  <2> QED  BY <1>4, <2>1, <2>2 DEF Take, WQ!Start
<1>5. ASSUME NEW w \in Workers, Finish(w) PROVE WQ!Finish(w)
  <2>1. retired' = retired
    BY <1>5 DEF Finish, TypeOK
  <2> QED  BY <1>5, <2>1 DEF Finish, TypeOK, WQ!Finish
<1>6. ASSUME NEW w \in Workers,
             Test(w) \/ Lock(w) \/ FindEmpty(w) \/ Sleep(w) \/ SpuriousWakeup(w)
      PROVE  UNCHANGED WQ!vars
  <2>1. retired' = retired
    BY <1>6 DEF Test, Lock, FindEmpty, Sleep, SpuriousWakeup, TypeOK
  <2> QED  BY <1>6, <2>1 DEF Test, Lock, FindEmpty, Sleep, SpuriousWakeup, WQ!vars
<1>7. ASSUME DtorStop PROVE WQ!Close
  <2>1. {w \in Workers : task[w] # NoTask} \subseteq retired'
    BY <1>7 DEF DtorStop, TypeOK
  <2>2. retired' \in SUBSET Workers
    OBVIOUS
  <2> HIDE DEF retired
  <2>3. \E W \in SUBSET Workers :
           {w \in Workers : task[w] # NoTask} \subseteq W /\ retired' = W
    BY <2>1, <2>2
  <2>4. m_started
    BY <1>7 DEF DtorStop, FillInv
  <2> QED  BY <1>7, <2>3, <2>4 DEF DtorStop, WQ!Close, retired
<1>8. ASSUME DtorFill PROVE WQ!Pad
  BY <1>8 DEF DtorFill, FillInv, WQ!Pad
<1>9. ASSUME DtorNotifyAll PROVE UNCHANGED WQ!vars
  <2>1. retired' = retired
    BY <1>9 DEF DtorNotifyAll, TypeOK
  <2> QED  BY <1>9, <2>1 DEF DtorNotifyAll, WQ!vars
<1>10. ASSUME DtorSize \/ DtorJoin PROVE UNCHANGED WQ!vars
  BY <1>10 DEF DtorSize, DtorJoin, WQ!vars
<1>11. ASSUME UNCHANGED vars PROVE UNCHANGED WQ!vars
  BY <1>11 DEF vars, WQ!vars
<1> QED
  BY <1>1, <1>2, <1>3, <1>4, <1>5, <1>6, <1>7, <1>8, <1>9, <1>10, <1>11
  DEF Next, Worker, Destroy, WQ!Next

(* The pool of ThreadPool.h is the FIFO queue of WorkQueue: callables      *)
(* start in the order in which they were handed over, each once, and after *)
(* m_started is cleared a worker starts at most one more.                  *)
THEOREM Refinement == Spec => ImplementsWorkQueue
<1> QED
  BY TypeInit, TypeStep, FillInit, FillStep, RefinesInit, RefinesStep,
     PTL DEF Spec, ImplementsWorkQueue, WQ!Spec
=============================================================================
