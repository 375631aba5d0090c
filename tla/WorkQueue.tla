------------------------------ MODULE WorkQueue ------------------------------
(***************************************************************************)
(* What the thread pool promises to its users, with no locks and no        *)
(* wakeups: a FIFO queue of callables, each handed over once and started   *)
(* by one worker; and, once the pool is closed, at most one more callable  *)
(* per worker, none for a worker that is executing one at that moment.     *)
(***************************************************************************)
EXTENDS Sequences

CONSTANTS Workers, Tasks, Nop, NoTask

VARIABLES
  queue,      (* callables handed over and not started, oldest first       *)
  running,    (* the callable each worker executes, or NoTask              *)
  submitted,  (* the callables handed over so far                          *)
  closed,     (* the pool is being destroyed                               *)
  retired     (* workers that start no callable any more                   *)

vars == <<queue, running, submitted, closed, retired>>

Init ==
  /\ queue = <<>>
  /\ running = [w \in Workers |-> NoTask]
  /\ submitted = {}
  /\ closed = FALSE
  /\ retired = {}

Submit(t) ==
  /\ t \notin submitted
  /\ submitted' = submitted \cup {t}
  /\ queue' = Append(queue, t)
  /\ UNCHANGED running
  /\ closed' = closed
  /\ retired' = retired

Start(w) ==
  /\ running[w] = NoTask
  /\ w \notin retired
  /\ queue # <<>>
  /\ running' = [running EXCEPT ![w] = Head(queue)]
  /\ queue' = Tail(queue)
  /\ retired' = IF closed THEN retired \cup {w} ELSE retired
  /\ submitted' = submitted
  /\ closed' = closed

Finish(w) ==
  /\ running[w] # NoTask
  /\ running' = [running EXCEPT ![w] = NoTask]
  /\ UNCHANGED queue
  /\ submitted' = submitted
  /\ closed' = closed
  /\ retired' = retired

Close ==
  /\ ~closed
  /\ closed' = TRUE
  /\ \E W \in SUBSET Workers :
       /\ {w \in Workers : running[w] # NoTask} \subseteq W
       /\ retired' = W
  /\ UNCHANGED <<queue, running, submitted>>

(* Closing may add empty callables for the workers that still wait. *)
Pad ==
  /\ closed
  /\ queue' = Append(queue, Nop)
  /\ UNCHANGED <<running, submitted, closed, retired>>

Next ==
  \/ \E t \in Tasks : Submit(t)
  \/ \E w \in Workers : Start(w) \/ Finish(w)
  \/ Close
  \/ Pad

Spec == Init /\ [][Next]_vars
=============================================================================
