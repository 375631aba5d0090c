----------------------------- MODULE RunContract -----------------------------
(***************************************************************************)
(* What clients of src/core may rely on: the packets a run causes.  A run  *)
(* packet is replied to at most once, with the id of the runner or with 0; *)
(* a run that was not refused sends at most one result, with the same id,  *)
(* and reply and result come in either order.  As long as a client waits   *)
(* for the result of a run whose id it knows, no other client is given     *)
(* that id for a run whose result is still to come, so that a status query *)
(* is about one run; the runs of one shared VM are the exception.          *)
(***************************************************************************)
CONSTANTS
  Runs,     (* the run packets clients send                                *)
  Ids,      (* the ids runners can have                                    *)
  SharedId, (* the id of the VM that several runs may use at a time        *)
  NoId,     (* runner id 0                                                 *)
  Silent    (* nothing has been sent                                       *)

VARIABLES
  accepted, (* the run packets that have arrived                           *)
  reply,    (* the runner id in the reply to each                          *)
  result    (* the runner id in the result of each                         *)

vars == <<accepted, reply, result>>

Init ==
  /\ accepted = {}
  /\ reply = [r \in Runs |-> Silent]
  /\ result = [r \in Runs |-> Silent]

Accept(r) ==
  /\ r \notin accepted
  /\ accepted' = accepted \cup {r}
  /\ UNCHANGED <<reply, result>>

(* Somebody knows i as the id of the run s, whose result is to come. *)
Pending(s, i) == reply[s] = i /\ result[s] = Silent

Reply(r) ==
  /\ r \in accepted /\ reply[r] = Silent
  /\ \E i \in Ids \cup {NoId} :
       /\ result[r] \in {Silent, i}
       /\ result[r] = Silent /\ i \in Ids \ {SharedId} =>
            \A s \in Runs \ {r} : ~Pending(s, i)
       /\ reply' = [reply EXCEPT ![r] = i]
  /\ UNCHANGED <<accepted, result>>

Result(r) ==
  /\ r \in accepted /\ result[r] = Silent
  /\ \E i \in Ids :
       /\ reply[r] \in {Silent, i}
       /\ result' = [result EXCEPT ![r] = i]
  /\ UNCHANGED <<accepted, reply>>

Next == \E r \in Runs : Accept(r) \/ Reply(r) \/ Result(r)

Spec == Init /\ [][Next]_vars
=============================================================================
