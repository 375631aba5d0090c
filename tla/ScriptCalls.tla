----------------------------- MODULE ScriptCalls -----------------------------
(***************************************************************************)
(* What a runner of core/service.cc does with its script once the VM is    *)
(* registered: load it, split callMethods at the commas, call              *)
(* setTaskPassport and then the methods in turn, and report `result`.      *)
(* The three languages check a call's outcome differently, and `result` is *)
(* what the finally block sends, not what the runner returns.              *)
(***************************************************************************)
EXTENDS Naturals, Sequences, SequencesExt

CONSTANTS
  Names,       (* what a method name is made of                            *)
  MaxText      (* bound: the length of callMethods                         *)

Comma == ","

ASSUME TextAssumption == Comma \notin Names /\ MaxText \in Nat

VARIABLES
  lang,         (* the runner: lua, python or javascript                   *)
  callMethods,  (* the text of the packet                                  *)
  step,         (* how far the runner is                                   *)
  i,            (* the counter of the loop                                 *)
  result,       (* the local the finally block captured                    *)
  outcomes,     (* what the calls so far came to                           *)
  jobs          (* the JavaScript jobs that are pending                    *)

vars == <<lang, callMethods, step, i, result, outcomes, jobs>>

Languages == {"lua", "python", "javascript"}

(* What looking up a global and calling it can come to. *)
Outcomes == {"noFunction", "throws", "true", "false", "other"}

Texts == BoundedSeq(Names \cup {Comma}, MaxText)

Commas(str) == {p \in DOMAIN str : str[p] = Comma}

(* Mutant: the piece after the last comma is lost. *)
SplitShort(str) ==
  LET piece[last \in 1 .. Len(str) + 1] ==
        LET found == {p \in Commas(str) : p >= last}
        IN  IF found = {} THEN <<>>
            ELSE LET pos == CHOOSE p \in found : \A q \in found : p <= q
                 IN  <<SubSeq(str, last, pos - 1)>> \o piece[pos + 1]
  IN  piece[1]

(* find() from lastPos, the piece before it, on from behind it; at last    *)
(* the rest, which may be empty: there is at least one piece.              *)
stringSplitAscii(str) ==
  LET piece[last \in 1 .. Len(str) + 1] ==
        LET found == {p \in Commas(str) : p >= last}
        IN  IF found = {} THEN <<SubSeq(str, last, Len(str))>>
            ELSE LET pos == CHOOSE p \in found : \A q \in found : p <= q
                 IN  <<SubSeq(str, last, pos - 1)>> \o piece[pos + 1]
  IN  piece[1]

methods == stringSplitAscii(callMethods)

Init ==
  /\ lang \in Languages
  /\ callMethods \in Texts
  /\ step = "load"
  /\ i = 0
  /\ result = FALSE
  /\ outcomes = <<>>
  /\ jobs = FALSE

-----------------------------------------------------------------------------
Load ==
  /\ step = "load"
  /\ step' \in {"call", "finally"}
  /\ jobs' \in {FALSE, lang = "javascript"}
  /\ UNCHANGED <<lang, callMethods, i, result, outcomes>>

(* Lua and JavaScript go on after call number n came to o: only of the     *)
(* methods, not of setTaskPassport, a boolean is asked.                    *)
Accepts(n, o) == o \in {"true", "false"} \/ (n = 0 /\ o = "other")

(* Mutant: setTaskPassport sets the result like a method. *)
GoOnAlways(o, value) ==
  /\ outcomes' = Append(outcomes, o)
  /\ result' = value
  /\ i' = i + 1
  /\ UNCHANGED <<lang, callMethods, step>>

(* The call of number i is accepted; a method sets result to value. *)
GoOn(o, value) ==
  /\ outcomes' = Append(outcomes, o)
  /\ result' = IF i = 0 THEN result ELSE value
  /\ i' = i + 1
  /\ UNCHANGED <<lang, callMethods, step>>

(* The call of number i ends the runner, which leaves value in result. *)
GiveUp(o, value) ==
  /\ outcomes' = Append(outcomes, o)
  /\ result' = value
  /\ step' = "finally"
  /\ UNCHANGED <<lang, callMethods, i>>

Calling(l) == step = "call" /\ lang = l /\ i < Len(methods) + 1

(* Lua: a global that is no function, an error, and a value that is not a  *)
(* boolean end the runner; result keeps the value of the method before.    *)
CallLua ==
  /\ Calling("lua")
  /\ \E o \in Outcomes :
       \/ Accepts(i, o) /\ GoOn(o, o = "true")
       \/ ~Accepts(i, o) /\ GiveUp(o, result)
  /\ UNCHANGED jobs

(* JavaScript: the same; a call may leave jobs behind. *)
CallJavaScript ==
  /\ Calling("javascript")
  /\ \E o \in Outcomes :
       \/ Accepts(i, o) /\ GoOn(o, o = "true")
       \/ ~Accepts(i, o) /\ GiveUp(o, result)
  /\ jobs' \in {jobs, TRUE}

(* Mutant: the exception handler leaves the result alone. *)
CallPythonKeeping ==
  /\ Calling("python")
  /\ \E o \in Outcomes :
       \/ o \in {"true", "other"} /\ GoOn(o, TRUE)
       \/ o \in {"false", "other"} /\ GoOn(o, FALSE)
       \/ o \in {"noFunction", "throws"} /\ GiveUp(o, result)
       \/ o = "other" /\ i > 0 /\ GiveUp(o, result)
  /\ UNCHANGED jobs

(* Python: a missing global and an error raise, and the handler clears the *)
(* result.  A method's other value is cast: to its truth, or that raises.  *)
CallPython ==
  /\ Calling("python")
  /\ \E o \in Outcomes :
       \/ o \in {"true", "other"} /\ GoOn(o, TRUE)
       \/ o \in {"false", "other"} /\ GoOn(o, FALSE)
       \/ o \in {"noFunction", "throws"} /\ GiveUp(o, FALSE)
       \/ o = "other" /\ i > 0 /\ GiveUp(o, FALSE)
  /\ UNCHANGED jobs

(* All methods have been called. *)
Return ==
  /\ step = "call" /\ lang # "javascript"
  /\ i = Len(methods) + 1
  /\ step' = "finally"
  /\ UNCHANGED <<lang, callMethods, i, result, outcomes, jobs>>

(* Mutant: JavaScript returns like Lua. *)
ReturnWithoutLoop ==
  /\ step = "call" /\ lang = "javascript"
  /\ i = Len(methods) + 1
  /\ step' = "finally"
  /\ UNCHANGED <<lang, callMethods, i, result, outcomes, jobs>>

(* JavaScript: js_std_loop executes the jobs that are left. *)
ExecuteJobs ==
  /\ step = "call" /\ lang = "javascript"
  /\ i = Len(methods) + 1
  /\ jobs' = FALSE
  /\ step' = "finally"
  /\ UNCHANGED <<lang, callMethods, i, result, outcomes>>

(* The finally block sends result. *)
Report ==
  /\ step = "finally"
  /\ step' = "reported"
  /\ UNCHANGED <<lang, callMethods, i, result, outcomes, jobs>>

Next ==
  \/ Load
  \/ CallLua \/ CallJavaScript \/ CallPython
  \/ Return \/ ExecuteJobs
  \/ Report

Spec == Init /\ [][Next]_vars

-----------------------------------------------------------------------------
(* The pieces with commas between them. *)
Joined(pieces) ==
  LET text[n \in 1 .. Len(pieces)] ==
        IF n = Len(pieces) THEN pieces[n] ELSE pieces[n] \o <<Comma>> \o text[n + 1]
  IN  text[1]

(* The names that are called are callMethods taken apart: none holds a     *)
(* comma, and with commas between them they are the text again.            *)
SplitUndone ==
  /\ methods # <<>>
  /\ \A n \in DOMAIN methods : Commas(methods[n]) = {}
  /\ Joined(methods) = callMethods

(* A call has failed. *)
Failed == Len(outcomes) > i

(* Success is reported for the last method that returned: its value was    *)
(* true.  setTaskPassport alone is no success, and neither is a script     *)
(* that did not load.                                                      *)
SuccessIsLastMethods ==
  step = "reported" /\ result =>
    /\ i >= 2
    /\ \/ outcomes[i] = "true"
       \/ lang = "python" /\ outcomes[i] = "other"

(* A Python run reports success only if all its methods were called and    *)
(* none failed.  Of Lua and JavaScript this does not hold: a run whose     *)
(* second method fails is reported with the value of its first.            *)
PythonSuccessIsComplete ==
  step = "reported" /\ result /\ lang = "python" =>
    ~Failed /\ i = Len(methods) + 1

(* What true in the result packet says of the calls (core/service.cc,      *)
(* lines 74-128 and 196-226).                                              *)
SuccessExplained == SuccessIsLastMethods /\ PythonSuccessIsComplete

(* Promise jobs a JavaScript run has left are executed before its result   *)
(* is reported, unless its load or one of its calls failed.                *)
JobsExecuted ==
  step = "reported" /\ jobs => Failed \/ outcomes = <<>>
=============================================================================
