----------------------------- MODULE ScriptLogger -----------------------------
(***************************************************************************)
(* The logger of the scripts: ModuleTools (common/ModuelTools.cc) and what *)
(* core/main.cc makes of a message.  A script has four functions in a      *)
(* module logger, beside the address of its task.  Functions are values:   *)
(* it may keep one under another name or in a table, pass it to a function *)
(* that calls it, or use the name logger for a table of its own.           *)
(*                                                                         *)
(* In Lua one C function stands behind all four and finds out by the name  *)
(* at the call which one it is; in JavaScript the address is looked up in  *)
(* this, in Lua and Python in what is called logger when it is needed.     *)
(***************************************************************************)
EXTENDS SequencesExt

VARIABLE logged  (* the call of the logger so far, and what came of it    *)

LogType == {"operation", "info", "failed", "succeed"}

(* The names a function may be called by; none: an index, an expression,   *)
(* or a call from C.                                                       *)
CallNames == LogType \cup {"other", "none"}

(* A call: the function, where the script has it and what name it calls it *)
(* by, whether logger is a table of its own by then, and whether the       *)
(* script calls the function, calls it as the last act of a function that  *)
(* itself was called by the name outer, or hands it to one that calls it.  *)
(* In core the message is for a client.  A boolean has no text in Lua: a   *)
(* null pointer is made into a string, which throws.                       *)
LogCalls ==
  [lang : {"lua", "python", "javascript"}, program : {"core", "local"},
   function : LogType, owner : {"logger", "table", "variable"}, name : CallNames, outer : CallNames,
   replaced : BOOLEAN, manner : {"direct", "tail", "passed"}, argument : {"text", "boolean"}]

-----------------------------------------------------------------------------
(* Mutant: the last comparison is left out. *)
LuaLevelElse(name) == IF name \in LogType THEN name ELSE "succeed"

(* The name lua_getinfo finds: a tail call has taken the place of the      *)
(* function it is the last act of, so it goes by the name of that one; a   *)
(* function that a C function calls has none.                              *)
NameFound(call) ==
  CASE call.manner = "direct" -> call.name
    [] call.manner = "tail" -> call.outer
    [] OTHER -> "none"

LuaLevel(name) == IF name \in LogType THEN name ELSE "raise"

(* The level a message gets: in Lua the name decides, and without one a    *)
(* null pointer is compared.                                               *)
Level(call) ==
  IF call.lang # "lua" THEN call.function
  ELSE IF NameFound(call) = "none" THEN "null" ELSE LuaLevel(NameFound(call))

(* The task's address.  A table without __logger_options gives 0 in Lua    *)
(* and JavaScript; JavaScript has no this, and Python no attribute, to     *)
(* look it up.                                                             *)
Options(call) ==
  CASE call.lang = "lua" -> IF call.replaced THEN "null" ELSE "task"
    [] call.lang = "python" -> IF call.replaced THEN "raise" ELSE "task"
    [] OTHER ->
         IF call.manner = "passed" \/ call.owner = "variable" THEN "raise"
         ELSE IF call.owner = "logger" /\ ~call.replaced THEN "task" ELSE "null"

(* The arguments are read when the level is known. *)
ReadArguments(call) ==
  IF call.lang = "lua" /\ call.argument = "boolean" THEN "raise" ELSE "read"

(* local prints the message; core writes a packet from the task's data.    *)
Pointer(call) == IF call.program = "local" THEN "unused" ELSE Options(call)

(* luaLogger, pythonLogger and javascriptLogger: the first step that fails *)
(* ends it.                                                                *)
LogSteps(call) ==
  <<IF Options(call) = "raise" THEN "raise" ELSE "found", Level(call),
    ReadArguments(call), Pointer(call)>>

LogOutcome(call) ==
  LET failed == SelectInSeq(LogSteps(call), LAMBDA s : s \in {"raise", "null"})
  IN  IF failed = 0 THEN "logged"
      ELSE IF LogSteps(call)[failed] = "raise" THEN "raised" ELSE "undefined"

(* Bound: one call, since a second finds what the first has found. *)
Log ==
  /\ logged = {}
  /\ \E c \in LogCalls :
       logged' = {[call |-> c, outcome |-> LogOutcome(c), level |-> Level(c), options |-> Options(c)]}

LogSpec == logged = {} /\ [][Log]_logged

-----------------------------------------------------------------------------
(* The way the tests call it: logger.info(...), in Lua as a statement and  *)
(* not as return logger.info(...).                                         *)
Ordinary(call) ==
  /\ call.owner = "logger" /\ ~call.replaced /\ call.name = call.function
  /\ call.argument = "text"
  /\ call.manner = "direct" \/ (call.manner = "tail" /\ call.lang # "lua")

(* A null pointer is used by a Lua function that is called without a name  *)
(* or as the last act of one that was, by any whose logger the script has  *)
(* replaced, and by a JavaScript function in another object; the last two  *)
(* in core, and never in Python.                                           *)
NullExplained(call) ==
  \/ call.lang = "lua" /\ call.manner = "passed"
  \/ call.lang = "lua" /\ call.manner = "direct" /\ call.name = "none"
  \/ call.lang = "lua" /\ call.manner = "tail" /\ call.outer = "none"
  \/ call.program = "core" /\ call.replaced /\ call.lang # "python"
  \/ call.program = "core" /\ call.owner = "table" /\ call.lang = "javascript"

(* An ordinary call is logged with its own level for its own task.  Of the *)
(* others, wherever a script keeps the functions, what is logged has the   *)
(* level of the function, in Lua that of the name it is called by, which   *)
(* may be another function's, and after a tail call that of the name of    *)
(* the function that made it (ModuelTools.cc, lines 118-139); a Lua        *)
(* function that goes by any other name logs nothing.                      *)
LoggedRight ==
  \A l \in logged :
    /\ Ordinary(l.call) => l.outcome = "logged" /\ l.level = l.call.function
    /\ l.outcome = "logged" =>
         /\ l.level = IF l.call.lang # "lua" THEN l.call.function
                      ELSE IF l.call.manner = "tail" THEN l.call.outer ELSE l.call.name
         /\ l.call.program = "core" => l.options = "task"
    /\ l.outcome = "undefined" => NullExplained(l.call)
=============================================================================
