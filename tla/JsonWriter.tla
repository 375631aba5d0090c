------------------------------ MODULE JsonWriter ------------------------------
(***************************************************************************)
(* json.dumps of common/ModuleJson.cc in Lua and Python, and the writers   *)
(* of common/common.cc behind it, which requests.post and put use for      *)
(* their data, too.  (JavaScript's is JSON.stringify of QuickJS.)          *)
(*                                                                         *)
(* A value is a sequence of nodes; the first is what is dumped, and the    *)
(* members of a node come behind it.  The leaves are kinds of scalars, as  *)
(* far as they are written differently.  What is written is a sequence of  *)
(* tokens, and "raise" among them is an error of the script.               *)
(***************************************************************************)
EXTENDS Naturals, Sequences, SequencesExt

CONSTANTS
  Indices,       (* the numbers 1, 2, ... as keys                          *)
  NumberKeys,    (* the keys of tables and dicts that are numbers,         *)
  NameKeys,      (* texts that look like no number,                        *)
  BooleanKeys,   (* and booleans                                           *)
  LuaValues,     (* the values that are dumped in Lua ...                  *)
  PythonValues   (* ... and in Python                                      *)

VARIABLE dumped  (* the call of json.dumps so far, with what it returned   *)

Keys == NumberKeys \cup NameKeys \cup BooleanKeys

(* The tokens that are no keys. *)
Words ==
  {"[", "]", "{", "}", ",", ":", "'", "number", "rounded", "double", "boolean",
   "text", "special", "escaped", "bytes", "unfit", "null", "raise", "fail"}

ASSUME KeysAssumption ==
  /\ Indices \in Seq(NumberKeys) /\ Indices # <<>>
  /\ Keys \cap Words = {}
  /\ NumberKeys \cap NameKeys = {} /\ (NumberKeys \cup NameKeys) \cap BooleanKeys = {}

(* number: one that a C int (Lua) or long (Python) holds, or that six      *)
(* digits show; double: any other floating-point number; unfit: an int of  *)
(* Python that no long holds, or a text of it that has no UTF-8; opaque: a *)
(* function, None and the like; special: a text with a quote in it.        *)
ScalarKinds == {"number", "double", "unfit", "boolean", "text", "special", "bytes", "opaque"}

LuaKinds == (ScalarKinds \ {"bytes", "unfit"}) \cup {"table"}

(* A tuple, or what else can be iterated. *)
PythonKinds == ScalarKinds \cup {"dict", "list", "tuple"}

(* A node: a scalar, a dict, list or tuple, or a table with its members in *)
(* the order of lua_next and whether lua_objlen is above 0.                *)
Nodes(kinds) ==
  [kind : kinds, members : Seq([key : Keys, id : Nat]), counted : BOOLEAN]

MemberKeys(node) == {node.members[i].key : i \in DOMAIN node.members}

(* The length of a Lua table may be any of its borders. *)
Countable(keys) ==
  {c \in BOOLEAN : IF c THEN keys \cap ToSet(Indices) # {} ELSE Indices[1] \notin keys}

IsValue(value, kinds) ==
  /\ value \in Seq(Nodes(kinds)) /\ value # <<>>
  /\ \A n \in DOMAIN value :
       /\ \A i \in DOMAIN value[n].members : value[n].members[i].id \in n + 1 .. Len(value)
       /\ value[n].kind \in ScalarKinds => value[n].members = <<>>
       /\ n > 1 => \E p \in 1 .. n - 1 : \E i \in DOMAIN value[p].members : value[p].members[i].id = n
       /\ value[n].kind = "table" => value[n].counted \in Countable(MemberKeys(value[n]))

ASSUME ValuesAssumption ==
  /\ \A value \in LuaValues : IsValue(value, LuaKinds)
  /\ \A value \in PythonValues : IsValue(value, PythonKinds)

-----------------------------------------------------------------------------
Quote(t) == <<"'", t, "'">>

Separator(i) == IF i > 1 THEN <<",">> ELSE <<>>

Joined(parts) ==
  LET from[i \in 1 .. Len(parts) + 1] ==
        IF i > Len(parts) THEN <<>> ELSE parts[i] \o from[i + 1]
  IN  from[1]

(* A null pointer as a key fails the stream: from there on nothing is      *)
(* written.  A key that is a number has become a text, which lua_next does *)
(* not find; the keys of an array are not looked at.                       *)
LuaKey(key) == IF key \in BooleanKeys THEN <<"'", "fail">> ELSE Quote(key) \o <<":">>

AfterLuaKey(key) == IF key \in NumberKeys THEN <<"raise">> ELSE <<>>

Failing(tokens) ==
  IF "fail" \in ToSet(tokens) /\ "raise" \notin ToSet(tokens)
  THEN SubSeq(tokens, 1, SelectInSeq(tokens, LAMBDA t : t = "fail") - 1)
  ELSE tokens

(* text gives the texts of the nodes behind. *)
luaTableToJson(table, text) ==
  LET Part(i) ==
        LET m == table.members[i] IN
        IF table.counted THEN Separator(i) \o text[m.id]
        ELSE Separator(i) \o LuaKey(m.key) \o text[m.id] \o AfterLuaKey(m.key)
      all == Joined([i \in DOMAIN table.members |-> Part(i)])
  IN  Failing(IF table.counted THEN <<"[">> \o all \o <<"]">> ELSE <<"{">> \o all \o <<"}">>)

(* A number beyond the ints is a double: whatever int the cast makes of it *)
(* is another number.                                                      *)
LuaValue(node, text) ==
  CASE node.kind = "number" -> <<"number">>
    [] node.kind = "double" -> <<"rounded">>
    [] node.kind = "boolean" -> <<"boolean">>
    [] node.kind \in {"text", "special"} -> Quote(node.kind)
    [] node.kind = "table" -> luaTableToJson(node, text)
    [] OTHER -> <<>>

LuaText(value) ==
  LET text[n \in DOMAIN value] == LuaValue(value[n], text) IN text

-----------------------------------------------------------------------------
(* isFirst is cleared only where it is false already. *)
ListSeparator(i) == <<>>

(* Mutant: a text in a dict has no quotes, either. *)
DictValueBare(node, text) == text

(* A text in a list has no quotes. *)
DictValue(node, text) == IF node.kind \in {"text", "special"} THEN Quote(node.kind) ELSE text

DictKey(key) == IF key \in NameKeys THEN Quote(key) \o <<":">> ELSE <<"raise">>

pythonDictToJson(value, node, text) ==
  LET Part(i) ==
        LET m == node.members[i] IN
        Separator(i) \o DictKey(m.key) \o DictValue(value[m.id], text[m.id])
  IN  <<"{">> \o Joined([i \in DOMAIN node.members |-> Part(i)]) \o <<"}">>

pythonListToJson(node, text) ==
  LET Part(i) == ListSeparator(i) \o text[node.members[i].id]
  IN  <<"[">> \o Joined([i \in DOMAIN node.members |-> Part(i)]) \o <<"]">>

(* What PyFloat_Check, PyLong_Check, ... find; a bool is a long, too, and  *)
(* of the rest only bytes can be cast.  PyLong_AsLong and PyUnicode_AsUTF8 *)
(* leave an error behind for what is unfit, which the script meets when    *)
(* dumps has returned.                                                     *)
PythonValue(value, node, text) ==
  CASE node.kind \in {"number", "boolean"} -> <<"number">>
    [] node.kind = "double" -> <<"rounded">>
    [] node.kind \in {"text", "special"} -> <<node.kind>>
    [] node.kind = "dict" -> pythonDictToJson(value, node, text)
    [] node.kind = "list" -> pythonListToJson(node, text)
    [] node.kind = "bytes" -> Quote("bytes")
    [] OTHER -> <<"raise">>

PythonText(value) ==
  LET text[n \in DOMAIN value] == PythonValue(value, value[n], text) IN text

-----------------------------------------------------------------------------
(* A tuple that is dumped itself becomes a list. *)
Top(value) == IF value[1].kind = "tuple" THEN [value EXCEPT ![1].kind = "list"] ELSE value

(* lua_dumps, and python_dumps, which converts anything but a dict to a    *)
(* list: a text to the list of its letters, bytes to one of numbers.       *)
dumps(lang, value) ==
  LET kind == value[1].kind
      text == CASE lang = "lua" /\ kind = "table" -> LuaText(value)[1]
                [] lang = "python" /\ kind \in {"dict", "list", "tuple"} -> PythonText(Top(value))[1]
                [] lang = "python" /\ kind \in {"text", "special"} -> <<"[", kind, "]">>
                [] lang = "python" /\ kind = "bytes" -> <<"[", "number", "]">>
                [] OTHER -> <<"raise">>
  IN  IF "raise" \in ToSet(text) THEN <<"raise">> ELSE text

(* Bound: one call, since a second knows nothing of the first. *)
Dump ==
  /\ dumped = {}
  /\ \E c \in ({"lua"} \X LuaValues) \cup ({"python"} \X PythonValues) :
       dumped' = {[value |-> c[2], text |-> dumps(c[1], c[2])]}

DumpSpec == dumped = {} /\ [][Dump]_dumped

-----------------------------------------------------------------------------
(* Properties. *)

(* A table that is a sequence, traversed in the order of its indices. *)
IsSequence(table) ==
  /\ table.members # <<>>
  /\ \A i \in DOMAIN table.members :
       i <= Len(Indices) /\ table.members[i].key = Indices[i]

IsArray(node) ==
  node.kind \in {"list", "tuple"} \/ (node.kind = "table" /\ IsSequence(node))

(* The JSON of a node, as RFC 8259 has it. *)
JsonOf(node, json) ==
  CASE node.kind \in {"opaque", "bytes"} -> <<"null">>
    [] node.kind = "special" -> Quote("escaped")
    [] node.kind = "text" -> Quote("text")
    [] node.kind \in {"number", "double", "unfit", "boolean"} -> <<node.kind>>
    [] OTHER ->
      LET Part(i) ==
            LET m == node.members[i] IN
            IF IsArray(node) THEN Separator(i) \o json[m.id]
            ELSE Separator(i) \o Quote(m.key) \o <<":">> \o json[m.id]
          all == Joined([i \in DOMAIN node.members |-> Part(i)])
      IN  IF IsArray(node) THEN <<"[">> \o all \o <<"]">> ELSE <<"{">> \o all \o <<"}">>

Json(value) ==
  LET json[n \in DOMAIN value] == JsonOf(value[n], json) IN json

(* Nodes the scripts may dump: with no opaque values, bytes, doubles or    *)
(* texts to be escaped in them; in Lua, tables that are sequences or have  *)
(* texts as keys; in Python, with no ints beyond long, no booleans and no  *)
(* tuples, dicts with texts as keys, and lists of no more than one item,   *)
(* which is no text.                                                       *)
PlainItems(kind) ==
  CASE kind = "table" -> {"number", "boolean", "text", "table"}
    [] kind = "dict" -> {"number", "text", "dict", "list"}
    [] OTHER -> {"number", "dict", "list"}

PlainNode(value, node) ==
  /\ \A i \in DOMAIN node.members : value[node.members[i].id].kind \in PlainItems(node.kind)
  /\ node.kind = "table" => MemberKeys(node) \subseteq NameKeys \/ IsSequence(node)
  /\ node.kind = "dict" => MemberKeys(node) \subseteq NameKeys
  /\ node.kind = "list" => Len(node.members) <= 1

(* dumps writes the JSON of a table, dict or list exactly if it is plain,  *)
(* however deep in it the reason lies (common.cc, lines 35-181): what else *)
(* comes out is an error or a text that says something else.               *)
DumpsExact ==
  \A d \in dumped :
    LET value == Top(d.value) IN
    d.text = Json(value)[1] <=>
      /\ value[1].kind \notin ScalarKinds
      /\ \A n \in DOMAIN value : value[n].kind \notin ScalarKinds => PlainNode(value, value[n])
=============================================================================
