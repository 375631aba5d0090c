------------------------------ MODULE JsonReader ------------------------------
(***************************************************************************)
(* json.loads of common/ModuleJson.cc: JsonReader receives the events of a *)
(* SAX parser (rapidjson, external) and builds a value of the script's     *)
(* language with two stacks, one of the nodes that are open and one of     *)
(* what is known of them.                                                  *)
(*                                                                         *)
(* A value is the number of the event that started it; what a node holds   *)
(* is a function from keys or indices to values.  The parser's own view of *)
(* the text, doc, is what the result is compared with.                     *)
(***************************************************************************)
EXTENDS Naturals, Sequences, SequencesExt

CONSTANTS
  Keys,        (* the member names that occur                              *)
  NoKey,       (* no member name has been read                             *)
  MaxValues    (* bound: the values of a text                              *)

ASSUME KeysAssumption == NoKey \notin Keys /\ MaxValues \in Nat

VARIABLES
  lang,      (* m_readerType                                               *)
  state,     (* parse, returned, raised, or undefined (top() of nothing)   *)
  doc,       (* the text so far: each value's kind and its members         *)
  open,      (* the parser's open nodes, innermost last                    *)
  pending,   (* the member name it has read                                *)
  readers,   (* m_luaReaderStack and its like                              *)
  infos,     (* m_readerInfoStack                                          *)
  content,   (* what each node holds                                       *)
  appended,  (* m_arrayIndex of each JavaScript object                     *)
  result     (* the value loads returns, 0 before                          *)

docVars == <<lang, doc, open, pending>>
vars == <<docVars, state, readers, infos, content, appended, result>>

ReaderType == {"lua", "python", "javascript"}
Nodes == {"object", "array"}
Scalars == {"scalar", "null"}

Init ==
  /\ lang \in ReaderType
  /\ state = "parse"
  /\ doc = <<>> /\ open = <<>> /\ pending = NoKey
  /\ readers = <<>> /\ infos = <<>>
  /\ content = [n \in 1..MaxValues |-> <<>>]
  /\ appended = [n \in 1..MaxValues |-> 0]
  /\ result = 0

-----------------------------------------------------------------------------
(* The parser. *)

(* A value may come: the root, an element, or a member whose name is read. *)
ValueAllowed ==
  /\ state = "parse"
  /\ Len(doc) < MaxValues
  /\ \/ doc = <<>>
     \/ /\ open # <<>>
        /\ doc[Last(open)].kind = "object" => pending # NoKey

(* It reads a value of this kind, a member of the innermost open node. *)
Reads(kind) ==
  LET id == Len(doc) + 1
      linked == IF open = <<>> THEN doc
                ELSE [doc EXCEPT ![Last(open)].members = Append(@, [key |-> pending, id |-> id])]
  IN  /\ doc' = Append(linked, [kind |-> kind, members |-> <<>>])
      /\ open' = IF kind \in Nodes THEN Append(open, id) ELSE open
      /\ pending' = NoKey
      /\ UNCHANGED lang

-----------------------------------------------------------------------------
(* What the nodes do with a value. *)

With(f, k, v) == [x \in DOMAIN f \cup {k} |-> IF x = k THEN v ELSE f[x]]

Without(f, k) == [x \in DOMAIN f \ {k} |-> f[x]]

Put(n, k, v) == content' = [content EXCEPT ![n] = With(@, k, v)]

(* #table: in a table with holes, any of its borders. *)
Borders(f) ==
  {n \in {0} \cup DOMAIN f : n + 1 \notin DOMAIN f}

(* append(): Lua after the border, Python at the end of the list,          *)
(* JavaScript at the object's own counter.                                 *)
AppendTo(n, v) ==
  \/ /\ lang = "lua"
     /\ \E b \in Borders(content[n]) : Put(n, b + 1, v)
     /\ UNCHANGED appended
  \/ /\ lang = "python"
     /\ Put(n, IF content[n] = <<>> THEN 0 ELSE Max(DOMAIN content[n]) + 1, v)
     /\ UNCHANGED appended
  \/ /\ lang = "javascript"
     /\ Put(n, appended[n], v)
     /\ appended' = [appended EXCEPT ![n] = @ + 1]

(* Mutant: a scalar the list has no item for is appended. *)
SetOrAppend(n, i, v, kind) ==
  /\ Put(n, IF lang = "python" THEN Cardinality(DOMAIN content[n]) ELSE i, v)
  /\ UNCHANGED state

(* A scalar at index i of an array.  Of a Python list, the item must exist; *)
(* a null in a Lua table is nil or a value of its own (LuaBridge).         *)
SetElement(n, i, v, kind) ==
  \/ /\ lang = "python" => i \in DOMAIN content[n]
     /\ Put(n, i, v)
     /\ UNCHANGED state
  \/ /\ lang = "lua" /\ kind = "null"
     /\ content' = [content EXCEPT ![n] = Without(@, i)]
     /\ UNCHANGED state
  \/ /\ lang = "python" /\ i \notin DOMAIN content[n]
     /\ state' = "raised"
     /\ UNCHANGED content

(* A member of an object; Lua's nil removes it. *)
SetMember(n, k, v, kind) ==
  IF lang = "lua" /\ kind = "null"
  THEN content' = [content EXCEPT ![n] = Without(@, k)]
  ELSE Put(n, k, v)

-----------------------------------------------------------------------------
(* The handlers of the parser's events. *)

Key(k) ==
  /\ state = "parse"
  /\ open # <<>> /\ doc[Last(open)].kind = "object" /\ pending = NoKey
  /\ pending' = k
  /\ infos' = [infos EXCEPT ![Len(infos)].objectKey = k]
  /\ UNCHANGED <<lang, state, doc, open, readers, content, appended, result>>

(* StartObject, StartArray *)
beginNode(isArray) ==
  /\ ValueAllowed
  /\ Reads(IF isArray THEN "array" ELSE "object")
  /\ infos' = Append(infos, [isArray |-> isArray, arraySize |-> 0, objectKey |-> NoKey])
  /\ readers' = Append(readers, Len(doc) + 1)
  /\ content' = [content EXCEPT ![Len(doc) + 1] = <<>>]
  /\ appended' = [appended EXCEPT ![Len(doc) + 1] = 0]
  /\ UNCHANGED <<state, result>>

(* Mutant: at the root the information stays as the reader does. *)
NodeEndsKeeping ==
  /\ state = "parse"
  /\ open # <<>> /\ pending = NoKey
  /\ open' = Front(open)
  /\ infos' = IF Len(readers) <= 1 THEN infos ELSE Front(infos)
  /\ UNCHANGED <<lang, doc, pending, state, result>>

(* EndObject, EndArray.  The root's reader stays: loads returns the top. *)
NodeEnds ==
  /\ state = "parse"
  /\ open # <<>> /\ pending = NoKey
  /\ open' = Front(open)
  /\ infos' = Front(infos)
  /\ UNCHANGED <<lang, doc, pending, state, result>>

(* Mutant: the root's reader is popped like any other. *)
endRootPopping ==
  /\ NodeEnds
  /\ Len(readers) <= 1
  /\ readers' = Front(readers)
  /\ UNCHANGED <<content, appended>>

endRoot ==
  /\ NodeEnds
  /\ Len(readers) <= 1
  /\ UNCHANGED <<readers, content, appended>>

(* Mutant: the node is entered under its own last name. *)
endNodeOwnKey ==
  /\ NodeEnds
  /\ Len(readers) > 1
  /\ readers' = Front(readers)
  /\ LET parent == Last(readers')
     IN  IF Last(infos').isArray
         THEN AppendTo(parent, Last(readers))
         ELSE Put(parent, Last(infos).objectKey, Last(readers)) /\ UNCHANGED appended

endNode ==
  /\ NodeEnds
  /\ Len(readers) > 1
  /\ readers' = Front(readers)
  /\ LET parent == Last(readers')
         info == Last(infos')
     IN  IF info.isArray
         THEN AppendTo(parent, Last(readers))
         ELSE Put(parent, info.objectKey, Last(readers)) /\ UNCHANGED appended

(* Null, Bool, the numbers and String.  The element is numbered from 1 on. *)
value(kind) ==
  /\ ValueAllowed
  /\ infos # <<>>
  /\ Reads(kind)
  /\ UNCHANGED <<readers, appended, result>>
  /\ LET node == Last(readers)
         info == Last(infos)
     IN  \/ /\ info.isArray
            /\ infos' = [infos EXCEPT ![Len(infos)].arraySize = @ + 1]
            /\ SetElement(node, info.arraySize + 1, Len(doc) + 1, kind)
         \/ /\ ~info.isArray
            /\ SetMember(node, info.objectKey, Len(doc) + 1, kind)
            /\ UNCHANGED <<infos, state>>

(* A text that is no node: top() of an empty stack is undefined. *)
valueAlone(kind) ==
  /\ ValueAllowed
  /\ infos = <<>>
  /\ Reads(kind)
  /\ state' = "undefined"
  /\ UNCHANGED <<readers, infos, content, appended, result>>

-----------------------------------------------------------------------------
(* loads: Parse's verdict is ignored. *)

(* Whatever is on top is returned. *)
Return ==
  /\ IF readers = <<>>
     THEN state' = "undefined" /\ UNCHANGED result
     ELSE state' = "returned" /\ result' = Last(readers)
  /\ UNCHANGED <<docVars, readers, infos, content, appended>>

(* The parser has read a whole text. *)
Finish ==
  /\ state = "parse"
  /\ doc # <<>> /\ open = <<>>
  /\ Return

(* It stops at an error, at any event. *)
ParseError ==
  /\ state = "parse"
  /\ doc = <<>> \/ open # <<>>
  /\ Return

Next ==
  \/ \E k \in Keys : Key(k)
  \/ \E isArray \in BOOLEAN : beginNode(isArray)
  \/ endRoot
  \/ endNode
  \/ \E kind \in Scalars : value(kind) \/ valueAlone(kind)
  \/ Finish
  \/ ParseError

Spec == Init /\ [][Next]_vars

-----------------------------------------------------------------------------
(* Properties. *)

(* The two stacks stay in step with the parser although endNode pops them  *)
(* differently at the root, and every open object on the way to the        *)
(* innermost node still knows the name its child will be entered under.    *)
StacksFollow ==
  state = "parse" =>
    /\ readers = IF open = <<>> /\ doc # <<>> THEN <<1>> ELSE open
    /\ Len(infos) = Len(open)
    /\ \A i \in DOMAIN open :
         LET node == doc[open[i]] IN
         /\ infos[i].isArray = (node.kind = "array")
         /\ i < Len(open) => infos[i].objectKey = Last(node.members).key
         /\ i = Len(open) /\ pending # NoKey => infos[i].objectKey = pending

(* The whole text was read, and loads has returned. *)
Complete == state = "returned" /\ open = <<>>

(* loads returns the root of a whole text, not a node inside it; of a text *)
(* that breaks off it returns the innermost node that is open, and no      *)
(* error (lines 232-234).  top() of an empty stack is read only for a text *)
(* that is a scalar or empty: nodes and errors never empty the stack.      *)
ReturnsRoot ==
  /\ state = "returned" => result = IF Complete THEN 1 ELSE Last(open)
  /\ state = "undefined" => open = <<>> /\ Len(doc) <= 1

(* Where a node has members with this name. *)
Named(n, k) == {i \in DOMAIN doc[n].members : doc[n].members[i].key = k}

IsNil(id) == lang = "lua" /\ doc[id].kind = "null"

(* An object holds, under each name, the last value the text gives it,     *)
(* wherever the value is a node that ended much later; Lua forgets nulls.  *)
ObjectsRight ==
  Complete => \A n \in DOMAIN doc : doc[n].kind = "object" =>
    \A k \in Keys :
      LET last == doc[n].members[Max(Named(n, k))].id
      IN  IF Named(n, k) = {} \/ IsNil(last)
          THEN k \notin DOMAIN content[n]
          ELSE k \in DOMAIN content[n] /\ content[n][k] = last

(* An array of nodes alone, or of scalars other than null alone, holds its *)
(* elements in order: from 1 on in Lua, from 0 on in Python; in JavaScript *)
(* nodes from 0 on and scalars from 1 on (lines 177 and 212).  A Python    *)
(* script gets no value of a text with an array that begins with a scalar: *)
(* line 206 assigns to an item the list does not have.                     *)
ArraysRight ==
  Complete => \A n \in DOMAIN doc : doc[n].kind = "array" =>
    LET ids == [i \in DOMAIN doc[n].members |-> doc[n].members[i].id]
        first == IF lang = "lua" \/ doc[ids[1]].kind = "scalar" THEN 1 ELSE 0
    IN  \/ ids = <<>> /\ DOMAIN content[n] = {}
        \/ /\ ids # <<>>
           /\ lang = "python" => doc[ids[1]].kind \in Nodes
           /\ \/ {doc[ids[i]].kind : i \in DOMAIN ids} \notin {{"scalar"}} \cup (SUBSET Nodes)
              \/ content[n] = [i \in first..(first + Len(ids) - 1) |-> ids[i - first + 1]]

(* What the objects and the unmixed arrays of a whole text hold (endNode   *)
(* and value, lines 122-219).  An array in which scalars and nodes, or     *)
(* scalars and nulls, are mixed may hold anything here: the two kinds are  *)
(* counted apart, and may overwrite each other.                            *)
NodesRight == ObjectsRight /\ ArraysRight
=============================================================================
