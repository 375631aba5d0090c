--------------------------- MODULE MCScriptFunctions ---------------------------
(* What functions of the script modules compute, on bounded inputs: the    *)
(* URL codec on every byte and on short texts of telling bytes, json.dumps *)
(* on nodes of up to two members, one of which may be a node, and the      *)
(* logger on all ways to call it.                                          *)
EXTENDS UrlCodec, JsonWriter, ScriptLogger

CONSTANT MaxText   (* bound: the length of a text *)

(* NUL, space, % + / A ~, and bytes of both halves above ASCII *)
PlainBytes == {0, 32, 37, 43, 47, 65, 126, 170, 255}

(* 0 A f g, and % + / *)
TextBytes == {37, 43, 47, 48, 65, 102, 103}

MCPlains == {<<b>> : b \in Byte} \cup BoundedSeq(PlainBytes, MaxText - 1)

MCTexts == BoundedSeq(TextBytes, MaxText)

-----------------------------------------------------------------------------
(* The keys; half is a number no array reaches. *)
MCIndices == <<"1", "2">>
MCNumberKeys == {"1", "2", "half"}
MCNameKeys == {"a", "b"}
MCBooleanKeys == {"true"}

(* Values as trees of two levels: a member has a node in place of its id. *)
Node(kind, members, counted) == [kind |-> kind, members |-> members, counted |-> counted]

Scalars(kinds) == {Node(k, <<>>, FALSE) : k \in kinds}

Member(key, v) == [key |-> key, id |-> v]

(* The nodes in a row: the first, its members, and theirs.  One of them at *)
(* most has any.                                                           *)
Numbered(node, first) ==
  [node EXCEPT !.members = [i \in DOMAIN @ |-> Member(@[i].key, first + i - 1)]]

Items(node) == [i \in DOMAIN node.members |-> node.members[i].id]

Flat(tree) ==
  LET items == Items(tree) IN
  <<Numbered(tree, 2)>>
  \o [i \in DOMAIN items |-> Numbered(items[i], Len(items) + 2)]
  \o FlattenSeq([i \in DOMAIN items |-> Items(items[i])])

(* The members with keys from K, each once, and values from V, of which    *)
(* one at most is a node.                                                  *)
Members(K, V) ==
  LET Leaf == {v \in V : v.kind \in ScalarKinds}
      Pairs == {p \in K \X K : p[1] # p[2]}
  IN  {<<>>} \cup {<<Member(k, v)>> : k \in K, v \in V}
      \cup {<<Member(p[1], v), Member(p[2], w)>> : p \in Pairs, v \in V, w \in Leaf}
      \cup {<<Member(p[1], v), Member(p[2], w)>> : p \in Pairs, v \in Leaf, w \in V}

Tables(V) ==
  {t \in {Node("table", m, c) : m \in Members(Keys, V), c \in BOOLEAN} :
     t.counted \in Countable(MemberKeys(t))}

Dicts(V) == {Node("dict", m, FALSE) : m \in Members({"a", "b", "half"}, V)}

Lists(V) ==
  {Node(k, [i \in DOMAIN s |-> Member(Indices[i], s[i])], FALSE) :
     k \in {"list", "tuple"}, s \in BoundedSeq(V, 2)}

(* The inner nodes: fewer scalars. *)
Few == Scalars({"number", "opaque"})
Number == Scalars({"number"})

MCLuaValues ==
  LET All == Scalars(LuaKinds \ {"table"}) IN
  {Flat(t) : t \in All \cup Tables(All) \cup Tables(Number \cup Tables(Few))}

MCPythonValues ==
  LET All == Scalars(ScalarKinds)
      Inner == Dicts(Few) \cup Lists(Few)
  IN  {Flat(t) : t \in All \cup Dicts(All) \cup Lists(All) \cup Dicts(Number \cup Inner)
                     \cup {Node(k, <<Member("1", n)>>, FALSE) : k \in {"list", "tuple"}, n \in Inner}}

-----------------------------------------------------------------------------
(* A script calls one function: the codec on some text, or, bound: when    *)
(* the codec is done with the empty text, json.dumps or the logger.        *)
CodecDone == plain = NoText /\ data = <<>> /\ state = "done"

ScriptInit == Init /\ dumped = {} /\ logged = {}

ScriptNext ==
  \/ Next /\ UNCHANGED <<dumped, logged>>
  \/ CodecDone /\ logged = {} /\ Dump /\ UNCHANGED <<vars, logged>>
  \/ CodecDone /\ dumped = {} /\ Log /\ UNCHANGED <<vars, dumped>>

ScriptSpec == ScriptInit /\ [][ScriptNext]_<<vars, dumped, logged>>
=============================================================================
