--------------------------- MODULE JsonReaderProofs ---------------------------
(***************************************************************************)
(* Proofs about json.loads, for texts of any number of values and any      *)
(* member names.                                                           *)
(***************************************************************************)
EXTENDS JsonReader, SequenceTheorems, TLAPS

-----------------------------------------------------------------------------
(* The inductive invariant. *)

Members == [key : Keys \cup {NoKey}, id : Nat]
Node == [kind : Nodes \cup Scalars, members : Seq(Members)]
Info == [isArray : BOOLEAN, arraySize : Nat, objectKey : Keys \cup {NoKey}]

ReaderTypes ==
  /\ lang \in ReaderType
  /\ state \in {"parse", "returned", "raised", "undefined"}
  /\ doc \in Seq(Node)
  /\ Len(doc) <= MaxValues
  /\ open \in Seq(Nat)
  /\ pending \in Keys \cup {NoKey}
  /\ readers \in Seq(Nat)
  /\ infos \in Seq(Info)
  /\ DOMAIN content = 1 .. MaxValues
  /\ DOMAIN appended = 1 .. MaxValues

(* What the parser guarantees: the open nodes lie in each other, the root  *)
(* outermost, and each is the member its surrounding one has read last.    *)
OpenInv ==
  /\ \A i \in 1 .. Len(open) :
       open[i] \in 1 .. Len(doc) /\ doc[open[i]].kind \in Nodes
  /\ \A i, j \in 1 .. Len(open) : i < j => open[i] < open[j]
  /\ open # <<>> => open[1] = 1
  /\ pending # NoKey => open # <<>> /\ doc[Last(open)].kind = "object"
  /\ \A i \in 1 .. Len(open) - 1 :
       LET members == doc[open[i]].members
       IN  members # <<>> /\ Last(members).id = open[i + 1]
  /\ \A n \in 1 .. Len(doc) : \A i \in 1 .. Len(doc[n].members) :
       doc[n].members[i].id \in 1 .. Len(doc)

(* An array's information never gets a name. *)
InfoInv ==
  state = "parse" =>
    \A i \in 1 .. Len(open) : infos[i].isArray => infos[i].objectKey = NoKey

(* An open node is entered into the one around it when it ends: until then *)
(* that one holds a member less than the text has given it.                *)
Awaits(n) == \E i \in 1 .. Len(open) - 1 : open[i] = n

Settled(n) == Len(doc[n].members) - (IF Awaits(n) THEN 1 ELSE 0)

NilIds == {id \in 1 .. Len(doc) : IsNil(id)}
NodeIds == {id \in 1 .. Len(doc) : doc[id].kind \in Nodes}
ScalarIds == {id \in 1 .. Len(doc) : doc[id].kind = "scalar"}

(* Of the first s members m, number i is the last one with the name k. *)
Newest(m, s, k, i) == m[i].key = k /\ \A j \in (i + 1) .. s : m[j].key # k

ObjectHolds(c, m, s, nils) ==
  \A k \in Keys :
    \/ k \notin DOMAIN c /\ \A i \in 1 .. s : m[i].key # k
    \/ \E i \in 1 .. s :
         /\ Newest(m, s, k, i)
         /\ IF m[i].id \in nils THEN k \notin DOMAIN c
            ELSE k \in DOMAIN c /\ c[k] = m[i].id

Filled(c, m, s, first) == c = [j \in first .. (first + s - 1) |-> m[j - first + 1].id]

ArrayHolds(c, m, s, nodes, scalars, l) ==
  /\ s = 0 => c = <<>>
  /\ s # 0 /\ l = "python" => m[1].id \in nodes
  /\ s # 0 /\ (\A i \in 1 .. s : m[i].id \in nodes) =>
       Filled(c, m, s, IF l = "lua" THEN 1 ELSE 0)
  /\ s # 0 /\ (\A i \in 1 .. s : m[i].id \in scalars) => Filled(c, m, s, 1)

NodeHolds(n) ==
  IF doc[n].kind = "object"
  THEN ObjectHolds(content[n], doc[n].members, Settled(n), NilIds)
  ELSE doc[n].kind = "array" =>
         ArrayHolds(content[n], doc[n].members, Settled(n), NodeIds, ScalarIds, lang)

(* The counters of an array that is open: JavaScript's, of the nodes, and  *)
(* that of the reader's information, of the scalars.                       *)
CountersHold(n, size) ==
  doc[n].kind = "array" =>
    /\ lang = "javascript" /\ (\A i \in 1 .. Settled(n) : doc[n].members[i].id \in NodeIds) =>
         appended[n] = Settled(n)
    /\ (\A i \in 1 .. Settled(n) : doc[n].members[i].id \in ScalarIds) =>
         size = Settled(n)

ContentInv ==
  /\ state \in {"parse", "returned"} => \A n \in 1 .. Len(doc) : NodeHolds(n)
  /\ state = "parse" => \A i \in 1 .. Len(open) : CountersHold(open[i], infos[i].arraySize)

StackInv == ReaderTypes /\ OpenInv /\ StacksFollow /\ InfoInv /\ ReturnsRoot

ReaderInv == StackInv /\ ContentInv

-----------------------------------------------------------------------------
(* Sequences. *)

LEMMA FrontLast ==
  ASSUME NEW S, NEW s \in Seq(S), s # <<>>
  PROVE  /\ Len(s) \in Nat /\ Len(s) >= 1
         /\ Last(s) \in S
         /\ Last(s) = s[Len(s)]
         /\ Front(s) \in Seq(S)
         /\ Len(Front(s)) = Len(s) - 1
         /\ \A i \in 1 .. Len(s) - 1 : Front(s)[i] = s[i]
<1>1. Len(s) \in Nat /\ Len(s) >= 1
  BY EmptySeq, LenProperties
<1>2. \A i \in 1 .. Len(s) : s[i] \in S
  BY ElementOfSeq
<1>3. \A i \in 1 .. Len(s) - 1 : s[i] \in S
  BY <1>1, <1>2
<1> DEFINE l == Len(s) - 1
           f == SubSeq(s, 1, l)
<1>4. /\ f \in Seq(S)
      /\ Len(f) = IF 1 <= l THEN l - 1 + 1 ELSE 0
      /\ \A i \in 1 .. l - 1 + 1 : f[i] = s[1 + i - 1]
  <2>1. 1 \in Int /\ l \in Int
    BY <1>1
  <2> HIDE DEF l
  <2> QED  BY <1>3, <2>1, SubSeqProperties DEF l
<1> HIDE DEF f
<1>5. Len(f) = Len(s) - 1
  <2>1. l \in Nat
    BY <1>1
  <2> HIDE DEF l
  <2>2. Len(f) = IF 1 <= l THEN l - 1 + 1 ELSE 0
    BY <1>4
  <2>3. Len(f) = l
    BY <2>1, <2>2
  <2> QED  BY <2>3 DEF l
<1>6. \A i \in 1 .. Len(s) - 1 : f[i] = s[i]
  BY <1>1, <1>4
<1> QED  BY <1>1, <1>2, <1>4, <1>5, <1>6 DEF Last, Front, f

LEMMA AppendLast ==
  ASSUME NEW S, NEW s \in Seq(S), NEW e \in S
  PROVE  /\ Append(s, e) \in Seq(S)
         /\ Append(s, e) # <<>>
         /\ Len(s) \in Nat
         /\ Len(Append(s, e)) = Len(s) + 1
         /\ \A i \in 1 .. Len(s) : Append(s, e)[i] = s[i]
         /\ Append(s, e)[Len(s) + 1] = e
         /\ Last(Append(s, e)) = e
  BY AppendProperties, LenProperties DEF Last

-----------------------------------------------------------------------------
(* The parser. *)

LEMMA InnermostOpen ==
  ASSUME ReaderTypes, OpenInv, open # <<>>
  PROVE  /\ Len(open) \in Nat /\ Len(open) >= 1
         /\ Last(open) = open[Len(open)]
         /\ Last(open) \in 1 .. Len(doc)
         /\ doc[Last(open)].kind \in Nodes
<1>1. Len(open) \in Nat /\ Len(open) >= 1 /\ Last(open) = open[Len(open)]
  BY FrontLast DEF ReaderTypes
<1>2. Len(open) \in 1 .. Len(open)
  BY <1>1
<1>3. open[Len(open)] \in 1 .. Len(doc) /\ doc[open[Len(open)]].kind \in Nodes
  BY <1>2 DEF OpenInv
<1> QED  BY <1>1, <1>3

(* What reading a value does to the text. *)
LEMMA ReadsDoc ==
  ASSUME ReaderTypes, OpenInv, ValueAllowed,
         NEW kind \in Nodes \cup Scalars, Reads(kind)
  PROVE  /\ doc' \in Seq(Node)
         /\ Len(doc) \in Nat
         /\ Len(doc') = Len(doc) + 1
         /\ Len(doc') <= MaxValues
         /\ doc'[Len(doc) + 1] = [kind |-> kind, members |-> <<>>]
         /\ \A n \in 1 .. Len(doc) : doc'[n].kind = doc[n].kind
         /\ \A n \in 1 .. Len(doc) : open = <<>> \/ n # Last(open) => doc'[n] = doc[n]
         /\ open # <<>> =>
              /\ Last(open) \in 1 .. Len(doc)
              /\ doc'[Last(open)].members =
                   Append(doc[Last(open)].members, [key |-> pending, id |-> Len(doc) + 1])
<1> DEFINE id == Len(doc) + 1
           m == [key |-> pending, id |-> id]
           new == [kind |-> kind, members |-> <<>>]
           linked == IF open = <<>> THEN doc
                     ELSE [doc EXCEPT ![Last(open)].members = Append(@, m)]
<1>1. Len(doc) \in Nat /\ doc \in Seq(Node) /\ Len(doc) < MaxValues /\ MaxValues \in Nat
  BY LenProperties, KeysAssumption DEF ReaderTypes, ValueAllowed
<1>2. m \in Members /\ new \in Node
  BY <1>1, EmptySeq DEF ReaderTypes, Members, Node
<1>3. open # <<>> => Last(open) \in 1 .. Len(doc)
  BY InnermostOpen
<1> HIDE DEF m, new
<1>4. /\ linked \in Seq(Node) /\ Len(linked) = Len(doc)
      /\ \A n \in 1 .. Len(doc) : linked[n].kind = doc[n].kind
      /\ \A n \in 1 .. Len(doc) : open = <<>> \/ n # Last(open) => linked[n] = doc[n]
      /\ open # <<>> => linked[Last(open)].members = Append(doc[Last(open)].members, m)
  <2>1. CASE open = <<>>
    BY <2>1, <1>1
  <2>2. CASE open # <<>>
    <3> DEFINE l == Last(open)
               node == [doc[l] EXCEPT !.members = Append(@, m)]
    <3>1. l \in 1 .. Len(doc)
      BY <2>2, <1>3
    <3>2. doc[l] \in Node
      BY <1>1, <3>1, ElementOfSeq
    <3>3. node \in Node /\ node.kind = doc[l].kind /\ node.members = Append(doc[l].members, m)
      BY <1>2, <3>2, AppendProperties DEF Node
    <3>4. linked = [doc EXCEPT ![l] = node]
      BY <2>2
    <3> HIDE DEF l, node
    <3> HIDE DEF linked
    <3>5. /\ linked \in Seq(Node) /\ Len(linked) = Len(doc)
          /\ \A n \in 1 .. Len(doc) : linked[n] = IF n = l THEN node ELSE doc[n]
      BY <1>1, <3>1, <3>3, <3>4, ExceptSeq
    <3> QED  BY <3>1, <3>3, <3>5, <2>2 DEF l
  <2> QED  BY <2>1, <2>2
<1>5. doc' = Append(linked, new)
  BY DEF Reads, m, new
<1> HIDE DEF linked
<1>6. /\ doc' \in Seq(Node)
      /\ Len(doc') = Len(doc) + 1
      /\ \A n \in 1 .. Len(doc) : doc'[n] = linked[n]
      /\ doc'[Len(doc) + 1] = new
  BY <1>2, <1>4, <1>5, AppendLast
<1>7. Len(doc') <= MaxValues
  BY <1>1, <1>6
<1> QED  BY <1>1, <1>3, <1>4, <1>6, <1>7 DEF m, new

(* A value lies in the innermost open node, and is open itself if it is a  *)
(* node.                                                                   *)
LEMMA ReadsOpen ==
  ASSUME ReaderTypes, OpenInv, ValueAllowed,
         NEW kind \in Nodes \cup Scalars, Reads(kind)
  PROVE  /\ open' \in Seq(Nat)
         /\ Len(open) \in Nat
         /\ \A i \in 1 .. Len(open) : open'[i] = open[i]
         /\ kind \in Nodes =>
              open' = Append(open, Len(doc) + 1) /\ Len(open') = Len(open) + 1
              /\ open'[Len(open) + 1] = Len(doc) + 1
         /\ kind \notin Nodes => open' = open
<1>1. open \in Seq(Nat) /\ Len(doc) + 1 \in Nat
  BY LenProperties DEF ReaderTypes
<1>2. Len(open) \in Nat
  BY <1>1, LenProperties
<1>3. CASE kind \in Nodes
  <2>1. open' = Append(open, Len(doc) + 1)
    BY <1>3 DEF Reads
  <2> QED  BY <1>1, <1>2, <1>3, <2>1, AppendLast
<1>4. CASE kind \notin Nodes
  BY <1>1, <1>2, <1>4 DEF Reads
<1> QED  BY <1>3, <1>4

LEMMA ReadsKeeps ==
  ASSUME ReaderTypes, OpenInv, ValueAllowed,
         NEW kind \in Nodes \cup Scalars, Reads(kind)
  PROVE  OpenInv'
<1> DEFINE l == Len(open)
           d == Len(doc)
           m == [key |-> pending, id |-> d + 1]
<1>1. /\ l \in Nat /\ d \in Nat /\ Len(doc') = d + 1
      /\ \A i \in 1 .. l : open'[i] = open[i]
      /\ \/ Len(open') = l
         \/ kind \in Nodes /\ Len(open') = l + 1 /\ open'[l + 1] = d + 1
  <2>1. d \in Nat /\ Len(doc') = d + 1
    BY ReadsDoc
  <2>2. l \in Nat /\ \A i \in 1 .. l : open'[i] = open[i]
    BY ReadsOpen
  <2>3. CASE kind \in Nodes
    <3>1. Len(open') = l + 1 /\ open'[l + 1] = d + 1
      BY <2>3, ReadsOpen
    <3> QED  BY <2>1, <2>2, <2>3, <3>1
  <2>4. CASE kind \notin Nodes
    <3>1. open' = open
      BY <2>4, ReadsOpen
    <3> QED  BY <2>1, <2>2, <3>1
  <2> QED  BY <2>3, <2>4
<1>2. /\ doc'[d + 1].kind = kind
      /\ doc'[d + 1].members = <<>>
      /\ \A n \in 1 .. d : doc'[n].kind = doc[n].kind
  <2>1. doc'[d + 1] = [kind |-> kind, members |-> <<>>]
    BY ReadsDoc
  <2>2. \A n \in 1 .. d : doc'[n].kind = doc[n].kind
    BY ReadsDoc
  <2> QED  BY <2>1, <2>2
<1>3. \A i \in 1 .. l : open[i] \in 1 .. d /\ doc[open[i]].kind \in Nodes
  BY DEF OpenInv
<1>4. \A i, j \in 1 .. l : i < j => open[i] < open[j]
  BY DEF OpenInv
<1> HIDE DEF l, d
<1>5. ASSUME NEW i \in 1 .. Len(open')
      PROVE  open'[i] \in 1 .. Len(doc') /\ doc'[open'[i]].kind \in Nodes
  <2>1. CASE i \in 1 .. l
    <3>1. open'[i] \in 1 .. d /\ doc[open'[i]].kind \in Nodes
      BY <2>1, <1>1, <1>3
    <3> QED  BY <3>1, <1>1, <1>2
  <2>2. CASE i \notin 1 .. l
    <3>1. i = l + 1 /\ kind \in Nodes /\ open'[i] = d + 1
      BY <2>2, <1>1
    <3> QED  BY <3>1, <1>1, <1>2
  <2> QED  BY <2>1, <2>2
<1>6. ASSUME NEW i \in 1 .. Len(open'), NEW j \in 1 .. Len(open'), i < j
      PROVE  open'[i] < open'[j]
  <2>1. CASE j \in 1 .. l
    BY <2>1, <1>1, <1>4, <1>6
  <2>2. CASE j \notin 1 .. l
    <3>1. j = l + 1 /\ open'[j] = d + 1 /\ i \in 1 .. l
      BY <2>2, <1>1, <1>6
    <3>2. open'[i] \in 1 .. d
      BY <3>1, <1>1, <1>3
    <3> QED  BY <3>1, <3>2, <1>1
  <2> QED  BY <2>1, <2>2
<1>7. open' # <<>> => open'[1] = 1
  <2>1. CASE open # <<>>
    <3>1. l >= 1 /\ open[1] = 1
      BY <2>1, InnermostOpen DEF OpenInv, l
    <3> QED  BY <3>1, <1>1
  <2>2. CASE open = <<>>
    <3>1. doc = <<>> /\ d = 0 /\ l = 0
      BY <2>2, EmptySeq DEF ValueAllowed, d, l
    <3>2. open' = <<>> \/ open' = <<d + 1>>
      BY <2>2 DEF Reads, d
    <3> QED  BY <3>1, <3>2
  <2> QED  BY <2>1, <2>2
<1>8. pending' = NoKey
  BY DEF Reads
<1>9. ASSUME NEW i \in 1 .. Len(open') - 1
      PROVE  doc'[open'[i]].members # <<>> /\ Last(doc'[open'[i]].members).id = open'[i + 1]
  <2>0. i \in 1 .. l /\ open'[i] = open[i] /\ open # <<>>
    <3>1. i \in 1 .. l
      BY <1>1
    <3>2. open # <<>>
      BY <3>1, <1>1, EmptySeq DEF l
    <3> QED  BY <3>1, <3>2, <1>1
  <2>1. CASE i < l
    <3>1. i \in 1 .. Len(open) - 1 /\ l \in 1 .. l /\ i + 1 \in 1 .. l
      BY <2>0, <2>1, <1>1 DEF l
    <3>2. open[i] < open[l] /\ open[i] \in 1 .. d /\ open[l] \in 1 .. d
      BY <2>0, <2>1, <3>1, <1>3, <1>4
    <3>3. open[i] # Last(open)
      BY <2>0, <3>2, InnermostOpen DEF l
    <3>4. doc'[open[i]] = doc[open[i]]
      BY <3>2, <3>3, ReadsDoc DEF d
    <3>5. doc[open[i]].members # <<>> /\ Last(doc[open[i]].members).id = open[i + 1]
      BY <3>1 DEF OpenInv
    <3> QED  BY <2>0, <3>1, <3>4, <3>5, <1>1
  <2>2. CASE i = l
    <3>1. open'[i + 1] = d + 1 /\ open[i] = Last(open)
      BY <2>0, <2>2, <1>1, InnermostOpen DEF l
    <3> DEFINE ms == doc[Last(open)].members
    <3>2. Last(open) \in 1 .. d /\ doc'[Last(open)].members = Append(ms, m)
      BY <2>0, ReadsDoc DEF d
    <3>3. doc[Last(open)] \in Node
      BY <3>2, ElementOfSeq DEF ReaderTypes, d
    <3>4. ms \in Seq(Members) /\ m \in Members
      BY <3>3, <1>1 DEF Node, Members, ReaderTypes
    <3> HIDE DEF ms, m
    <3>5. Append(ms, m) # <<>> /\ Last(Append(ms, m)) = m
      BY <3>4, AppendLast
    <3>6. m.id = d + 1
      BY DEF m
    <3> QED  BY <2>0, <3>1, <3>2, <3>5, <3>6
  <2> QED  BY <2>0, <2>1, <2>2, <1>1
<1>10. ASSUME NEW n \in 1 .. Len(doc'), NEW i \in 1 .. Len(doc'[n].members)
       PROVE  doc'[n].members[i].id \in 1 .. Len(doc')
  <2>1. CASE n = d + 1
    BY <2>1, <1>2
  <2>2. CASE n \in 1 .. d /\ (open = <<>> \/ n # Last(open))
    <3>1. doc'[n] = doc[n]
      BY <2>2, ReadsDoc DEF d
    <3>2. doc[n].members[i].id \in 1 .. d
      BY <2>2, <3>1 DEF OpenInv, d
    <3> QED  BY <3>1, <3>2, <1>1
  <2>3. CASE open # <<>> /\ n = Last(open)
    <3> DEFINE ms == doc[n].members
    <3>1. n \in 1 .. d /\ doc'[n].members = Append(ms, m)
      BY <2>3, ReadsDoc DEF d
    <3>2. doc[n] \in Node
      BY <3>1, ElementOfSeq DEF ReaderTypes, d
    <3>3. ms \in Seq(Members) /\ m \in Members
      BY <3>2, <1>1 DEF Node, Members, ReaderTypes
    <3>4. \A k \in 1 .. Len(ms) : ms[k].id \in 1 .. d
      BY <3>1 DEF OpenInv, d
    <3> HIDE DEF ms, m
    <3>5. /\ Len(ms) \in Nat /\ Len(Append(ms, m)) = Len(ms) + 1
          /\ \A k \in 1 .. Len(ms) : Append(ms, m)[k] = ms[k]
          /\ Append(ms, m)[Len(ms) + 1] = m
      BY <3>3, AppendLast
    <3>6. m.id = d + 1
      BY DEF m
    <3>7. i \in 1 .. Len(ms) \/ i = Len(ms) + 1
      BY <3>1, <3>5
    <3> QED  BY <3>1, <3>4, <3>5, <3>6, <3>7, <1>1
  <2>4. n \in 1 .. d \/ n = d + 1
    BY <1>1
  <2> QED  BY <2>1, <2>2, <2>3, <2>4
<1> QED  BY <1>5, <1>6, <1>7, <1>8, <1>9, <1>10 DEF OpenInv

-----------------------------------------------------------------------------
(* The stacks. *)

(* What StacksFollow says of each open node. *)
InfoOf(i) ==
  /\ infos[i].isArray = (doc[open[i]].kind = "array")
  /\ i < Len(open) => infos[i].objectKey = Last(doc[open[i]].members).key
  /\ i = Len(open) /\ pending # NoKey => infos[i].objectKey = pending

LEMMA StacksAre ==
  ASSUME ReaderTypes
  PROVE  StacksFollow <=>
           (state = "parse" =>
             /\ readers = IF open = <<>> /\ doc # <<>> THEN << 1 >> ELSE open
             /\ Len(infos) = Len(open)
             /\ \A i \in 1 .. Len(open) : InfoOf(i))
<1>1. DOMAIN open = 1 .. Len(open)
  BY LenProperties DEF ReaderTypes
<1> QED  BY <1>1 DEF StacksFollow, InfoOf

LEMMA StacksWillBe ==
  ASSUME readers' = IF open' = <<>> /\ doc' # <<>> THEN << 1 >> ELSE open',
         ReaderTypes',
         Len(infos') = Len(open'),
         \A i \in 1 .. Len(open') : InfoOf(i)'
  PROVE  StacksFollow'
<1>1. DOMAIN open' = 1 .. Len(open')
  BY LenProperties DEF ReaderTypes
<1> QED  BY <1>1 DEF StacksFollow, InfoOf

LEMMA StacksWere ==
  ASSUME StackInv, state = "parse"
  PROVE  /\ Len(open) \in Nat
         /\ Len(infos) = Len(open)
         /\ readers = IF open = <<>> /\ doc # <<>> THEN << 1 >> ELSE open
         /\ \A i \in 1 .. Len(open) : InfoOf(i)
         /\ \A i \in 1 .. Len(open) : infos[i] \in Info
         /\ \A i \in 1 .. Len(open) : infos[i].isArray => infos[i].objectKey = NoKey
<1>1. Len(open) \in Nat
  BY LenProperties DEF StackInv, ReaderTypes
<1>2. Len(infos) = Len(open)
  BY StacksAre DEF StackInv
<1>3. \A i \in 1 .. Len(open) : infos[i] \in Info
  BY <1>2, ElementOfSeq DEF StackInv, ReaderTypes
<1> QED  BY <1>1, <1>2, <1>3, StacksAre DEF StackInv, InfoInv

(* While the parser goes on nothing is returned. *)
LEMMA NotReturned == state' = "parse" => ReturnsRoot'
  BY DEF ReturnsRoot

LEMMA KeyKeeps ==
  ASSUME StackInv, NEW k \in Keys, Key(k)
  PROVE  StackInv'
<1> DEFINE l == Len(open)
           info == [infos[l] EXCEPT !.objectKey = k]
<1>1. state = "parse" /\ state' = "parse" /\ pending' = k
      /\ UNCHANGED <<lang, doc, open, readers, content, appended, result>>
      /\ open # <<>> /\ doc[Last(open)].kind = "object" /\ pending = NoKey
  BY DEF Key
<1>2. l \in Nat /\ l >= 1 /\ l \in 1 .. l /\ Last(open) = open[l]
  BY <1>1, InnermostOpen DEF StackInv
<1>3. Len(infos) = l /\ infos[l] \in Info /\ infos \in Seq(Info)
  BY <1>1, <1>2, StacksWere DEF StackInv, ReaderTypes
<1>4. info \in Info /\ info.isArray = infos[l].isArray /\ info.objectKey = k
  BY <1>3 DEF Info
<1>5. infos' = [infos EXCEPT ![l] = info]
  BY <1>3 DEF Key
<1> HIDE DEF info
<1>6. /\ infos' \in Seq(Info) /\ Len(infos') = l
      /\ \A i \in 1 .. l : infos'[i] = IF i = l THEN info ELSE infos[i]
  BY <1>2, <1>3, <1>4, <1>5, ExceptSeq
<1>7. ReaderTypes'
  BY <1>1, <1>6 DEF StackInv, ReaderTypes
<1>8. OpenInv'
  BY <1>1 DEF StackInv, OpenInv
<1>9. ~infos[l].isArray
  BY <1>1, <1>2, StacksWere DEF InfoOf
<1>10. \A i \in 1 .. l : InfoOf(i)'
  <2> SUFFICES ASSUME NEW i \in 1 .. l PROVE InfoOf(i)'
    OBVIOUS
  <2>1. InfoOf(i)
    BY <1>1, StacksWere
  <2>2. CASE i = l
    BY <2>1, <2>2, <1>1, <1>4, <1>6, <1>2 DEF InfoOf
  <2>3. CASE i # l
    BY <2>1, <2>3, <1>1, <1>6, <1>2 DEF InfoOf
  <2> QED  BY <2>2, <2>3
<1>11. InfoInv'
  <2> SUFFICES ASSUME NEW i \in 1 .. l, infos'[i].isArray PROVE infos'[i].objectKey = NoKey
    BY <1>1 DEF InfoInv
  <2>1. i # l
    BY <1>4, <1>6, <1>9
  <2>2. infos'[i] = infos[i]
    BY <2>1, <1>6
  <2> QED  BY <2>2, <1>1, StacksWere
<1>12. readers' = IF open' = <<>> /\ doc' # <<>> THEN <<1>> ELSE open'
  BY <1>1, StacksWere
<1>13. StacksFollow'
  <2>1. Len(infos') = Len(open') /\ \A i \in 1 .. Len(open') : InfoOf(i)'
    BY <1>1, <1>6, <1>10
  <2> QED  BY <1>7, <1>12, <2>1, StacksWillBe
<1> QED  BY <1>1, <1>7, <1>8, <1>11, <1>13, NotReturned DEF StackInv

(* The new value is known to the node around it by the name that is        *)
(* pending; of the nodes further out nothing changes.                      *)
LEMMA ReadsInfo ==
  ASSUME StackInv, ValueAllowed, NEW kind \in Nodes \cup Scalars, Reads(kind),
         NEW i \in 1 .. Len(open)
  PROVE  /\ infos[i].isArray = (doc'[open'[i]].kind = "array")
         /\ i < Len(open) \/ kind \in Nodes =>
              infos[i].objectKey = Last(doc'[open'[i]].members).key
<1> DEFINE l == Len(open)
           m == [key |-> pending, id |-> Len(doc) + 1]
           ms == doc[Last(open)].members
<1>1. l \in Nat /\ InfoOf(i) /\ ReaderTypes /\ OpenInv
  BY StacksWere DEF ValueAllowed, StackInv
<1>2. open'[i] = open[i] /\ open[i] \in 1 .. Len(doc) /\ doc'[open[i]].kind = doc[open[i]].kind
  <2>1. open'[i] = open[i]
    BY <1>1, ReadsOpen
  <2>2. open[i] \in 1 .. Len(doc)
    BY <1>1 DEF OpenInv
  <2> QED  BY <1>1, <2>1, <2>2, ReadsDoc
<1>3. infos[i].isArray = (doc'[open'[i]].kind = "array")
  BY <1>1, <1>2 DEF InfoOf
<1>4. ASSUME i < l PROVE infos[i].objectKey = Last(doc'[open'[i]].members).key
  <2>1. open # <<>> /\ l \in 1 .. l
    BY <1>1, <1>4, EmptySeq
  <2>2. open[i] < open[l] /\ open[l] = Last(open) /\ Last(open) \in 1 .. Len(doc)
    BY <1>1, <1>4, <2>1, InnermostOpen DEF OpenInv
  <2>3. Len(doc) \in Nat
    BY <1>1, LenProperties DEF ReaderTypes
  <2>4. open[i] # Last(open)
    BY <1>2, <2>2, <2>3
  <2>5. doc'[open[i]] = doc[open[i]]
    BY <1>1, <1>2, <2>4, ReadsDoc
  <2> QED  BY <1>1, <1>2, <1>4, <2>5 DEF InfoOf
<1>5. ASSUME i = l PROVE infos[i].objectKey = Last(doc'[open'[i]].members).key
  <2>1. open # <<>>
    BY <1>1, <1>5, EmptySeq
  <2>2. open[i] = Last(open) /\ Last(open) \in 1 .. Len(doc) /\ doc[Last(open)].kind \in Nodes
    BY <1>1, <1>5, <2>1, InnermostOpen
  <2>3. infos[i].objectKey = pending
    <3>1. CASE pending # NoKey
      BY <3>1, <1>1, <1>5 DEF InfoOf
    <3>2. CASE pending = NoKey
      <4>1. doc[Last(open)].kind # "object" /\ state = "parse"
        BY <2>1, <3>2, EmptySeq, <2>2, <1>1 DEF ValueAllowed
      <4>2. infos[i].isArray
        BY <4>1, <2>2, <1>1 DEF InfoOf, Nodes
      <4> QED  BY <4>1, <4>2, <3>2, StacksWere
    <3> QED  BY <3>1, <3>2
  <2>4. doc'[Last(open)].members = Append(ms, m)
    BY <1>1, <2>1, ReadsDoc
  <2>5. doc[Last(open)] \in Node
    BY <1>1, <2>2, ElementOfSeq DEF ReaderTypes
  <2>6. ms \in Seq(Members) /\ m \in Members
    BY <1>1, <2>5, LenProperties DEF Node, Members, ReaderTypes
  <2> HIDE DEF ms, m
  <2>7. Last(Append(ms, m)) = m
    BY <2>6, AppendLast
  <2>8. m.key = pending
    BY DEF m
  <2> QED  BY <1>2, <2>2, <2>3, <2>4, <2>7, <2>8
<1> QED  BY <1>1, <1>3, <1>4, <1>5

LEMMA BeginKeeps ==
  ASSUME StackInv, NEW isArray \in BOOLEAN, beginNode(isArray)
  PROVE  StackInv'
<1> DEFINE kind == IF isArray THEN "array" ELSE "object"
           id == Len(doc) + 1
           l == Len(open)
           info == [isArray |-> isArray, arraySize |-> 0, objectKey |-> NoKey]
<1>1. /\ ValueAllowed /\ Reads(kind) /\ kind \in Nodes
      /\ state = "parse" /\ state' = state /\ result' = result
      /\ infos' = Append(infos, info)
      /\ readers' = Append(readers, id)
      /\ content' = [content EXCEPT ![id] = <<>>]
      /\ appended' = [appended EXCEPT ![id] = 0]
      /\ lang' = lang /\ pending' = NoKey
      /\ kind = "array" <=> isArray
  BY DEF beginNode, ValueAllowed, Reads, Nodes
<1> HIDE DEF kind
<1>2. ReaderTypes /\ OpenInv
  BY DEF StackInv
<1>3. doc' \in Seq(Node) /\ Len(doc') <= MaxValues /\ Len(doc) \in Nat /\ Len(doc') = id
  BY <1>1, <1>2, ReadsDoc
<1>4. /\ open' \in Seq(Nat) /\ l \in Nat
      /\ \A i \in 1 .. l : open'[i] = open[i]
      /\ open' = Append(open, id) /\ Len(open') = l + 1 /\ open'[l + 1] = id
  BY <1>1, <1>2, ReadsOpen
<1>5. /\ infos \in Seq(Info) /\ info \in Info /\ Len(infos) = l
      /\ readers = open
  <2>1. readers = IF open = <<>> /\ doc # <<>> THEN <<1>> ELSE open
    BY <1>1, StacksWere
  <2>2. readers = open
    BY <2>1, <1>1 DEF ValueAllowed
  <2> QED  BY <1>1, <1>2, <2>2, StacksWere DEF ReaderTypes, Info
<1> HIDE DEF info
<1>6. /\ infos' \in Seq(Info) /\ Len(infos') = l + 1
      /\ \A i \in 1 .. l : infos'[i] = infos[i]
      /\ infos'[l + 1] = info
  BY <1>1, <1>5, AppendLast
<1>7. readers' = open'
  BY <1>1, <1>4, <1>5
<1>8. ReaderTypes'
  BY <1>1, <1>2, <1>3, <1>4, <1>6, <1>7 DEF ReaderTypes
<1>9. OpenInv'
  BY <1>1, <1>2, ReadsKeeps
<1>10. info.isArray = isArray /\ info.objectKey = NoKey
  BY DEF info
<1>11. doc'[id].kind = kind
  <2>1. doc'[id] = [kind |-> kind, members |-> <<>>]
    BY <1>1, <1>2, ReadsDoc
  <2> QED  BY <2>1
<1>12. ASSUME NEW i \in 1 .. Len(open') PROVE InfoOf(i)'
  <2>1. CASE i \in 1 .. l
    <3>1. /\ infos[i].isArray = (doc'[open'[i]].kind = "array")
          /\ infos[i].objectKey = Last(doc'[open'[i]].members).key
      BY <1>1, <2>1, ReadsInfo
    <3>2. infos'[i] = infos[i] /\ ~(i = Len(open'))
      BY <1>4, <1>6, <2>1
    <3> QED  BY <3>1, <3>2 DEF InfoOf
  <2>2. CASE i \notin 1 .. l
    <3>1. i = l + 1 /\ ~(i < Len(open')) /\ open'[i] = id /\ infos'[i] = info
      BY <2>2, <1>4, <1>6
    <3>2. info.isArray = (doc'[id].kind = "array")
      BY <1>1, <1>10, <1>11
    <3> QED  BY <3>1, <3>2, <1>1 DEF InfoOf
  <2> QED  BY <2>1, <2>2
<1>13. InfoInv'
  <2> SUFFICES ASSUME NEW i \in 1 .. Len(open'), infos'[i].isArray
               PROVE  infos'[i].objectKey = NoKey
    BY DEF InfoInv
  <2>1. CASE i \in 1 .. l
    BY <2>1, <1>1, <1>6, StacksWere
  <2>2. CASE i = l + 1
    BY <2>2, <1>6, <1>10
  <2> QED  BY <2>1, <2>2, <1>4
<1>14. readers' = IF open' = <<>> /\ doc' # <<>> THEN <<1>> ELSE open'
  <2>1. open' # <<>>
    BY <1>4, EmptySeq
  <2> QED  BY <2>1, <1>7
<1>15. StacksFollow'
  BY <1>4, <1>6, <1>8, <1>12, <1>14, StacksWillBe
<1> QED  BY <1>1, <1>8, <1>9, <1>13, <1>15, NotReturned DEF StackInv

LEMMA SetKeepsNodes ==
  ASSUME NEW n, NEW i, NEW k, NEW v, NEW kind, DOMAIN content = 1 .. MaxValues
  PROVE  /\ SetElement(n, i, v, kind) => DOMAIN content' = 1 .. MaxValues
         /\ SetElement(n, i, v, kind) => state' \in {state, "raised"}
         /\ SetMember(n, k, v, kind) => DOMAIN content' = 1 .. MaxValues
  BY DEF SetElement, SetMember, Put

LEMMA ValueKeeps ==
  ASSUME StackInv, NEW kind \in Scalars, value(kind)
  PROVE  StackInv'
<1> DEFINE l == Len(open)
           info == [infos[l] EXCEPT !.arraySize = @ + 1]
<1>1. /\ ValueAllowed /\ Reads(kind) /\ kind \in Nodes \cup Scalars /\ kind \notin Nodes
      /\ state = "parse" /\ infos # <<>>
      /\ UNCHANGED <<readers, appended, result, lang>>
      /\ pending' = NoKey
  BY DEF value, ValueAllowed, Reads, Nodes, Scalars
<1>2. ReaderTypes /\ OpenInv
  BY DEF StackInv
<1>3. doc' \in Seq(Node) /\ Len(doc') <= MaxValues
  BY <1>1, <1>2, ReadsDoc
<1>4. open' = open
  BY <1>1, <1>2, ReadsOpen
<1>5. /\ infos \in Seq(Info) /\ Len(infos) = l /\ l \in Nat /\ l \in 1 .. l
      /\ open # <<>>
  <2>1. infos \in Seq(Info) /\ Len(infos) = l
    BY <1>1, <1>2, StacksWere DEF ReaderTypes
  <2>2. l \in Nat \ {0}
    BY <1>1, <2>1, EmptySeq
  <2> QED  BY <2>1, <2>2, EmptySeq
<1>6. infos[l] \in Info
  BY <1>5, ElementOfSeq
<1>7. info \in Info /\ info.isArray = infos[l].isArray /\ info.objectKey = infos[l].objectKey
  BY <1>6 DEF Info
<1>8. /\ infos' = infos \/ infos' = [infos EXCEPT ![l] = info]
      /\ DOMAIN content' = 1 .. MaxValues
      /\ state' \in {"parse", "raised"}
  BY <1>1, <1>2, <1>5, SetKeepsNodes DEF value, ReaderTypes
<1> HIDE DEF info
<1>9. /\ infos' \in Seq(Info) /\ Len(infos') = l
      /\ \A i \in 1 .. l : infos'[i].isArray = infos[i].isArray
                         /\ infos'[i].objectKey = infos[i].objectKey
  <2>1. CASE infos' = infos
    BY <2>1, <1>5
  <2>2. CASE infos' = [infos EXCEPT ![l] = info]
    <3>1. /\ infos' \in Seq(Info) /\ Len(infos') = l
          /\ \A i \in 1 .. l : infos'[i] = IF i = l THEN info ELSE infos[i]
      BY <2>2, <1>5, <1>7, ExceptSeq
    <3> QED  BY <3>1, <1>7
  <2> QED  BY <2>1, <2>2, <1>8
<1>10. ReaderTypes'
  BY <1>1, <1>2, <1>3, <1>4, <1>8, <1>9 DEF ReaderTypes
<1>11. OpenInv'
  BY <1>1, <1>2, ReadsKeeps
<1>12. ASSUME NEW i \in 1 .. Len(open') PROVE InfoOf(i)'
  <2>1. /\ infos[i].isArray = (doc'[open'[i]].kind = "array")
        /\ i < l => infos[i].objectKey = Last(doc'[open'[i]].members).key
    BY <1>1, <1>4, ReadsInfo
  <2>2. infos'[i].isArray = infos[i].isArray /\ infos'[i].objectKey = infos[i].objectKey
    BY <1>4, <1>9
  <2>3. infos'[i].isArray = (doc'[open'[i]].kind = "array")
    BY <2>1, <2>2
  <2>4. i < Len(open') => infos'[i].objectKey = Last(doc'[open'[i]].members).key
    BY <2>1, <2>2, <1>4
  <2> QED  BY <2>3, <2>4, <1>1 DEF InfoOf
<1>13. InfoInv'
  <2> SUFFICES ASSUME NEW i \in 1 .. Len(open'), infos'[i].isArray
               PROVE  infos'[i].objectKey = NoKey
    BY DEF InfoInv
  <2>1. infos[i].isArray /\ infos'[i].objectKey = infos[i].objectKey
    BY <1>4, <1>9
  <2> QED  BY <2>1, <1>1, <1>4, StacksWere
<1>14. readers' = IF open' = <<>> /\ doc' # <<>> THEN <<1>> ELSE open'
  BY <1>1, <1>4, <1>5, StacksWere
<1>15. StacksFollow'
  BY <1>4, <1>9, <1>10, <1>12, <1>14, StacksWillBe
<1>16. ReturnsRoot'
  BY <1>8 DEF ReturnsRoot
<1> QED  BY <1>10, <1>11, <1>13, <1>15, <1>16 DEF StackInv

(* A scalar in no node: the text is that scalar. *)
LEMMA ValueAloneKeeps ==
  ASSUME StackInv, NEW kind \in Scalars, valueAlone(kind)
  PROVE  StackInv'
<1>1. /\ ValueAllowed /\ Reads(kind) /\ kind \in Nodes \cup Scalars /\ kind \notin Nodes
      /\ state = "parse" /\ infos = <<>> /\ state' = "undefined"
      /\ UNCHANGED <<readers, infos, content, appended, result, lang>>
      /\ pending' = NoKey
  BY DEF valueAlone, ValueAllowed, Reads, Nodes, Scalars
<1>2. ReaderTypes /\ OpenInv
  BY DEF StackInv
<1>3. doc' \in Seq(Node) /\ Len(doc') <= MaxValues /\ Len(doc) \in Nat /\ Len(doc') = Len(doc) + 1
  BY <1>1, <1>2, ReadsDoc
<1>4. open' = open
  BY <1>1, <1>2, ReadsOpen
<1>5. open = <<>>
  <2>1. Len(open) = 0
    BY <1>1, StacksWere, EmptySeq
  <2> QED  BY <2>1, <1>2, EmptySeq DEF ReaderTypes
<1>6. Len(doc) = 0
  BY <1>1, <1>5, EmptySeq DEF ValueAllowed
<1>7. ReaderTypes'
  BY <1>1, <1>2, <1>3, <1>4 DEF ReaderTypes
<1>8. OpenInv'
  BY <1>1, <1>2, ReadsKeeps
<1>9. ReturnsRoot'
  BY <1>1, <1>3, <1>4, <1>5, <1>6 DEF ReturnsRoot
<1> QED  BY <1>1, <1>7, <1>8, <1>9 DEF StackInv, StacksFollow, InfoInv

(* The innermost node ends: its information goes with it. *)
LEMMA EndsKeep ==
  ASSUME StackInv, NodeEnds
  PROVE  /\ Len(open) \in Nat /\ Len(open) >= 1
         /\ open' = Front(open) /\ open' \in Seq(Nat) /\ Len(open') = Len(open) - 1
         /\ \A i \in 1 .. Len(open) - 1 : open'[i] = open[i]
         /\ infos' = Front(infos) /\ infos' \in Seq(Info) /\ Len(infos') = Len(open')
         /\ \A i \in 1 .. Len(open) - 1 : infos'[i] = infos[i]
         /\ readers = open
         /\ OpenInv' /\ InfoInv'
         /\ \A i \in 1 .. Len(open') : InfoOf(i)'
<1> DEFINE l == Len(open)
<1>1. /\ state = "parse" /\ state' = state /\ open # <<>> /\ pending = NoKey /\ pending' = NoKey
      /\ open' = Front(open) /\ infos' = Front(infos)
      /\ doc' = doc /\ lang' = lang
  BY DEF NodeEnds
<1>2. ReaderTypes /\ OpenInv
  BY DEF StackInv
<1>3. /\ l \in Nat /\ l >= 1 /\ open' \in Seq(Nat) /\ Len(open') = l - 1
      /\ \A i \in 1 .. l - 1 : open'[i] = open[i]
  BY <1>1, <1>2, FrontLast DEF ReaderTypes
<1>4. /\ infos' \in Seq(Info) /\ Len(infos') = l - 1
      /\ \A i \in 1 .. l - 1 : infos'[i] = infos[i]
  <2>1. Len(infos) = l /\ infos \in Seq(Info)
    BY <1>1, <1>2, StacksWere DEF ReaderTypes
  <2>2. infos # <<>>
    BY <2>1, <1>3, EmptySeq
  <2> QED  BY <1>1, <2>1, <2>2, FrontLast
<1>5. readers = open
  BY <1>1, StacksWere
<1>6. OpenInv'
  <2>1. \A i \in 1 .. Len(open') :
          open'[i] \in 1 .. Len(doc') /\ doc'[open'[i]].kind \in Nodes
    BY <1>1, <1>2, <1>3 DEF OpenInv
  <2>2. \A i, j \in 1 .. Len(open') : i < j => open'[i] < open'[j]
    <3> SUFFICES ASSUME NEW i \in 1 .. Len(open'), NEW j \in 1 .. Len(open'), i < j
                 PROVE  open'[i] < open'[j]
      OBVIOUS
    <3>1. i \in 1 .. l /\ j \in 1 .. l /\ open'[i] = open[i] /\ open'[j] = open[j]
      BY <1>3
    <3> QED  BY <3>1, <1>2 DEF OpenInv
  <2>3. open' # <<>> => open'[1] = 1
    <3> SUFFICES ASSUME open' # <<>> PROVE open'[1] = 1
      OBVIOUS
    <3>1. Len(open') # 0
      BY <1>3, EmptySeq
    <3>2. 1 \in 1 .. l - 1
      BY <3>1, <1>3
    <3> QED  BY <3>2, <1>1, <1>2, <1>3 DEF OpenInv
  <2>4. ASSUME NEW i \in 1 .. Len(open') - 1
        PROVE  doc'[open'[i]].members # <<>> /\ Last(doc'[open'[i]].members).id = open'[i + 1]
    <3>1. i \in 1 .. l - 1 /\ i + 1 \in 1 .. l - 1
      BY <1>3
    <3>2. open'[i] = open[i] /\ open'[i + 1] = open[i + 1]
      BY <3>1, <1>3
    <3>3. doc[open[i]].members # <<>> /\ Last(doc[open[i]].members).id = open[i + 1]
      BY <3>1, <1>2 DEF OpenInv
    <3> QED  BY <3>2, <3>3, <1>1
  <2>5. \A n \in 1 .. Len(doc') : \A i \in 1 .. Len(doc'[n].members) :
          doc'[n].members[i].id \in 1 .. Len(doc')
    BY <1>1, <1>2 DEF OpenInv
  <2> QED  BY <2>1, <2>2, <2>3, <2>4, <2>5, <1>1 DEF OpenInv
<1>7. ASSUME NEW i \in 1 .. Len(open') PROVE InfoOf(i)' /\ (infos'[i].isArray => infos'[i].objectKey = NoKey)
  <2>1. i \in 1 .. l - 1 /\ i \in 1 .. l /\ i < l
    BY <1>3
  <2>2. InfoOf(i) /\ (infos[i].isArray => infos[i].objectKey = NoKey)
    BY <2>1, <1>1, StacksWere
  <2>3. open'[i] = open[i] /\ infos'[i] = infos[i]
    BY <2>1, <1>3, <1>4
  <2> QED  BY <2>1, <2>2, <2>3, <1>1 DEF InfoOf
<1>8. InfoInv'
  BY <1>7 DEF InfoInv
<1> QED  BY <1>1, <1>3, <1>4, <1>5, <1>6, <1>7, <1>8

LEMMA EndRootKeeps ==
  ASSUME StackInv, endRoot
  PROVE  StackInv'
<1>1. /\ NodeEnds /\ Len(readers) <= 1 /\ UNCHANGED <<readers, content, appended, lang, doc, pending, state, result>>
      /\ state = "parse"
  BY DEF endRoot, NodeEnds
<1>2. /\ Len(open) = 1 /\ open \in Seq(Nat) /\ readers = open /\ open # <<>> /\ open[1] = 1
      /\ open' \in Seq(Nat) /\ Len(open') = 0
  <2>1. open \in Seq(Nat) /\ OpenInv /\ open # <<>>
    BY <1>1 DEF StackInv, ReaderTypes, NodeEnds
  <2>2. Len(open) = 1 /\ readers = open /\ open' \in Seq(Nat) /\ Len(open') = 0
    BY <1>1, EndsKeep
  <2> QED  BY <2>1, <2>2 DEF OpenInv
<1>3. open' = <<>> /\ readers = <<1>>
  <2>1. open' = <<>>
    BY <1>2, EmptySeq
  <2>2. open = <<1>>
    BY <1>2
  <2> QED  BY <2>1, <2>2, <1>2
<1>4. doc # <<>>
  BY <1>2, EmptySeq DEF StackInv, OpenInv
<1>5. ReaderTypes'
  BY <1>1, EndsKeep DEF StackInv, ReaderTypes
<1>6. StacksFollow'
  BY <1>1, <1>3, <1>4, <1>5, EndsKeep, StacksWillBe
<1> QED  BY <1>1, <1>5, <1>6, EndsKeep, NotReturned DEF StackInv

LEMMA EndNodeKeeps ==
  ASSUME StackInv, endNode
  PROVE  StackInv'
<1>1. /\ NodeEnds /\ Len(readers) > 1 /\ readers' = Front(readers)
      /\ UNCHANGED <<lang, doc, pending, state, result>>
      /\ state = "parse"
  BY DEF endNode, NodeEnds
<1>2. readers' = open' /\ Len(open') = Len(open) - 1 /\ Len(open) \in Nat /\ Len(open) > 1
  BY <1>1, EndsKeep
<1>3. open' # <<>>
  BY <1>2, EmptySeq
<1>4. DOMAIN content' = DOMAIN content /\ DOMAIN appended' = DOMAIN appended
  BY DEF endNode, AppendTo, Put
<1>5. ReaderTypes'
  BY <1>1, <1>2, <1>4, EndsKeep DEF StackInv, ReaderTypes
<1>6. readers' = IF open' = <<>> /\ doc' # <<>> THEN <<1>> ELSE open'
  BY <1>2, <1>3
<1>7. Len(infos') = Len(open') /\ \A i \in 1 .. Len(open') : InfoOf(i)'
  BY <1>1, EndsKeep
<1>8. StacksFollow'
  BY <1>5, <1>6, <1>7, StacksWillBe
<1> QED  BY <1>1, <1>5, <1>8, EndsKeep, NotReturned DEF StackInv

(* loads returns what the stack of the readers has on top. *)
LEMMA ReturnKeeps ==
  ASSUME StackInv, state = "parse", Return
  PROVE  StackInv'
<1>1. /\ UNCHANGED <<lang, doc, open, pending, readers, infos, content, appended>>
      /\ state' \in {"returned", "undefined"}
  BY DEF Return, docVars
<1>2. ReaderTypes /\ OpenInv
  BY DEF StackInv
<1>3. readers = IF open = <<>> /\ doc # <<>> THEN <<1>> ELSE open
  BY StacksWere
<1>4. CASE readers = <<>>
  <2>1. open = <<>> /\ doc = <<>>
    BY <1>3, <1>4, EmptySeq
  <2>2. state' = "undefined" /\ result' = result
    BY <1>4 DEF Return
  <2>3. Len(doc') <= 1
    BY <1>1, <2>1, EmptySeq
  <2>4. ReturnsRoot'
    BY <1>1, <2>1, <2>2, <2>3 DEF ReturnsRoot
  <2> QED  BY <1>1, <1>2, <2>2, <2>4 DEF StackInv, ReaderTypes, OpenInv, StacksFollow, InfoInv
<1>5. CASE readers # <<>>
  <2>1. state' = "returned" /\ result' = Last(readers)
    BY <1>5 DEF Return
  <2>2. result' = IF open = <<>> THEN 1 ELSE Last(open)
    <3>1. CASE open = <<>>
      <4>1. readers = <<1>> /\ Last(<<1>>) = 1
        BY <3>1, <1>3, <1>5 DEF Last
      <4> QED  BY <3>1, <4>1, <2>1
    <3>2. CASE open # <<>>
      BY <3>2, <1>3, <2>1
    <3> QED  BY <3>1, <3>2
  <2>3. result' \in Nat
    BY <1>2, <1>5, <2>1, FrontLast DEF ReaderTypes
  <2>4. ReturnsRoot'
    BY <1>1, <2>1, <2>2 DEF ReturnsRoot, Complete
  <2> QED  BY <1>1, <1>2, <2>1, <2>3, <2>4 DEF StackInv, ReaderTypes, OpenInv, StacksFollow, InfoInv
<1> QED  BY <1>4, <1>5

LEMMA StackInit == Init => StackInv
<1> SUFFICES ASSUME Init PROVE StackInv
  OBVIOUS
<1>1. Len(<<>>) = 0 /\ DOMAIN open = {}
  BY EmptySeq DEF Init
<1>2. ReaderTypes
  BY <1>1, EmptySeq, KeysAssumption DEF Init, ReaderTypes
<1>3. OpenInv
  BY <1>1 DEF Init, OpenInv
<1>4. StacksFollow
  BY <1>1 DEF Init, StacksFollow
<1>5. InfoInv /\ ReturnsRoot
  BY <1>1 DEF Init, InfoInv, ReturnsRoot
<1> QED  BY <1>2, <1>3, <1>4, <1>5 DEF StackInv

LEMMA StackStep == StackInv /\ [Next]_vars => StackInv'
<1> SUFFICES ASSUME StackInv, [Next]_vars PROVE StackInv'
  OBVIOUS
<1>1. CASE \E k \in Keys : Key(k)
  BY <1>1, KeyKeeps
<1>2. CASE \E isArray \in BOOLEAN : beginNode(isArray)
  BY <1>2, BeginKeeps
<1>3. CASE endRoot
  BY <1>3, EndRootKeeps
<1>4. CASE endNode
  BY <1>4, EndNodeKeeps
<1>5. CASE \E kind \in Scalars : value(kind) \/ valueAlone(kind)
  BY <1>5, ValueKeeps, ValueAloneKeeps
<1>6. CASE Finish \/ ParseError
  BY <1>6, ReturnKeeps DEF Finish, ParseError
<1>7. CASE UNCHANGED vars
  <2>1. /\ UNCHANGED <<lang, doc, open, pending>>
        /\ UNCHANGED <<state, readers, infos, content, appended, result>>
    BY <1>7 DEF vars, docVars
  <2> QED  BY <2>1 DEF StackInv, ReaderTypes, OpenInv, StacksFollow, InfoInv, ReturnsRoot, Complete
<1> QED  BY <1>1, <1>2, <1>3, <1>4, <1>5, <1>6, <1>7 DEF Next

LEMMA StackAlways == Spec => []StackInv
  BY StackInit, StackStep, PTL DEF Spec

(* The two stacks of JsonReader stay in step with the parser: endNode pops *)
(* them differently at the root (lines 122-132).                           *)
THEOREM StacksInStep == Spec => []StacksFollow
<1>1. StackInv => StacksFollow
  BY DEF StackInv
<1> QED  BY <1>1, StackAlways, PTL

(* loads returns the root of a whole text, and reads top() of an empty     *)
(* stack only for a text that is a scalar or empty.                        *)
THEOREM RootReturned == Spec => []ReturnsRoot
<1>1. StackInv => ReturnsRoot
  BY DEF StackInv
<1> QED  BY <1>1, StackAlways, PTL

-----------------------------------------------------------------------------
(* What a node holds. *)

LEMMA WithIs ==
  ASSUME NEW f, NEW k, NEW v
  PROVE  /\ DOMAIN With(f, k, v) = DOMAIN f \cup {k}
         /\ With(f, k, v)[k] = v
         /\ \A x \in DOMAIN f : x # k => With(f, k, v)[x] = f[x]
  BY DEF With

LEMMA WithoutIs ==
  ASSUME NEW f, NEW k
  PROVE  /\ DOMAIN Without(f, k) = DOMAIN f \ {k}
         /\ \A x \in DOMAIN f : x # k => Without(f, k)[x] = f[x]
  BY DEF Without

(* Other members and other values do not matter. *)
LEMMA ObjectSame ==
  ASSUME NEW c, NEW m, NEW s \in Nat, NEW nils, ObjectHolds(c, m, s, nils),
         NEW m2, NEW nils2,
         \A i \in 1 .. s : m2[i] = m[i] /\ (m[i].id \in nils2 <=> m[i].id \in nils)
  PROVE  ObjectHolds(c, m2, s, nils2)
<1> SUFFICES ASSUME NEW k \in Keys,
                    ~(k \notin DOMAIN c /\ \A i \in 1 .. s : m2[i].key # k)
             PROVE  \E i \in 1 .. s :
                      /\ Newest(m2, s, k, i)
                      /\ IF m2[i].id \in nils2 THEN k \notin DOMAIN c
                         ELSE k \in DOMAIN c /\ c[k] = m2[i].id
  BY DEF ObjectHolds
<1>1. PICK i \in 1 .. s :
        /\ Newest(m, s, k, i)
        /\ IF m[i].id \in nils THEN k \notin DOMAIN c
           ELSE k \in DOMAIN c /\ c[k] = m[i].id
  BY DEF ObjectHolds
<1>2. \A j \in (i + 1) .. s : j \in 1 .. s
  OBVIOUS
<1>3. Newest(m2, s, k, i)
  BY <1>1, <1>2 DEF Newest
<1> QED  BY <1>1, <1>3

LEMMA ArraySame ==
  ASSUME NEW c, NEW m, NEW s \in Nat, NEW nodes, NEW scalars, NEW l,
         ArrayHolds(c, m, s, nodes, scalars, l),
         NEW m2, NEW nodes2, NEW scalars2,
         \A i \in 1 .. s : /\ m2[i] = m[i]
                           /\ m[i].id \in nodes2 <=> m[i].id \in nodes
                           /\ m[i].id \in scalars2 <=> m[i].id \in scalars
  PROVE  ArrayHolds(c, m2, s, nodes2, scalars2, l)
<1>1. s # 0 => 1 \in 1 .. s
  OBVIOUS
<1>2. ASSUME NEW first \in {0, 1}, Filled(c, m, s, first) PROVE Filled(c, m2, s, first)
  <2>1. \A j \in first .. (first + s - 1) : j - first + 1 \in 1 .. s
    OBVIOUS
  <2>2. \A j \in first .. (first + s - 1) : m2[j - first + 1].id = m[j - first + 1].id
    BY <2>1
  <2> QED  BY <2>2, <1>2 DEF Filled
<1>3. s # 0 /\ l = "python" => m2[1].id \in nodes2
  BY <1>1 DEF ArrayHolds
<1>4. (\A i \in 1 .. s : m2[i].id \in nodes2) => \A i \in 1 .. s : m[i].id \in nodes
  OBVIOUS
<1>5. (\A i \in 1 .. s : m2[i].id \in scalars2) => \A i \in 1 .. s : m[i].id \in scalars
  OBVIOUS
<1> QED  BY <1>2, <1>3, <1>4, <1>5 DEF ArrayHolds

(* One member more of an object. *)
LEMMA ObjectMore ==
  ASSUME NEW c, NEW m, NEW s \in Nat, NEW nils, ObjectHolds(c, m, s, nils), NEW c2,
         \A k \in Keys : k # m[s + 1].key =>
           /\ k \in DOMAIN c2 <=> k \in DOMAIN c
           /\ k \in DOMAIN c => c2[k] = c[k],
         IF m[s + 1].id \in nils THEN m[s + 1].key \notin DOMAIN c2
         ELSE m[s + 1].key \in DOMAIN c2 /\ c2[m[s + 1].key] = m[s + 1].id
  PROVE  ObjectHolds(c2, m, s + 1, nils)
<1> DEFINE Right(d, t, k) ==
             \E i \in 1 .. t :
               /\ Newest(m, t, k, i)
               /\ IF m[i].id \in nils THEN k \notin DOMAIN d
                  ELSE k \in DOMAIN d /\ d[k] = m[i].id
<1> SUFFICES ASSUME NEW k \in Keys
             PROVE  \/ k \notin DOMAIN c2 /\ \A i \in 1 .. s + 1 : m[i].key # k
                    \/ Right(c2, s + 1, k)
  BY DEF ObjectHolds
<1>1. CASE k = m[s + 1].key
  <2>1. s + 1 \in 1 .. s + 1 /\ \A j \in (s + 1 + 1) .. (s + 1) : FALSE
    OBVIOUS
  <2>2. Newest(m, s + 1, k, s + 1)
    BY <1>1, <2>1 DEF Newest
  <2> QED  BY <1>1, <2>1, <2>2
<1>2. CASE k # m[s + 1].key
  <2>1. CASE k \notin DOMAIN c /\ \A i \in 1 .. s : m[i].key # k
    <3>1. \A i \in 1 .. s + 1 : i \in 1 .. s \/ i = s + 1
      OBVIOUS
    <3> QED  BY <1>2, <2>1, <3>1
  <2>2. CASE Right(c, s, k)
    <3>1. PICK i \in 1 .. s :
            /\ Newest(m, s, k, i)
            /\ IF m[i].id \in nils THEN k \notin DOMAIN c
               ELSE k \in DOMAIN c /\ c[k] = m[i].id
      BY <2>2
    <3>2. i \in 1 .. s + 1 /\ \A j \in (i + 1) .. (s + 1) : j \in (i + 1) .. s \/ j = s + 1
      OBVIOUS
    <3>3. Newest(m, s + 1, k, i)
      BY <1>2, <3>1, <3>2 DEF Newest
    <3> QED  BY <1>2, <3>1, <3>2, <3>3
  <2> QED  BY <2>1, <2>2 DEF ObjectHolds
<1> QED  BY <1>1, <1>2

(* One element more of an array that is filled. *)
LEMMA FilledMore ==
  ASSUME NEW c, NEW m, NEW s \in Nat, NEW first \in {0, 1},
         IF s = 0 THEN c = <<>> ELSE Filled(c, m, s, first)
  PROVE  Filled(With(c, first + s, m[s + 1].id), m, s + 1, first)
<1>1. DOMAIN c = first .. (first + s - 1)
  <2>1. CASE s = 0
    <3>1. DOMAIN c = {}
      BY <2>1, EmptySeq
    <3>2. \A j \in first .. (first + s - 1) : FALSE
      BY <2>1
    <3> QED  BY <3>1, <3>2
  <2>2. CASE s # 0  BY <2>2 DEF Filled
  <2> QED  BY <2>1, <2>2
<1>2. first .. (first + (s + 1) - 1) = DOMAIN c \cup {first + s}
  BY <1>1
<1>3. ASSUME NEW j \in DOMAIN c \cup {first + s}
      PROVE  (IF j = first + s THEN m[s + 1].id ELSE c[j]) = m[j - first + 1].id
  <2>1. CASE j = first + s
    <3>1. j - first + 1 = s + 1
      BY <2>1
    <3> QED  BY <2>1, <3>1
  <2>2. CASE j # first + s
    <3>1. j \in first .. (first + s - 1) /\ s # 0
      BY <2>2, <1>1
    <3> QED  BY <2>2, <3>1 DEF Filled
  <2> QED  BY <2>1, <2>2
<1>4. With(c, first + s, m[s + 1].id) =
        [j \in DOMAIN c \cup {first + s} |-> m[j - first + 1].id]
  BY <1>3 DEF With
<1> QED  BY <1>2, <1>4 DEF Filled

(* A node is added. *)
LEMMA ArrayNode ==
  ASSUME NEW c, NEW m, NEW s \in Nat, NEW nodes, NEW scalars, NEW l, NEW c2,
         ArrayHolds(c, m, s, nodes, scalars, l),
         m[s + 1].id \in nodes, m[s + 1].id \notin scalars,
         (\A i \in 1 .. s : m[i].id \in nodes) =>
           c2 = With(c, (IF l = "lua" THEN 1 ELSE 0) + s, m[s + 1].id)
  PROVE  ArrayHolds(c2, m, s + 1, nodes, scalars, l)
<1> DEFINE first == IF l = "lua" THEN 1 ELSE 0
<1>1. first \in {0, 1} /\ s + 1 # 0 /\ s + 1 \in 1 .. s + 1 /\ \A i \in 1 .. s : i \in 1 .. s + 1
  OBVIOUS
<1>2. m[1].id \in nodes \/ l # "python"
  <2>1. CASE s = 0
    <3>1. s + 1 = 1
      BY <2>1
    <3> QED  BY <3>1
  <2>2. CASE s # 0  BY <2>2 DEF ArrayHolds
  <2> QED  BY <2>1, <2>2
<1>3. ASSUME \A i \in 1 .. s + 1 : m[i].id \in nodes PROVE Filled(c2, m, s + 1, first)
  <2>1. \A i \in 1 .. s : m[i].id \in nodes
    BY <1>1, <1>3
  <2>2. IF s = 0 THEN c = <<>> ELSE Filled(c, m, s, first)
    BY <2>1 DEF ArrayHolds
  <2>3. c2 = With(c, first + s, m[s + 1].id)
    BY <2>1
  <2> HIDE DEF first
  <2> QED  BY <2>2, <2>3, <1>1, FilledMore
<1>4. ~ \A i \in 1 .. s + 1 : m[i].id \in scalars
  BY <1>1
<1> QED  BY <1>1, <1>2, <1>3, <1>4 DEF ArrayHolds

(* A scalar is added, which is null or not. *)
LEMMA ArrayScalar ==
  ASSUME NEW c, NEW m, NEW s \in Nat, NEW nodes, NEW scalars, NEW l, NEW c2,
         ArrayHolds(c, m, s, nodes, scalars, l),
         m[s + 1].id \notin nodes,
         s = 0 => l # "python",
         m[s + 1].id \in scalars /\ (\A i \in 1 .. s : m[i].id \in scalars) =>
           c2 = With(c, 1 + s, m[s + 1].id)
  PROVE  ArrayHolds(c2, m, s + 1, nodes, scalars, l)
<1>1. s + 1 # 0 /\ s + 1 \in 1 .. s + 1 /\ \A i \in 1 .. s : i \in 1 .. s + 1
  OBVIOUS
<1>2. l = "python" => m[1].id \in nodes
  BY DEF ArrayHolds
<1>3. ASSUME \A i \in 1 .. s + 1 : m[i].id \in scalars PROVE Filled(c2, m, s + 1, 1)
  <2>1. m[s + 1].id \in scalars /\ \A i \in 1 .. s : m[i].id \in scalars
    BY <1>1, <1>3
  <2>2. IF s = 0 THEN c = <<>> ELSE Filled(c, m, s, 1)
    BY <2>1 DEF ArrayHolds
  <2>3. c2 = With(c, 1 + s, m[s + 1].id)
    BY <2>1
  <2> QED  BY <2>2, <2>3, FilledMore
<1>4. ~ \A i \in 1 .. s + 1 : m[i].id \in nodes
  BY <1>1
<1> QED  BY <1>1, <1>2, <1>3, <1>4 DEF ArrayHolds

(* The members of a node, and how many of them it holds. *)
LEMMA SettledRange ==
  ASSUME ReaderTypes, OpenInv, NEW n \in 1 .. Len(doc)
  PROVE  /\ doc[n] \in Node
         /\ doc[n].members \in Seq(Members)
         /\ Len(doc[n].members) \in Nat
         /\ Settled(n) \in Nat
         /\ Settled(n) <= Len(doc[n].members)
         /\ Awaits(n) => Settled(n) + 1 = Len(doc[n].members)
         /\ ~Awaits(n) => Settled(n) = Len(doc[n].members)
<1>1. doc[n] \in Node
  BY ElementOfSeq DEF ReaderTypes
<1>2. doc[n].members \in Seq(Members)
  BY <1>1 DEF Node
<1> DEFINE ms == doc[n].members
<1>3. Len(ms) \in Nat
  BY <1>2, LenProperties
<1>4. CASE Awaits(n)
  <2>1. ms # <<>>
    BY <1>4 DEF Awaits, OpenInv
  <2>2. Len(ms) \in Nat \ {0}
    BY <1>2, <2>1, EmptySeq
  <2>3. Settled(n) = Len(ms) - 1
    BY <1>4 DEF Settled
  <2> QED  BY <1>1, <1>2, <1>4, <2>2, <2>3
<1>5. CASE ~Awaits(n)
  <2>1. Settled(n) = Len(ms) - 0
    BY <1>5 DEF Settled
  <2> QED  BY <1>1, <1>2, <1>3, <1>5, <2>1
<1> QED  BY <1>4, <1>5

(* Two places in the stack are not one node. *)
LEMMA OpenApart ==
  ASSUME ReaderTypes, OpenInv,
         NEW i \in 1 .. Len(open), NEW j \in 1 .. Len(open), open[i] = open[j]
  PROVE  i = j
<1>1. open[i] \in Nat /\ open[j] \in Nat /\ Len(open) \in Nat
  BY ElementOfSeq, LenProperties DEF ReaderTypes
<1>2. ~(open[i] < open[j]) /\ ~(open[j] < open[i])
  BY <1>1
<1>3. ~(i < j) /\ ~(j < i)
  BY <1>2 DEF OpenInv
<1> QED  BY <1>1, <1>3

LEMMA InnermostAwaitsNot ==
  ASSUME ReaderTypes, OpenInv, open # <<>>
  PROVE  ~Awaits(Last(open))
<1> SUFFICES ASSUME NEW i \in 1 .. Len(open) - 1, open[i] = Last(open) PROVE FALSE
  BY DEF Awaits
<1>1. Len(open) \in Nat /\ Len(open) >= 1 /\ Last(open) = open[Len(open)]
  BY InnermostOpen
<1>2. i \in 1 .. Len(open) /\ Len(open) \in 1 .. Len(open) /\ i # Len(open)
  BY <1>1
<1> QED  BY <1>1, <1>2, OpenApart

(* Reading a value adds a member that is not settled yet, if the value is  *)
(* a node.                                                                 *)
LEMMA ReadsAwaits ==
  ASSUME ReaderTypes, OpenInv, ValueAllowed,
         NEW kind \in Nodes \cup Scalars, Reads(kind), NEW n \in 1 .. Len(doc)
  PROVE  Awaits(n)' <=> Awaits(n) \/ (kind \in Nodes /\ open # <<>> /\ n = Last(open))
<1> DEFINE l == Len(open)
<1>1. l \in Nat /\ Len(doc) \in Nat /\ \A i \in 1 .. l : open'[i] = open[i]
  BY ReadsOpen, ReadsDoc
<1>2. CASE kind \notin Nodes
  <2>1. open' = open
    BY <1>2, ReadsOpen
  <2> QED  BY <1>2, <2>1 DEF Awaits
<1>3. CASE kind \in Nodes
  <2>1. Len(open') = l + 1 /\ open'[l + 1] = Len(doc) + 1
    BY <1>3, ReadsOpen
  <2>2. Awaits(n)' <=> \E i \in 1 .. l : open[i] = n
    <3>1. 1 .. Len(open') - 1 = 1 .. l
      BY <1>1, <2>1
    <3>2. Awaits(n)' <=> \E i \in 1 .. l : open'[i] = n
      BY <3>1 DEF Awaits
    <3> QED  BY <3>2, <1>1
  <2>3. CASE open = <<>>
    <3>1. l = 0
      BY <2>3, EmptySeq
    <3>2. ~ \E i \in 1 .. l : open[i] = n
      BY <3>1
    <3>3. ~ \E i \in 1 .. l - 1 : open[i] = n
      BY <3>1
    <3> QED  BY <2>2, <2>3, <3>2, <3>3 DEF Awaits
  <2>4. CASE open # <<>>
    <3>1. l >= 1 /\ Last(open) = open[l]
      BY <2>4, InnermostOpen
    <3>2. (\E i \in 1 .. l : open[i] = n) <=> (\E i \in 1 .. l - 1 : open[i] = n) \/ open[l] = n
      <4>1. \A i \in 1 .. l : i \in 1 .. l - 1 \/ i = l
        BY <1>1
      <4>2. l \in 1 .. l /\ \A i \in 1 .. l - 1 : i \in 1 .. l
        BY <1>1, <3>1
      <4> QED  BY <4>1, <4>2
    <3> QED  BY <1>3, <2>2, <2>4, <3>1, <3>2 DEF Awaits
  <2> QED  BY <2>3, <2>4
<1> QED  BY <1>2, <1>3

LEMMA ReadsMembers ==
  ASSUME ReaderTypes, OpenInv, ValueAllowed,
         NEW kind \in Nodes \cup Scalars, Reads(kind), NEW n \in 1 .. Len(doc)
  PROVE  /\ \A i \in 1 .. Len(doc[n].members) : doc'[n].members[i] = doc[n].members[i]
         /\ Len(doc'[n].members) = Len(doc[n].members) \/ (open # <<>> /\ n = Last(open))
         /\ open # <<>> /\ n = Last(open) =>
              /\ Len(doc'[n].members) = Len(doc[n].members) + 1
              /\ doc'[n].members[Len(doc[n].members) + 1] = [key |-> pending, id |-> Len(doc) + 1]
<1> DEFINE ms == doc[n].members
           m == [key |-> pending, id |-> Len(doc) + 1]
<1>1. ms \in Seq(Members) /\ m \in Members
  <2>1. Len(doc) \in Nat /\ pending \in Keys \cup {NoKey}
    BY LenProperties DEF ReaderTypes
  <2>2. ms \in Seq(Members)
    BY SettledRange
  <2> QED  BY <2>1, <2>2 DEF Members
<1>2. CASE open = <<>> \/ n # Last(open)
  <2>1. doc'[n] = doc[n]
    BY <1>2, ReadsDoc
  <2> QED  BY <1>2, <2>1
<1>3. CASE open # <<>> /\ n = Last(open)
  <2>1. doc'[n].members = Append(ms, m)
    BY <1>3, ReadsDoc
  <2> HIDE DEF ms, m
  <2>2. /\ Len(Append(ms, m)) = Len(ms) + 1
        /\ \A i \in 1 .. Len(ms) : Append(ms, m)[i] = ms[i]
        /\ Append(ms, m)[Len(ms) + 1] = m
    BY <1>1, AppendLast
  <2> QED  BY <1>3, <2>1, <2>2 DEF ms, m
<1> QED  BY <1>2, <1>3

(* So only a scalar is settled at once. *)
LEMMA ReadsSettled ==
  ASSUME ReaderTypes, OpenInv, ValueAllowed,
         NEW kind \in Nodes \cup Scalars, Reads(kind), NEW n \in 1 .. Len(doc)
  PROVE  IF kind \notin Nodes /\ open # <<>> /\ n = Last(open)
         THEN Settled(n)' = Settled(n) + 1 /\ Settled(n) = Len(doc[n].members)
         ELSE Settled(n)' = Settled(n)
<1>1. Len(doc[n].members) \in Nat
  BY SettledRange
<1>2. CASE open # <<>> /\ n = Last(open)
  <2>1. ~Awaits(n)
    BY <1>2, InnermostAwaitsNot
  <2>2. Awaits(n)' <=> kind \in Nodes
    BY <1>2, <2>1, ReadsAwaits
  <2>3. Len(doc'[n].members) = Len(doc[n].members) + 1
    BY <1>2, ReadsMembers
  <2>4. Settled(n) = Len(doc[n].members)
    BY <2>1, SettledRange
  <2>5. Settled(n)' = Len(doc'[n].members) - (IF Awaits(n)' THEN 1 ELSE 0)
    BY DEF Settled
  <2>6. CASE kind \in Nodes
    <3>1. Settled(n)' = Len(doc'[n].members) - 1
      BY <2>2, <2>5, <2>6
    <3> QED  BY <1>1, <2>3, <2>4, <2>6, <3>1
  <2>7. CASE kind \notin Nodes
    <3>1. Settled(n)' = Len(doc'[n].members) - 0
      BY <2>2, <2>5, <2>7
    <3> QED  BY <1>1, <1>2, <2>3, <2>4, <2>7, <3>1
  <2> QED  BY <2>6, <2>7
<1>3. CASE ~(open # <<>> /\ n = Last(open))
  <2>1. Len(doc'[n].members) = Len(doc[n].members)
    BY <1>3, ReadsMembers
  <2>2. Awaits(n)' <=> Awaits(n)
    BY <1>3, ReadsAwaits
  <2>3. Settled(n)' = Settled(n)
    BY <2>1, <2>2 DEF Settled
  <2> QED  BY <1>3, <2>3
<1> QED  BY <1>2, <1>3

(* The sets of the values of a kind. *)
LEMMA ReadsKinds ==
  ASSUME ReaderTypes, OpenInv, ValueAllowed,
         NEW kind \in Nodes \cup Scalars, Reads(kind)
  PROVE  /\ \A id \in 1 .. Len(doc) :
              /\ id \in NilIds' <=> id \in NilIds
              /\ id \in NodeIds' <=> id \in NodeIds
              /\ id \in ScalarIds' <=> id \in ScalarIds
         /\ Len(doc) + 1 \in NilIds' <=> lang = "lua" /\ kind = "null"
         /\ Len(doc) + 1 \in NodeIds' <=> kind \in Nodes
         /\ Len(doc) + 1 \in ScalarIds' <=> kind = "scalar"
<1>1. /\ Len(doc) \in Nat /\ Len(doc') = Len(doc) + 1
      /\ \A n \in 1 .. Len(doc) : doc'[n].kind = doc[n].kind
  BY ReadsDoc
<1>2. doc'[Len(doc) + 1].kind = kind
  <2>1. doc'[Len(doc) + 1] = [kind |-> kind, members |-> <<>>]
    BY ReadsDoc
  <2> QED  BY <2>1
<1>3. lang' = lang
  BY DEF Reads
<1>4. Len(doc) + 1 \in 1 .. Len(doc') /\ \A id \in 1 .. Len(doc) : id \in 1 .. Len(doc')
  BY <1>1
<1>5. \A id \in 1 .. Len(doc) :
        /\ id \in NilIds' <=> id \in NilIds
        /\ id \in NodeIds' <=> id \in NodeIds
        /\ id \in ScalarIds' <=> id \in ScalarIds
  BY <1>1, <1>3, <1>4 DEF NilIds, NodeIds, ScalarIds, IsNil
<1> DEFINE id == Len(doc) + 1
<1>6. id \in NilIds' <=> lang = "lua" /\ kind = "null"
  BY <1>2, <1>3, <1>4 DEF NilIds, IsNil
<1>7. id \in NodeIds' <=> kind \in Nodes
  BY <1>2, <1>4 DEF NodeIds
<1>8. id \in ScalarIds' <=> kind = "scalar"
  BY <1>2, <1>4 DEF ScalarIds
<1> QED  BY <1>5, <1>6, <1>7, <1>8

LEMMA ContentWillBe ==
  ASSUME state' \in {"parse", "returned"} => \A n \in 1 .. Len(doc') : NodeHolds(n)',
         state' = "parse" =>
           \A i \in 1 .. Len(open') : \A n, size :
             n = open'[i] /\ size = infos'[i].arraySize => CountersHold(n, size)'
  PROVE  ContentInv'
<1>1. ASSUME state' = "parse", NEW i \in 1 .. Len(open')
      PROVE  CountersHold(open[i], infos[i].arraySize)'
  BY <1>1 DEF CountersHold, Settled, Awaits, NodeIds, ScalarIds
<1> QED  BY <1>1 DEF ContentInv

(* What a node holds, it holds of its members, whatever is read next.      *)
LEMMA ReadsHolds ==
  ASSUME StackInv, ValueAllowed, NEW kind \in Nodes \cup Scalars, Reads(kind),
         NEW n \in 1 .. Len(doc), NodeHolds(n)
  PROVE  /\ doc'[n].kind = doc[n].kind
         /\ doc[n].kind = "object" =>
              ObjectHolds(content[n], doc'[n].members, Settled(n), NilIds')
         /\ doc[n].kind = "array" =>
              ArrayHolds(content[n], doc'[n].members, Settled(n), NodeIds', ScalarIds', lang)
<1> DEFINE s == Settled(n)
           m == doc[n].members
           m2 == doc'[n].members
<1>1. ReaderTypes /\ OpenInv
  BY DEF StackInv
<1>2. s \in Nat /\ s <= Len(m) /\ Len(m) \in Nat
  BY <1>1, SettledRange
<1>3. \A i \in 1 .. s : i \in 1 .. Len(m)
  BY <1>2
<1>4. \A i \in 1 .. s : m[i].id \in 1 .. Len(doc)
  BY <1>1, <1>3 DEF OpenInv
<1>5. \A i \in 1 .. s : m2[i] = m[i]
  BY <1>1, <1>3, ReadsMembers
<1>6. \A i \in 1 .. s : /\ m[i].id \in NilIds' <=> m[i].id \in NilIds
                        /\ m[i].id \in NodeIds' <=> m[i].id \in NodeIds
                        /\ m[i].id \in ScalarIds' <=> m[i].id \in ScalarIds
  BY <1>1, <1>4, ReadsKinds
<1>7. doc'[n].kind = doc[n].kind
  BY <1>1, ReadsDoc
<1> HIDE DEF s, m2
<1>8. ASSUME doc[n].kind = "object" PROVE ObjectHolds(content[n], m2, s, NilIds')
  <2>1. ObjectHolds(content[n], m, s, NilIds)
    BY <1>8 DEF NodeHolds, s
  <2> HIDE DEF m
  <2> QED  BY <2>1, <1>2, <1>5, <1>6, ObjectSame
<1>9. ASSUME doc[n].kind = "array" PROVE ArrayHolds(content[n], m2, s, NodeIds', ScalarIds', lang)
  <2>1. ArrayHolds(content[n], m, s, NodeIds, ScalarIds, lang)
    BY <1>9 DEF NodeHolds, s
  <2> HIDE DEF m
  <2> QED  BY <2>1, <1>2, <1>5, <1>6, ArraySame
<1> QED  BY <1>7, <1>8, <1>9 DEF s, m2

(* A node no member of which is settled by the step holds what it held.    *)
LEMMA ReadsKeepsNode ==
  ASSUME StackInv, ValueAllowed, NEW kind \in Nodes \cup Scalars, Reads(kind),
         NEW n \in 1 .. Len(doc), NodeHolds(n),
         content'[n] = content[n], Settled(n)' = Settled(n)
  PROVE  NodeHolds(n)'
<1>1. lang' = lang
  BY DEF Reads
<1> QED  BY <1>1, ReadsHolds DEF NodeHolds

(* The same of its counters. *)
LEMMA ReadsKeepsCounters ==
  ASSUME StackInv, ValueAllowed, NEW kind \in Nodes \cup Scalars, Reads(kind),
         NEW n \in 1 .. Len(doc), NEW size, CountersHold(n, size),
         appended'[n] = appended[n], Settled(n)' = Settled(n)
  PROVE  CountersHold(n, size)'
<1> DEFINE s == Settled(n)
           m == doc[n].members
           m2 == doc'[n].members
<1>1. ReaderTypes /\ OpenInv /\ lang' = lang
  BY DEF StackInv, Reads
<1>2. s \in Nat /\ s <= Len(m) /\ Len(m) \in Nat
  BY <1>1, SettledRange
<1>3. \A i \in 1 .. s : i \in 1 .. Len(m)
  BY <1>2
<1>4. \A i \in 1 .. s : m[i].id \in 1 .. Len(doc)
  BY <1>1, <1>3 DEF OpenInv
<1>5. \A i \in 1 .. s : m2[i] = m[i]
  BY <1>1, <1>3, ReadsMembers
<1>6. \A i \in 1 .. s : /\ m2[i].id \in NodeIds' <=> m[i].id \in NodeIds
                        /\ m2[i].id \in ScalarIds' <=> m[i].id \in ScalarIds
  BY <1>1, <1>4, <1>5, ReadsKinds
<1>7. doc'[n].kind = doc[n].kind
  BY <1>1, ReadsDoc
<1> QED  BY <1>1, <1>6, <1>7 DEF CountersHold

LEMMA BeginContent ==
  ASSUME ReaderInv, NEW isArray \in BOOLEAN, beginNode(isArray)
  PROVE  ContentInv'
<1> DEFINE kind == IF isArray THEN "array" ELSE "object"
           d == Len(doc)
           l == Len(open)
           info == [isArray |-> isArray, arraySize |-> 0, objectKey |-> NoKey]
<1>1. /\ ValueAllowed /\ Reads(kind) /\ kind \in Nodes /\ kind \in Nodes \cup Scalars
      /\ state = "parse" /\ state' = state
      /\ infos' = Append(infos, info)
      /\ content' = [content EXCEPT ![d + 1] = <<>>]
      /\ appended' = [appended EXCEPT ![d + 1] = 0]
  BY DEF beginNode, ValueAllowed, Nodes
<1> HIDE DEF kind
<1>2. StackInv /\ ReaderTypes /\ OpenInv /\ ContentInv
  BY DEF ReaderInv, StackInv
<1>3. /\ d \in Nat /\ Len(doc') = d + 1 /\ d + 1 \in 1 .. MaxValues
      /\ DOMAIN content = 1 .. MaxValues /\ DOMAIN appended = 1 .. MaxValues
  <2>1. d \in Nat /\ Len(doc') = d + 1 /\ d + 1 <= MaxValues
    BY <1>1, <1>2, ReadsDoc
  <2>2. d + 1 \in 1 .. MaxValues
    BY <2>1, KeysAssumption
  <2> QED  BY <1>2, <2>1, <2>2 DEF ReaderTypes
<1>4. \A n \in 1 .. d : content'[n] = content[n] /\ appended'[n] = appended[n]
  <2> SUFFICES ASSUME NEW n \in 1 .. d PROVE content'[n] = content[n] /\ appended'[n] = appended[n]
    OBVIOUS
  <2>1. n \in 1 .. MaxValues /\ n # d + 1
    BY <1>3, KeysAssumption
  <2> QED  BY <1>1, <1>3, <2>1
<1>5. content'[d + 1] = <<>> /\ appended'[d + 1] = 0
  BY <1>1, <1>3
<1>6. doc'[d + 1].kind = kind /\ doc'[d + 1].members = <<>>
  <2>1. doc'[d + 1] = [kind |-> kind, members |-> <<>>]
    BY <1>1, <1>2, ReadsDoc
  <2> QED  BY <2>1
<1>7. /\ l \in Nat /\ Len(open') = l + 1 /\ open'[l + 1] = d + 1
      /\ \A i \in 1 .. l : open'[i] = open[i]
  BY <1>1, <1>2, ReadsOpen
<1>8. \A n \in 1 .. d : Settled(n)' = Settled(n)
  BY <1>1, <1>2, ReadsSettled
<1>9. ASSUME NEW n, n = d + 1 PROVE Settled(n)' = 0
  <2>1. ~Awaits(n)'
    <3> SUFFICES ASSUME NEW i \in 1 .. Len(open') - 1, open'[i] = n PROVE FALSE
      BY DEF Awaits
    <3>1. i \in 1 .. l
      BY <1>7
    <3>2. open[i] \in 1 .. d
      BY <3>1, <1>2 DEF OpenInv
    <3> QED  BY <3>1, <3>2, <1>3, <1>7, <1>9
  <2>2. Settled(n)' = Len(doc'[n].members) - (IF Awaits(n)' THEN 1 ELSE 0)
    BY DEF Settled
  <2>3. Settled(n)' = Len(<<>>) - 0
    BY <2>1, <2>2, <1>6, <1>9
  <2> QED  BY <2>3
<1>10. ASSUME NEW n \in 1 .. Len(doc') PROVE NodeHolds(n)'
  <2>1. CASE n \in 1 .. d
    <3>1. NodeHolds(n)
      BY <2>1, <1>1, <1>2 DEF ContentInv
    <3> QED  BY <2>1, <3>1, <1>1, <1>2, <1>4, <1>8, ReadsKeepsNode
  <2>2. CASE n = d + 1
    <3>1. Settled(n)' = 0
      BY <2>2, <1>9
    <3>2. content'[n] = <<>> /\ DOMAIN <<>> = {}
      BY <2>2, <1>5, EmptySeq
    <3>3. \A i \in 1 .. 0 : FALSE
      OBVIOUS
    <3>4. ObjectHolds(content'[n], doc'[n].members, 0, NilIds')
      BY <3>2, <3>3 DEF ObjectHolds
    <3>5. ArrayHolds(content'[n], doc'[n].members, 0, NodeIds', ScalarIds', lang')
      BY <3>2 DEF ArrayHolds
    <3> QED  BY <3>1, <3>4, <3>5 DEF NodeHolds
  <2> QED  BY <2>1, <2>2, <1>3
<1>11. ASSUME NEW i \in 1 .. Len(open'), NEW n, NEW size, n = open'[i], size = infos'[i].arraySize
       PROVE  CountersHold(n, size)'
  <2>1. /\ Len(infos') = l + 1 /\ infos'[l + 1] = info
        /\ \A j \in 1 .. l : infos'[j] = infos[j]
    <3>1. infos \in Seq(Info) /\ info \in Info /\ Len(infos) = l
      BY <1>1, <1>2, StacksWere DEF ReaderTypes, Info
    <3> HIDE DEF info
    <3> QED  BY <3>1, <1>1, AppendLast
  <2>2. CASE i \in 1 .. l
    <3>1. n = open[i] /\ size = infos[i].arraySize /\ n \in 1 .. d
      BY <2>1, <2>2, <1>2, <1>7, <1>11 DEF OpenInv
    <3>2. CountersHold(n, size)
      BY <2>2, <3>1, <1>1, <1>2 DEF ContentInv
    <3> QED  BY <3>1, <3>2, <1>1, <1>2, <1>4, <1>8, ReadsKeepsCounters
  <2>3. CASE i = l + 1
    <3>1. n = d + 1 /\ size = 0 /\ appended'[n] = 0
      BY <2>1, <2>3, <1>5, <1>7, <1>11
    <3>2. Settled(n)' = 0
      BY <3>1, <1>9
    <3> QED  BY <3>1, <3>2 DEF CountersHold
  <2> QED  BY <2>2, <2>3, <1>7
<1> QED  BY <1>10, <1>11, ContentWillBe

(* The member a scalar becomes of the innermost node, whose members all    *)
(* have been settled.                                                      *)
LEMMA ScalarMember ==
  ASSUME StackInv, ValueAllowed, NEW kind \in Scalars, Reads(kind), infos # <<>>,
         NEW n, n = Last(open)
  PROVE  /\ open # <<>> /\ open' = open /\ n \in 1 .. Len(doc)
         /\ Len(open) \in 1 .. Len(open) /\ n = open[Len(open)]
         /\ Len(infos) = Len(open) /\ Last(readers) = n /\ Last(infos) = infos[Len(open)]
         /\ infos[Len(open)].isArray = (doc[n].kind = "array")
         /\ doc[n].kind # "array" => infos[Len(open)].objectKey = pending
         /\ Settled(n) \in Nat /\ Settled(n)' = Settled(n) + 1
         /\ doc'[n].members[Settled(n) + 1] = [key |-> pending, id |-> Len(doc) + 1]
<1>1. /\ ReaderTypes /\ OpenInv /\ state = "parse"
      /\ kind \in Nodes \cup Scalars /\ kind \notin Nodes
  BY DEF StackInv, ValueAllowed, Nodes, Scalars
<1>2. /\ infos \in Seq(Info) /\ Len(infos) = Len(open) /\ Len(open) \in Nat
      /\ open # <<>> /\ Len(open) \in 1 .. Len(open)
  <2>1. infos \in Seq(Info) /\ Len(infos) = Len(open)
    BY <1>1, StacksWere DEF ReaderTypes
  <2>2. Len(open) \in Nat \ {0}
    BY <2>1, EmptySeq
  <2> QED  BY <2>1, <2>2, EmptySeq
<1>3. n \in 1 .. Len(doc) /\ n = open[Len(open)] /\ doc[n].kind \in Nodes
  BY <1>1, <1>2, InnermostOpen
<1>4. Last(readers) = n /\ Last(infos) = infos[Len(open)]
  <2>1. readers = open
    BY <1>1, <1>2, StacksWere
  <2> QED  BY <2>1, <1>2 DEF Last
<1>5. InfoOf(Len(open))
  BY <1>1, <1>2, StacksWere
<1>6. infos[Len(open)].isArray = (doc[n].kind = "array")
  BY <1>3, <1>5 DEF InfoOf
<1>7. ASSUME doc[n].kind # "array" PROVE infos[Len(open)].objectKey = pending
  <2>1. doc[Last(open)].kind = "object"
    BY <1>3, <1>7 DEF Nodes
  <2>2. doc # <<>>
    BY <1>3, EmptySeq
  <2>3. pending # NoKey
    BY <2>1, <2>2 DEF ValueAllowed
  <2> QED  BY <2>3, <1>5 DEF InfoOf
<1>8. Settled(n) \in Nat /\ Settled(n)' = Settled(n) + 1 /\ Settled(n) = Len(doc[n].members)
  BY <1>1, <1>2, <1>3, SettledRange, ReadsSettled
<1>9. doc'[n].members[Len(doc[n].members) + 1] = [key |-> pending, id |-> Len(doc) + 1]
  BY <1>1, <1>2, <1>3, ReadsMembers
<1>10. open' = open
  BY <1>1, ReadsOpen
<1> QED  BY <1>2, <1>3, <1>4, <1>6, <1>7, <1>8, <1>9, <1>10

(* A scalar in an object. *)
LEMMA ScalarInObject ==
  ASSUME ReaderInv, ValueAllowed, NEW kind \in Scalars, Reads(kind), infos # <<>>,
         NEW n, n = Last(open), doc[n].kind = "object",
         SetMember(n, pending, Len(doc) + 1, kind)
  PROVE  NodeHolds(n)' /\ doc'[n].kind = "object"
<1> DEFINE s == Settled(n)
           c == content[n]
           c2 == content'[n]
           m2 == doc'[n].members
           id == Len(doc) + 1
<1>1. /\ StackInv /\ ReaderTypes /\ OpenInv /\ ContentInv /\ state = "parse"
      /\ kind \in Nodes \cup Scalars /\ lang' = lang
  BY DEF ReaderInv, StackInv, ValueAllowed, Reads
<1>2. /\ n \in 1 .. Len(doc) /\ s \in Nat /\ Settled(n)' = s + 1
      /\ m2[s + 1] = [key |-> pending, id |-> id]
  BY <1>1, ScalarMember
<1>3. m2[s + 1].key = pending /\ m2[s + 1].id = id
  BY <1>2
<1>4. NodeHolds(n)
  BY <1>1, <1>2 DEF ContentInv
<1>5. doc'[n].kind = "object" /\ ObjectHolds(c, m2, s, NilIds')
  BY <1>1, <1>2, <1>4, ReadsHolds
<1>6. id \in NilIds' <=> lang = "lua" /\ kind = "null"
  BY <1>1, ReadsKinds
<1>7. n \in DOMAIN content
  <2>1. Len(doc) \in Nat /\ Len(doc) <= MaxValues
    BY <1>1, LenProperties DEF ReaderTypes
  <2>2. n \in 1 .. MaxValues
    BY <1>2, <2>1, KeysAssumption
  <2> QED  BY <2>2, <1>1 DEF ReaderTypes
<1>8. IF id \in NilIds' THEN c2 = Without(c, pending) ELSE c2 = With(c, pending, id)
  BY <1>6, <1>7 DEF SetMember, Put
<1> HIDE DEF c, c2, m2, s, id
<1>9. /\ \A k \in Keys : k # m2[s + 1].key =>
           /\ k \in DOMAIN c2 <=> k \in DOMAIN c
           /\ k \in DOMAIN c => c2[k] = c[k]
      /\ IF m2[s + 1].id \in NilIds' THEN m2[s + 1].key \notin DOMAIN c2
         ELSE m2[s + 1].key \in DOMAIN c2 /\ c2[m2[s + 1].key] = m2[s + 1].id
  <2>1. CASE id \in NilIds'
    <3>1. c2 = Without(c, pending)
      BY <2>1, <1>8
    <3>2. DOMAIN c2 = DOMAIN c \ {pending} /\ \A k \in DOMAIN c : k # pending => c2[k] = c[k]
      BY <3>1, WithoutIs
    <3> QED  BY <2>1, <3>2, <1>3
  <2>2. CASE id \notin NilIds'
    <3>1. c2 = With(c, pending, id)
      BY <2>2, <1>8
    <3>2. DOMAIN c2 = DOMAIN c \cup {pending}
      BY <3>1, WithIs
    <3>3. c2[pending] = id
      BY <3>1 DEF With
    <3>4. \A k \in DOMAIN c : k # pending => c2[k] = c[k]
      BY <3>1 DEF With
    <3> QED  BY <2>2, <3>2, <3>3, <3>4, <1>3
  <2> QED  BY <2>1, <2>2
<1>10. ObjectHolds(c2, m2, s + 1, NilIds')
  BY <1>2, <1>5, <1>9, ObjectMore
<1> QED  BY <1>2, <1>5, <1>10 DEF NodeHolds, c2, m2

(* A scalar in an array, if the script's value has a place for it. *)
LEMMA ScalarInArray ==
  ASSUME ReaderInv, ValueAllowed, NEW kind \in Scalars, Reads(kind), infos # <<>>,
         NEW n, n = Last(open), doc[n].kind = "array",
         SetElement(n, infos[Len(open)].arraySize + 1, Len(doc) + 1, kind),
         state' = "parse"
  PROVE  NodeHolds(n)' /\ doc'[n].kind = "array"
<1> DEFINE s == Settled(n)
           c == content[n]
           c2 == content'[n]
           m == doc[n].members
           m2 == doc'[n].members
           id == Len(doc) + 1
           size == infos[Len(open)].arraySize
<1>1. /\ StackInv /\ ReaderTypes /\ OpenInv /\ ContentInv /\ state = "parse"
      /\ kind \in Nodes \cup Scalars /\ kind \notin Nodes /\ lang' = lang
  BY DEF ReaderInv, StackInv, ValueAllowed, Reads, Scalars, Nodes
<1>2. /\ n \in 1 .. Len(doc) /\ s \in Nat /\ Settled(n)' = s + 1
      /\ m2[s + 1] = [key |-> pending, id |-> id]
      /\ Len(open) \in 1 .. Len(open) /\ n = open[Len(open)]
  BY <1>1, ScalarMember
<1>3. m2[s + 1].id = id
  BY <1>2
<1>4. NodeHolds(n) /\ CountersHold(n, size)
  BY <1>1, <1>2 DEF ContentInv
<1>5. doc'[n].kind = "array" /\ ArrayHolds(c, m2, s, NodeIds', ScalarIds', lang)
  BY <1>1, <1>2, <1>4, ReadsHolds
<1>6. /\ id \in NodeIds' <=> kind \in Nodes
      /\ id \in ScalarIds' <=> kind = "scalar"
  BY <1>1, ReadsKinds
<1>7. n \in DOMAIN content
  <2>1. Len(doc) \in Nat /\ Len(doc) <= MaxValues
    BY <1>1, LenProperties DEF ReaderTypes
  <2>2. n \in 1 .. MaxValues
    BY <1>2, <2>1, KeysAssumption
  <2> QED  BY <2>2, <1>1 DEF ReaderTypes
<1>8. \/ (lang = "python" => size + 1 \in DOMAIN c) /\ c2 = With(c, size + 1, id)
      \/ lang = "lua" /\ kind = "null"
  BY <1>7 DEF SetElement, Put
<1>9. (\A i \in 1 .. s : m2[i].id \in ScalarIds') => size = s
  <2>1. Len(m) \in Nat /\ s <= Len(m)
    BY <1>1, <1>2, SettledRange
  <2>2. \A i \in 1 .. s : i \in 1 .. Len(m)
    BY <1>2, <2>1
  <2>3. \A i \in 1 .. s : m2[i] = m[i]
    BY <1>1, <1>2, <2>2, ReadsMembers
  <2>4. \A i \in 1 .. s : m[i].id \in 1 .. Len(doc)
    BY <1>1, <1>2, <2>2 DEF OpenInv
  <2>5. \A i \in 1 .. s : m2[i].id \in ScalarIds' <=> m[i].id \in ScalarIds
    BY <1>1, <2>3, <2>4, ReadsKinds
  <2>6. (\A i \in 1 .. s : m[i].id \in ScalarIds) => size = s
    BY <1>4 DEF CountersHold
  <2> QED  BY <2>5, <2>6
<1> HIDE DEF c, c2, m, m2, s, id, size
<1>10. s = 0 => lang # "python"
  <2> SUFFICES ASSUME s = 0, lang = "python" PROVE FALSE
    OBVIOUS
  <2>1. c = <<>>
    BY <1>5 DEF ArrayHolds
  <2>2. size + 1 \in DOMAIN c
    BY <1>8
  <2> QED  BY <2>1, <2>2, EmptySeq
<1>11. ASSUME m2[s + 1].id \in ScalarIds', \A i \in 1 .. s : m2[i].id \in ScalarIds'
       PROVE  c2 = With(c, 1 + s, m2[s + 1].id)
  <2>1. kind = "scalar" /\ size = s
    BY <1>3, <1>6, <1>9, <1>11
  <2>2. c2 = With(c, s + 1, id)
    BY <1>8, <2>1
  <2>3. s + 1 = 1 + s
    BY <1>2
  <2> QED  BY <1>3, <2>2, <2>3
<1>12. ArrayHolds(c2, m2, s + 1, NodeIds', ScalarIds', lang)
  <2>1. m2[s + 1].id \notin NodeIds'
    BY <1>1, <1>3, <1>6
  <2> QED  BY <1>2, <1>5, <1>10, <1>11, <2>1, ArrayScalar
<1> QED  BY <1>1, <1>2, <1>5, <1>12 DEF NodeHolds, c2, m2

(* Where a scalar goes; of no other node anything changes. *)
LEMMA ScalarGoes ==
  ASSUME ReaderInv, NEW kind \in Scalars, value(kind), NEW n, n = Last(open)
  PROVE  /\ \A x \in DOMAIN content : x # n => content'[x] = content[x]
         /\ doc[n].kind = "array" =>
              /\ SetElement(n, infos[Len(open)].arraySize + 1, Len(doc) + 1, kind)
              /\ infos' = [infos EXCEPT ![Len(open)].arraySize = @ + 1]
         /\ doc[n].kind # "array" =>
              /\ SetMember(n, pending, Len(doc) + 1, kind)
              /\ state' = state
              /\ infos' = infos
<1>1. /\ StackInv /\ ValueAllowed /\ Reads(kind) /\ infos # <<>>
  BY DEF ReaderInv, value
<1>2. /\ Last(readers) = n /\ Last(infos) = infos[Len(open)] /\ Len(infos) = Len(open)
      /\ infos[Len(open)].isArray = (doc[n].kind = "array")
      /\ doc[n].kind # "array" => infos[Len(open)].objectKey = pending
  BY <1>1, ScalarMember
<1>3. \/ /\ doc[n].kind = "array"
         /\ infos' = [infos EXCEPT ![Len(open)].arraySize = @ + 1]
         /\ SetElement(n, infos[Len(open)].arraySize + 1, Len(doc) + 1, kind)
      \/ /\ doc[n].kind # "array"
         /\ SetMember(n, pending, Len(doc) + 1, kind)
         /\ infos' = infos /\ state' = state
  BY <1>2 DEF value
<1>4. \A x \in DOMAIN content : x # n => content'[x] = content[x]
  BY <1>3 DEF SetElement, SetMember, Put
<1> QED  BY <1>3, <1>4

LEMMA ValueContent ==
  ASSUME ReaderInv, NEW kind \in Scalars, value(kind)
  PROVE  ContentInv'
<1>0. PICK n : n = Last(open)
  OBVIOUS
<1> DEFINE l == Len(open)
           d == Len(doc)
<1>1. /\ StackInv /\ ReaderTypes /\ OpenInv /\ ContentInv /\ state = "parse"
      /\ ValueAllowed /\ Reads(kind) /\ infos # <<>> /\ appended' = appended
      /\ kind \in Nodes \cup Scalars /\ kind \notin Nodes
  BY DEF ReaderInv, StackInv, value, ValueAllowed, Nodes, Scalars
<1>2. /\ open # <<>> /\ open' = open /\ n \in 1 .. d /\ l \in 1 .. l /\ n = open[l]
      /\ Len(infos) = l /\ Settled(n) \in Nat /\ Settled(n)' = Settled(n) + 1
      /\ doc'[n].members[Settled(n) + 1] = [key |-> pending, id |-> d + 1]
  BY <1>0, <1>1, ScalarMember
<1>3. /\ d \in Nat /\ Len(doc') = d + 1
      /\ \A x \in 1 .. d : x \in DOMAIN content
      /\ doc'[d + 1].kind = kind
  <2>1. d \in Nat /\ Len(doc') = d + 1 /\ d <= MaxValues
    BY <1>1, ReadsDoc DEF ReaderTypes
  <2>2. \A x \in 1 .. d : x \in 1 .. MaxValues
    BY <2>1, KeysAssumption
  <2>3. doc'[d + 1] = [kind |-> kind, members |-> <<>>]
    BY <1>1, ReadsDoc
  <2> QED  BY <1>1, <2>1, <2>2, <2>3 DEF ReaderTypes
<1>4. \A x \in 1 .. d : x # n => Settled(x)' = Settled(x) /\ content'[x] = content[x]
  <2>1. \A x \in 1 .. d : x # n => Settled(x)' = Settled(x)
    BY <1>0, <1>1, ReadsSettled
  <2>2. \A x \in 1 .. d : x # n => content'[x] = content[x]
    BY <1>0, <1>3, ScalarGoes
  <2> QED  BY <2>1, <2>2
<1>5. ASSUME state' = "parse" PROVE NodeHolds(n)' /\ doc'[n].kind = doc[n].kind
  <2>1. CASE doc[n].kind = "array"
    BY <2>1, <1>0, <1>1, <1>5, ScalarGoes, ScalarInArray
  <2>2. CASE doc[n].kind = "object"
    BY <2>2, <1>0, <1>1, ScalarGoes, ScalarInObject
  <2>3. doc[n].kind \in Nodes
    BY <1>1, <1>2 DEF OpenInv
  <2> QED  BY <2>1, <2>2, <2>3 DEF Nodes
<1>6. ASSUME state' = "parse", NEW x \in 1 .. Len(doc') PROVE NodeHolds(x)'
  <2>1. CASE x = n  BY <2>1, <1>5, <1>6
  <2>2. CASE x \in 1 .. d /\ x # n
    <3>1. NodeHolds(x)
      BY <2>2, <1>1 DEF ContentInv
    <3> QED  BY <2>2, <3>1, <1>1, <1>4, ReadsKeepsNode
  <2>3. CASE x = d + 1
    <3>1. doc'[x].kind # "object" /\ doc'[x].kind # "array"
      BY <2>3, <1>3 DEF Scalars
    <3> QED  BY <3>1 DEF NodeHolds
  <2> QED  BY <2>1, <2>2, <2>3, <1>3
<1>7. ASSUME state' = "parse", NEW i \in 1 .. Len(open'), NEW x, NEW size,
             x = open'[i], size = infos'[i].arraySize
      PROVE  CountersHold(x, size)'
  <2>1. i \in 1 .. l /\ x = open[i] /\ x \in 1 .. d
    BY <1>1, <1>2, <1>7 DEF OpenInv
  <2>2. CASE i # l
    <3>1. x # n
      BY <2>1, <2>2, <1>1, <1>2, OpenApart
    <3>2. infos'[i] = infos[i]
      BY <2>1, <2>2, <1>0, <1>2, ScalarGoes
    <3>3. CountersHold(x, size)
      BY <2>1, <3>2, <1>1, <1>7 DEF ContentInv
    <3> QED  BY <2>1, <3>1, <3>3, <1>1, <1>4, ReadsKeepsCounters
  <2>3. CASE i = l
    <3> DEFINE s == Settled(n)
               m == doc[n].members
               m2 == doc'[n].members
               old == infos[l].arraySize
    <3>1. x = n
      BY <2>1, <2>3, <1>2
    <3> SUFFICES ASSUME doc[n].kind = "array"
                 PROVE  /\ ~ \A j \in 1 .. Settled(n)' : m2[j].id \in NodeIds'
                        /\ (\A j \in 1 .. Settled(n)' : m2[j].id \in ScalarIds') => size = Settled(n)'
      BY <3>1, <1>5, <1>7 DEF CountersHold
    <3>2. size = old + 1
      <4>1. infos' = [infos EXCEPT ![l].arraySize = @ + 1]
        BY <1>0, ScalarGoes
      <4>2. infos \in Seq(Info)
        BY <1>1 DEF ReaderTypes
      <4>3. infos[l] \in Info /\ l \in DOMAIN infos
        BY <4>2, <1>2, ElementOfSeq, LenProperties
      <4>4. infos'[l] = [infos[l] EXCEPT !.arraySize = @ + 1]
        BY <4>1, <4>3
      <4>5. infos'[l].arraySize = old + 1
        BY <4>3, <4>4 DEF Info
      <4> QED  BY <4>5, <2>3, <1>7
    <3>3. CountersHold(n, old)
      BY <1>1, <1>2 DEF ContentInv
    <3>4. s + 1 \in 1 .. s + 1 /\ \A j \in 1 .. s : j \in 1 .. s + 1
      BY <1>2
    <3>5. m2[s + 1].id \notin NodeIds'
      <4>1. m2[s + 1].id = d + 1
        BY <1>2
      <4>2. d + 1 \notin NodeIds'
        BY <1>1, ReadsKinds
      <4> QED  BY <4>1, <4>2
    <3>6. \A j \in 1 .. s : m2[j].id \in ScalarIds' <=> m[j].id \in ScalarIds
      <4>1. Len(m) \in Nat /\ s <= Len(m)
        BY <1>1, <1>2, SettledRange
      <4>2. \A j \in 1 .. s : j \in 1 .. Len(m)
        BY <1>2, <4>1
      <4>3. \A j \in 1 .. s : m2[j] = m[j]
        BY <1>1, <1>2, <4>2, ReadsMembers
      <4>4. \A j \in 1 .. s : m[j].id \in 1 .. d
        BY <1>1, <1>2, <4>2 DEF OpenInv
      <4> QED  BY <1>1, <4>3, <4>4, ReadsKinds
    <3>7. (\A j \in 1 .. s : m[j].id \in ScalarIds) => old = s
      BY <3>3 DEF CountersHold
    <3>8. Settled(n)' = s + 1
      BY <1>2
    <3> HIDE DEF s, m, m2, old
    <3>9. ~ \A j \in 1 .. s + 1 : m2[j].id \in NodeIds'
      BY <3>4, <3>5
    <3>10. (\A j \in 1 .. s + 1 : m2[j].id \in ScalarIds') => size = s + 1
      BY <3>2, <3>4, <3>6, <3>7
    <3> QED  BY <3>8, <3>9, <3>10
  <2> QED  BY <2>2, <2>3
<1>8. state' \in {"parse", "raised"}
  BY <1>1, SetKeepsNodes DEF value, ReaderTypes
<1> QED  BY <1>6, <1>7, <1>8, ContentWillBe

(* A step that reads nothing, ends nothing and changes no node. *)
LEMMA QuietContent ==
  ASSUME ContentInv, state = "parse" \/ state' = state,
         UNCHANGED <<lang, doc, open, content, appended>>,
         state' = "parse" => \A i \in 1 .. Len(open) : infos'[i].arraySize = infos[i].arraySize
  PROVE  ContentInv'
<1>1. ASSUME state' \in {"parse", "returned"}, NEW n \in 1 .. Len(doc')
      PROVE  NodeHolds(n)'
  <2>1. NodeHolds(n)
    BY <1>1 DEF ContentInv
  <2>2. Settled(n)' = Settled(n)
    BY DEF Settled, Awaits
  <2>3. NilIds' = NilIds /\ NodeIds' = NodeIds /\ ScalarIds' = ScalarIds
    BY DEF NilIds, NodeIds, ScalarIds, IsNil
  <2> QED  BY <2>1, <2>2, <2>3 DEF NodeHolds
<1>2. ASSUME state' = "parse", NEW i \in 1 .. Len(open'), NEW n, NEW size,
             n = open'[i], size = infos'[i].arraySize
      PROVE  CountersHold(n, size)'
  <2>1. CountersHold(n, size)
    BY <1>2 DEF ContentInv
  <2> QED  BY <2>1 DEF CountersHold, Settled, Awaits, NodeIds, ScalarIds
<1> QED  BY <1>1, <1>2, ContentWillBe

LEMMA KeyContent ==
  ASSUME ReaderInv, NEW k \in Keys, Key(k)
  PROVE  ContentInv'
<1>1. /\ StackInv /\ ContentInv /\ state = "parse"
      /\ UNCHANGED <<lang, doc, open, content, appended>>
      /\ infos' = [infos EXCEPT ![Len(infos)].objectKey = k]
  BY DEF ReaderInv, Key
<1>2. /\ Len(infos) = Len(open) /\ \A i \in 1 .. Len(open) : infos[i] \in Info
      /\ DOMAIN infos = 1 .. Len(infos)
  BY <1>1, StacksWere, LenProperties DEF StackInv, ReaderTypes
<1>3. ASSUME NEW i \in 1 .. Len(open) PROVE infos'[i].arraySize = infos[i].arraySize
  <2>1. infos'[i] = infos[i] \/ infos'[i] = [infos[i] EXCEPT !.objectKey = k]
    BY <1>1, <1>2
  <2>2. infos[i] \in Info
    BY <1>2
  <2> QED  BY <2>1, <2>2 DEF Info
<1> QED  BY <1>1, <1>3, QuietContent

LEMMA ReturnContent ==
  ASSUME ReaderInv, state = "parse", Return
  PROVE  ContentInv'
<1>1. /\ ContentInv /\ UNCHANGED <<lang, doc, open, content, appended>>
      /\ state' # "parse"
  BY DEF ReaderInv, Return, docVars
<1> QED  BY <1>1, QuietContent

(* The end of a node settles it as a member of the node around it. *)
LEMMA EndsSettled ==
  ASSUME StackInv, NodeEnds, NEW n \in 1 .. Len(doc)
  PROVE  IF Len(open) > 1 /\ n = open[Len(open) - 1]
         THEN Settled(n)' = Settled(n) + 1 /\ Settled(n) + 1 = Len(doc[n].members)
         ELSE Settled(n)' = Settled(n)
<1> DEFINE l == Len(open)
<1>1. ReaderTypes /\ OpenInv /\ doc' = doc
  BY DEF StackInv, NodeEnds
<1>2. l \in Nat /\ l >= 1 /\ Len(open') = l - 1 /\ \A i \in 1 .. l - 1 : open'[i] = open[i]
  BY EndsKeep
<1>3. Len(doc[n].members) \in Nat
  BY <1>1, SettledRange
<1>4. Awaits(n)' <=> \E i \in 1 .. l - 2 : open[i] = n
  <2>1. 1 .. Len(open') - 1 = 1 .. l - 2
    BY <1>2
  <2>2. Awaits(n)' <=> \E i \in 1 .. l - 2 : open'[i] = n
    BY <2>1 DEF Awaits
  <2>3. \A i \in 1 .. l - 2 : open'[i] = open[i]
    BY <1>2
  <2> QED  BY <2>2, <2>3
<1>5. CASE l > 1 /\ n = open[l - 1]
  <2>1. l - 1 \in 1 .. l - 1
    BY <1>2, <1>5
  <2>2. Awaits(n)
    BY <1>5, <2>1 DEF Awaits
  <2>3. ~Awaits(n)'
    <3> SUFFICES ASSUME NEW i \in 1 .. l - 2, open[i] = n PROVE FALSE
      BY <1>4
    <3>1. i \in 1 .. l /\ l - 1 \in 1 .. l /\ i # l - 1
      BY <1>2, <1>5
    <3> QED  BY <3>1, <1>1, <1>5, OpenApart
  <2>4. Settled(n)' = Len(doc[n].members) - 0
    BY <1>1, <2>3 DEF Settled
  <2>5. Settled(n) + 1 = Len(doc[n].members)
    BY <1>1, <2>2, SettledRange
  <2> QED  BY <1>3, <1>5, <2>4, <2>5
<1>6. CASE ~(l > 1 /\ n = open[l - 1])
  <2>1. Awaits(n) <=> \E i \in 1 .. l - 2 : open[i] = n
    <3>1. \A i \in 1 .. l - 1 : i \in 1 .. l - 2 \/ (i = l - 1 /\ l > 1)
      BY <1>2
    <3>2. \A i \in 1 .. l - 2 : i \in 1 .. l - 1
      BY <1>2
    <3> QED  BY <3>1, <3>2, <1>6 DEF Awaits
  <2> QED  BY <1>1, <1>4, <1>6, <2>1 DEF Settled
<1> QED  BY <1>5, <1>6

LEMMA EndsKinds ==
  ASSUME NodeEnds
  PROVE  NilIds' = NilIds /\ NodeIds' = NodeIds /\ ScalarIds' = ScalarIds
  BY DEF NodeEnds, NilIds, NodeIds, ScalarIds, IsNil

LEMMA EndRootContent ==
  ASSUME ReaderInv, endRoot
  PROVE  ContentInv'
<1>1. /\ StackInv /\ ContentInv /\ NodeEnds /\ state = "parse"
      /\ UNCHANGED <<lang, doc, content, appended>> /\ Len(readers) <= 1
  BY DEF ReaderInv, endRoot, NodeEnds
<1>2. Len(open') = 0 /\ ~(Len(open) > 1)
  BY <1>1, EndsKeep
<1>3. ASSUME NEW n \in 1 .. Len(doc') PROVE NodeHolds(n)'
  <2>1. NodeHolds(n)
    BY <1>1 DEF ContentInv
  <2>2. Settled(n)' = Settled(n)
    BY <1>1, <1>2, EndsSettled
  <2> QED  BY <1>1, <2>1, <2>2, EndsKinds DEF NodeHolds
<1>4. \A i \in 1 .. Len(open') : FALSE
  BY <1>2
<1> QED  BY <1>3, <1>4, ContentWillBe

(* What lua_rawlen gives for an array that is filled from 1 on. *)
LEMMA BorderOf ==
  ASSUME NEW c, NEW s \in Nat, DOMAIN c = 1 .. s, NEW b \in Borders(c)
  PROVE  b = s
<1>1. b \in {0} \cup 1 .. s /\ b + 1 \notin 1 .. s
  BY DEF Borders
<1> QED  BY <1>1

LEMMA LastIndex ==
  ASSUME NEW s \in Nat, s # 0
  PROVE  Max(0 .. (s - 1)) = s - 1
<1> DEFINE m == Max(0 .. (s - 1))
<1>1. s - 1 \in 0 .. (s - 1) /\ \A y \in 0 .. (s - 1) : s - 1 >= y
  OBVIOUS
<1>2. m \in 0 .. (s - 1) /\ \A y \in 0 .. (s - 1) : m >= y
  BY <1>1 DEF Max
<1> HIDE DEF m
<1>3. m >= s - 1
  BY <1>1, <1>2
<1> QED  BY <1>2, <1>3 DEF m

(* Where append() puts a node, if all elements so far are nodes. *)
LEMMA AppendedBehind ==
  ASSUME NEW n \in DOMAIN content, NEW v, NEW m, NEW s \in Nat,
         AppendTo(n, v), lang \in ReaderType,
         IF s = 0 THEN content[n] = <<>>
         ELSE Filled(content[n], m, s, IF lang = "lua" THEN 1 ELSE 0),
         lang = "javascript" => appended[n] = s
  PROVE  content'[n] = With(content[n], (IF lang = "lua" THEN 1 ELSE 0) + s, v)
<1> DEFINE c == content[n]
<1>1. CASE lang = "lua"
  <2>1. DOMAIN c = 1 .. s
    <3>1. CASE s = 0
      <4>1. DOMAIN c = {} /\ 1 .. 0 = {}
        BY <3>1, EmptySeq
      <4> QED  BY <3>1, <4>1
    <3>2. CASE s # 0
      <4>1. 1 + s - 1 = s
        OBVIOUS
      <4> QED  BY <3>2, <4>1, <1>1 DEF Filled
    <3> QED  BY <3>1, <3>2
  <2>2. PICK b \in Borders(c) : Put(n, b + 1, v)
    BY <1>1 DEF AppendTo
  <2>3. b = s
    BY <2>1, BorderOf
  <2>4. b + 1 = 1 + s
    BY <2>3
  <2> QED  BY <1>1, <2>2, <2>4 DEF Put
<1>2. CASE lang = "python"
  <2>1. Put(n, IF c = <<>> THEN 0 ELSE Max(DOMAIN c) + 1, v)
    BY <1>2 DEF AppendTo
  <2>2. (IF c = <<>> THEN 0 ELSE Max(DOMAIN c) + 1) = s
    <3>1. CASE s = 0  BY <3>1
    <3>2. CASE s # 0
      <4>1. DOMAIN c = 0 .. (s - 1)
        <5>1. 0 + s - 1 = s - 1
          OBVIOUS
        <5> QED  BY <3>2, <5>1, <1>2 DEF Filled
      <4>2. c # <<>>
        <5>1. 0 \in DOMAIN c
          BY <3>2, <4>1
        <5> QED  BY <5>1, EmptySeq
      <4>3. Max(DOMAIN c) = s - 1
        BY <3>2, <4>1, LastIndex
      <4> QED  BY <4>2, <4>3
    <3> QED  BY <3>1, <3>2
  <2>3. Put(n, s, v)
    BY <2>1, <2>2
  <2>4. 0 + s = s
    OBVIOUS
  <2> QED  BY <1>2, <2>3, <2>4 DEF Put
<1>3. CASE lang = "javascript"
  <2>1. Put(n, appended[n], v) /\ appended[n] = s /\ 0 + s = s
    BY <1>3 DEF AppendTo
  <2> QED  BY <1>3, <2>1 DEF Put
<1> QED  BY <1>1, <1>2, <1>3 DEF ReaderType

(* The node that ends and the one around it. *)
LEMMA EndNodeMember ==
  ASSUME ReaderInv, endNode, NEW n, n = open[Len(open) - 1], NEW child, child = open[Len(open)]
  PROVE  /\ Len(open) - 1 \in 1 .. Len(open) /\ Len(open') = Len(open) - 1
         /\ n \in 1 .. Len(doc) /\ n \in DOMAIN content
         /\ child \in NodeIds /\ child \notin ScalarIds /\ child \notin NilIds
         /\ Settled(n) \in Nat /\ Settled(n)' = Settled(n) + 1
         /\ doc[n].members[Settled(n) + 1].id = child
         /\ \/ /\ doc[n].kind = "array"
               /\ AppendTo(n, child)
            \/ /\ doc[n].kind = "object"
               /\ Put(n, doc[n].members[Settled(n) + 1].key, child)
               /\ appended' = appended
<1> DEFINE l == Len(open)
<1>1. /\ StackInv /\ ReaderTypes /\ OpenInv /\ NodeEnds /\ state = "parse"
      /\ Len(readers) > 1 /\ readers' = Front(readers)
  BY DEF ReaderInv, StackInv, endNode, NodeEnds
<1>2. /\ l \in Nat /\ Len(open') = l - 1 /\ readers = open /\ Len(infos') = l - 1
      /\ \A i \in 1 .. l - 1 : infos'[i] = infos[i]
      /\ \A i \in 1 .. l - 1 : open'[i] = open[i]
      /\ readers' = open'
  BY <1>1, EndsKeep
<1>3. l > 1 /\ l - 1 \in 1 .. l - 1 /\ l - 1 \in 1 .. l /\ l \in 1 .. l
  BY <1>1, <1>2
<1>4. n \in 1 .. Len(doc) /\ doc[n].kind \in Nodes /\ child \in 1 .. Len(doc) /\ doc[child].kind \in Nodes
  BY <1>1, <1>3 DEF OpenInv
<1>5. child \in NodeIds /\ child \notin ScalarIds /\ child \notin NilIds
  BY <1>4 DEF NodeIds, ScalarIds, NilIds, IsNil, Nodes
<1>6. n \in DOMAIN content
  <2>1. Len(doc) \in Nat /\ Len(doc) <= MaxValues
    BY <1>1, LenProperties DEF ReaderTypes
  <2>2. n \in 1 .. MaxValues
    BY <1>4, <2>1, KeysAssumption
  <2> QED  BY <2>2, <1>1 DEF ReaderTypes
<1>7. /\ Settled(n) \in Nat /\ Settled(n)' = Settled(n) + 1
      /\ Settled(n) + 1 = Len(doc[n].members)
  BY <1>1, <1>3, <1>4, EndsSettled, SettledRange
<1>8. Last(doc[n].members).id = child
  <2>1. l - 1 + 1 = l
    BY <1>2
  <2> QED  BY <1>1, <1>3, <2>1 DEF OpenInv
<1>9. InfoOf(l - 1)
  BY <1>1, <1>3, StacksWere
<1>10. /\ infos[l - 1].isArray = (doc[n].kind = "array")
       /\ infos[l - 1].objectKey = Last(doc[n].members).key
  <2>1. l - 1 < l
    BY <1>2
  <2> QED  BY <1>9, <2>1 DEF InfoOf
<1>11. Last(doc[n].members) = doc[n].members[Settled(n) + 1]
  BY <1>7 DEF Last
<1>12. Last(readers') = n /\ Last(readers) = child /\ Last(infos') = infos[l - 1]
  BY <1>2, <1>3 DEF Last
<1>13. \/ infos[l - 1].isArray /\ AppendTo(n, child)
       \/ /\ ~infos[l - 1].isArray
          /\ Put(n, infos[l - 1].objectKey, child) /\ appended' = appended
  BY <1>12 DEF endNode
<1>14. \/ /\ doc[n].kind = "array"
          /\ AppendTo(n, child)
       \/ /\ doc[n].kind = "object"
          /\ Put(n, doc[n].members[Settled(n) + 1].key, child)
          /\ appended' = appended
  BY <1>4, <1>10, <1>11, <1>13 DEF Nodes
<1> QED  BY <1>2, <1>3, <1>4, <1>5, <1>6, <1>7, <1>8, <1>11, <1>14

(* A node in an array. *)
LEMMA NodeInArray ==
  ASSUME ReaderInv, endNode, NEW n, n = open[Len(open) - 1], doc[n].kind = "array"
  PROVE  NodeHolds(n)'
<1>0. PICK child : child = open[Len(open)]
  OBVIOUS
<1> DEFINE s == Settled(n)
           c == content[n]
           c2 == content'[n]
           m == doc[n].members
<1>1. /\ Len(open) - 1 \in 1 .. Len(open)
      /\ n \in 1 .. Len(doc) /\ n \in DOMAIN content
      /\ child \in NodeIds /\ child \notin ScalarIds
      /\ s \in Nat /\ Settled(n)' = s + 1
      /\ m[s + 1].id = child
  BY <1>0, EndNodeMember
<1>2. AppendTo(n, child)
  BY <1>0, EndNodeMember
<1>3. /\ NodeHolds(n) /\ CountersHold(n, infos[Len(open) - 1].arraySize)
      /\ lang \in ReaderType /\ NodeEnds
      /\ lang' = lang /\ doc' = doc
  <2>1. state = "parse" /\ ContentInv /\ lang \in ReaderType /\ NodeEnds /\ lang' = lang /\ doc' = doc
    BY DEF ReaderInv, StackInv, ReaderTypes, endNode, NodeEnds
  <2> QED  BY <1>1, <2>1 DEF ContentInv
<1>4. ArrayHolds(c, m, s, NodeIds, ScalarIds, lang)
  BY <1>3 DEF NodeHolds
<1>5. ASSUME \A i \in 1 .. s : m[i].id \in NodeIds
      PROVE  c2 = With(c, (IF lang = "lua" THEN 1 ELSE 0) + s, m[s + 1].id)
  <2>1. IF s = 0 THEN c = <<>> ELSE Filled(c, m, s, IF lang = "lua" THEN 1 ELSE 0)
    BY <1>4, <1>5 DEF ArrayHolds
  <2>2. lang = "javascript" => appended[n] = s
    BY <1>3, <1>5 DEF CountersHold
  <2> HIDE DEF m, s
  <2>3. content'[n] = With(content[n], (IF lang = "lua" THEN 1 ELSE 0) + s, child)
    BY <1>1, <1>2, <1>3, <2>1, <2>2, AppendedBehind
  <2> QED  BY <1>1, <2>3
<1> HIDE DEF m, s, c, c2
<1>6. ArrayHolds(c2, m, s + 1, NodeIds, ScalarIds, lang)
  BY <1>1, <1>4, <1>5, ArrayNode
<1> QED  BY <1>1, <1>3, <1>6, EndsKinds DEF NodeHolds, m, c2

(* A node in an object. *)
LEMMA NodeInObject ==
  ASSUME ReaderInv, endNode, NEW n, n = open[Len(open) - 1], doc[n].kind = "object"
  PROVE  NodeHolds(n)'
<1>0. PICK child : child = open[Len(open)]
  OBVIOUS
<1> DEFINE s == Settled(n)
           c == content[n]
           c2 == content'[n]
           m == doc[n].members
           k == m[s + 1].key
<1>1. /\ n \in 1 .. Len(doc) /\ n \in DOMAIN content
      /\ child \notin NilIds
      /\ s \in Nat /\ Settled(n)' = s + 1
      /\ m[s + 1].id = child
      /\ Put(n, k, child)
  BY <1>0, EndNodeMember
<1>2. NodeHolds(n) /\ NodeEnds /\ doc' = doc
  <2>1. state = "parse" /\ ContentInv /\ NodeEnds /\ doc' = doc
    BY DEF ReaderInv, endNode, NodeEnds
  <2> QED  BY <1>1, <2>1 DEF ContentInv
<1>3. ObjectHolds(c, m, s, NilIds)
  BY <1>2 DEF NodeHolds
<1>4. c2 = With(c, k, child)
  BY <1>1 DEF Put
<1> HIDE DEF m, s, c, c2
<1>5. DOMAIN c2 = DOMAIN c \cup {k}
  BY <1>4 DEF With
<1>6. c2[k] = child
  BY <1>4 DEF With
<1>7. \A x \in DOMAIN c : x # k => c2[x] = c[x]
  BY <1>4 DEF With
<1>8. \A x \in Keys : x # m[s + 1].key =>
        /\ x \in DOMAIN c2 <=> x \in DOMAIN c
        /\ x \in DOMAIN c => c2[x] = c[x]
  BY <1>5, <1>7
<1>9. IF m[s + 1].id \in NilIds THEN m[s + 1].key \notin DOMAIN c2
      ELSE m[s + 1].key \in DOMAIN c2 /\ c2[m[s + 1].key] = m[s + 1].id
  BY <1>1, <1>5, <1>6
<1>10. ObjectHolds(c2, m, s + 1, NilIds)
  BY <1>1, <1>3, <1>8, <1>9, ObjectMore
<1> QED  BY <1>1, <1>2, <1>10, EndsKinds DEF NodeHolds, m, c2

LEMMA EndNodeContent ==
  ASSUME ReaderInv, endNode
  PROVE  ContentInv'
<1>0. PICK n, child : n = open[Len(open) - 1] /\ child = open[Len(open)]
  OBVIOUS
<1> DEFINE l == Len(open)
<1>1. /\ StackInv /\ ReaderTypes /\ OpenInv /\ ContentInv /\ NodeEnds /\ state = "parse"
      /\ lang' = lang /\ doc' = doc
  BY DEF ReaderInv, StackInv, endNode, NodeEnds
<1>2. /\ l - 1 \in 1 .. l /\ Len(open') = l - 1 /\ n \in 1 .. Len(doc)
      /\ doc[n].kind = "array" => AppendTo(n, child)
      /\ doc[n].kind \in {"array", "object"}
      /\ child \notin ScalarIds
      /\ Settled(n) \in Nat /\ Settled(n)' = Settled(n) + 1
      /\ doc[n].members[Settled(n) + 1].id = child
  BY <1>0, EndNodeMember
<1>3. l \in Nat
  BY <1>1, LenProperties DEF ReaderTypes
<1>4. \A x \in 1 .. Len(doc) : x # n => Settled(x)' = Settled(x)
  BY <1>0, <1>1, EndsSettled
<1>5. \A x \in 1 .. Len(doc) : x # n => content'[x] = content[x] /\ appended'[x] = appended[x]
  <2>1. Len(doc) \in Nat /\ Len(doc) <= MaxValues
    BY <1>1, LenProperties DEF ReaderTypes
  <2>2. \A x \in 1 .. Len(doc) : x \in DOMAIN content /\ x \in DOMAIN appended
    BY <2>1, <1>1, KeysAssumption DEF ReaderTypes
  <2>3. \/ AppendTo(n, child)
        \/ \E k : Put(n, k, child) /\ appended' = appended
    BY <1>0, EndNodeMember
  <2>4. \A x \in DOMAIN content : x # n => content'[x] = content[x]
    BY <2>3 DEF AppendTo, Put
  <2>5. \A x \in DOMAIN appended : x # n => appended'[x] = appended[x]
    BY <2>3 DEF AppendTo
  <2> QED  BY <2>2, <2>4, <2>5
<1>6. NodeHolds(n)'
  BY <1>0, <1>2, NodeInArray, NodeInObject
<1>7. ASSUME NEW x \in 1 .. Len(doc') PROVE NodeHolds(x)'
  <2>1. CASE x = n  BY <2>1, <1>6
  <2>2. CASE x # n
    <3>1. NodeHolds(x)
      BY <1>1, <1>7 DEF ContentInv
    <3>2. Settled(x)' = Settled(x) /\ content'[x] = content[x]
      BY <2>2, <1>1, <1>4, <1>5
    <3> QED  BY <3>1, <3>2, <1>1, EndsKinds DEF NodeHolds
  <2> QED  BY <2>1, <2>2
<1>8. ASSUME NEW i \in 1 .. Len(open'), NEW x, NEW size, x = open'[i], size = infos'[i].arraySize
      PROVE  CountersHold(x, size)'
  <2>1. i \in 1 .. l - 1 /\ i \in 1 .. l
    BY <1>2, <1>3
  <2>2. x = open[i] /\ size = infos[i].arraySize
    BY <2>1, <1>1, <1>8, EndsKeep
  <2>3. CountersHold(x, size) /\ x \in 1 .. Len(doc)
    BY <2>1, <2>2, <1>1 DEF ContentInv, OpenInv
  <2>4. CASE i # l - 1
    <3>1. x # n
      BY <2>1, <2>2, <2>4, <1>0, <1>1, <1>2, OpenApart
    <3>2. Settled(x)' = Settled(x) /\ appended'[x] = appended[x]
      BY <2>3, <3>1, <1>4, <1>5
    <3> QED  BY <2>3, <3>2, <1>1, EndsKinds DEF CountersHold
  <2>5. CASE i = l - 1
    <3> DEFINE s == Settled(n)
               m == doc[n].members
    <3>1. x = n
      BY <2>2, <2>5, <1>0
    <3>2. s + 1 \in 1 .. s + 1 /\ \A j \in 1 .. s : j \in 1 .. s + 1
      BY <1>2
    <3>3. ~ \A j \in 1 .. s + 1 : m[j].id \in ScalarIds
      BY <3>2, <1>2
    <3>4. ASSUME doc[n].kind = "array", lang = "javascript", \A j \in 1 .. s + 1 : m[j].id \in NodeIds
          PROVE  appended'[n] = s + 1
      <4>1. \A j \in 1 .. s : m[j].id \in NodeIds
        BY <3>2, <3>4
      <4>2. appended[n] = s
        BY <2>3, <3>1, <3>4, <4>1 DEF CountersHold
      <4>3. appended' = [appended EXCEPT ![n] = @ + 1]
        BY <1>2, <3>4 DEF AppendTo
      <4>4. n \in DOMAIN appended
        <5>1. Len(doc) \in Nat /\ Len(doc) <= MaxValues
          BY <1>1, LenProperties DEF ReaderTypes
        <5>2. n \in 1 .. MaxValues
          BY <1>2, <5>1, KeysAssumption
        <5> QED  BY <5>2, <1>1 DEF ReaderTypes
      <4> QED  BY <4>2, <4>3, <4>4
    <3>5. Settled(n)' = s + 1
      BY <1>2
    <3> HIDE DEF s, m
    <3> QED  BY <3>1, <3>3, <3>4, <3>5, <1>1, EndsKinds DEF CountersHold, m
  <2> QED  BY <2>4, <2>5
<1> QED  BY <1>7, <1>8, ContentWillBe

-----------------------------------------------------------------------------
(* The invariant, and what it says of a whole text. *)

LEMMA ReaderStep == ReaderInv /\ [Next]_vars => ReaderInv'
<1> SUFFICES ASSUME ReaderInv, [Next]_vars PROVE ContentInv'
  BY StackStep DEF ReaderInv
<1>1. CASE \E k \in Keys : Key(k)
  BY <1>1, KeyContent
<1>2. CASE \E isArray \in BOOLEAN : beginNode(isArray)
  BY <1>2, BeginContent
<1>3. CASE endRoot
  BY <1>3, EndRootContent
<1>4. CASE endNode
  BY <1>4, EndNodeContent
<1>5. CASE \E kind \in Scalars : value(kind) \/ valueAlone(kind)
  <2>1. ASSUME NEW kind \in Scalars, valueAlone(kind) PROVE ContentInv'
    BY <2>1 DEF valueAlone, ContentInv
  <2> QED  BY <1>5, <2>1, ValueContent
<1>6. CASE Finish \/ ParseError
  BY <1>6, ReturnContent DEF Finish, ParseError
<1>7. CASE UNCHANGED vars
  <2>1. UNCHANGED <<lang, doc, open, content, appended, state, infos>>
    BY <1>7 DEF vars, docVars
  <2> QED  BY <2>1, QuietContent DEF ReaderInv
<1> QED  BY <1>1, <1>2, <1>3, <1>4, <1>5, <1>6, <1>7 DEF Next

LEMMA ReaderAlways == Spec => []ReaderInv
<1>1. Init => ContentInv
  <2> SUFFICES ASSUME Init PROVE ContentInv
    OBVIOUS
  <2>1. Len(doc) = 0 /\ Len(open) = 0
    BY EmptySeq DEF Init
  <2> QED  BY <2>1 DEF ContentInv
<1> QED  BY <1>1, StackInit, ReaderStep, PTL DEF Spec, ReaderInv

(* In a whole text every member of a node is settled. *)
LEMMA WholeText ==
  ASSUME ReaderInv, Complete, NEW n \in DOMAIN doc
  PROVE  /\ n \in 1 .. Len(doc)
         /\ NodeHolds(n)
         /\ doc[n].members \in Seq(Members)
         /\ Len(doc[n].members) \in Nat
         /\ DOMAIN doc[n].members = 1 .. Len(doc[n].members)
         /\ Settled(n) = Len(doc[n].members)
         /\ \A i \in 1 .. Len(doc[n].members) : doc[n].members[i].id \in 1 .. Len(doc)
<1>1. ReaderTypes /\ OpenInv /\ ContentInv /\ state = "returned" /\ open = <<>>
  BY DEF ReaderInv, StackInv, Complete
<1>2. n \in 1 .. Len(doc) /\ doc[n] \in Node
  BY <1>1, LenProperties, ElementOfSeq DEF ReaderTypes
<1>3. /\ doc[n].members \in Seq(Members) /\ Len(doc[n].members) \in Nat
      /\ DOMAIN doc[n].members = 1 .. Len(doc[n].members)
  BY <1>2, LenProperties DEF Node
<1>4. ~Awaits(n)
  <2>1. Len(open) = 0
    BY <1>1, EmptySeq
  <2> QED  BY <2>1 DEF Awaits
<1>5. Settled(n) = Len(doc[n].members)
  BY <1>3, <1>4 DEF Settled
<1>6. NodeHolds(n)
  BY <1>1, <1>2 DEF ContentInv
<1>7. \A i \in 1 .. Len(doc[n].members) : doc[n].members[i].id \in 1 .. Len(doc)
  BY <1>1, <1>2 DEF OpenInv
<1> QED  BY <1>2, <1>3, <1>5, <1>6, <1>7

LEMMA ObjectInText ==
  ASSUME ReaderInv, Complete, NEW n \in DOMAIN doc, doc[n].kind = "object", NEW k \in Keys
  PROVE  LET last == doc[n].members[Max(Named(n, k))].id
         IN  IF Named(n, k) = {} \/ IsNil(last)
             THEN k \notin DOMAIN content[n]
             ELSE k \in DOMAIN content[n] /\ content[n][k] = last
<1> DEFINE m == doc[n].members
           l == Len(m)
           c == content[n]
<1>1. l \in Nat /\ DOMAIN m = 1 .. l /\ \A i \in 1 .. l : m[i].id \in 1 .. Len(doc)
  BY WholeText
<1>2. \/ k \notin DOMAIN c /\ \A i \in 1 .. l : m[i].key # k
      \/ \E i \in 1 .. l :
           /\ Newest(m, l, k, i)
           /\ IF m[i].id \in NilIds THEN k \notin DOMAIN c
              ELSE k \in DOMAIN c /\ c[k] = m[i].id
  <2>1. ObjectHolds(c, m, l, NilIds)
    BY WholeText DEF NodeHolds
  <2> HIDE DEF c, m, l
  <2> QED  BY <2>1 DEF ObjectHolds
<1>3. Named(n, k) = {i \in 1 .. l : m[i].key = k}
  BY <1>1 DEF Named
<1> SUFFICES IF Named(n, k) = {} \/ IsNil(m[Max(Named(n, k))].id)
             THEN k \notin DOMAIN c
             ELSE k \in DOMAIN c /\ c[k] = m[Max(Named(n, k))].id
  OBVIOUS
<1> HIDE DEF c, m, l
<1>4. CASE k \notin DOMAIN c /\ \A i \in 1 .. l : m[i].key # k
  BY <1>3, <1>4
<1>5. ASSUME NEW i \in 1 .. l, Newest(m, l, k, i),
             IF m[i].id \in NilIds THEN k \notin DOMAIN c
             ELSE k \in DOMAIN c /\ c[k] = m[i].id
      PROVE  IF Named(n, k) = {} \/ IsNil(m[Max(Named(n, k))].id)
             THEN k \notin DOMAIN c
             ELSE k \in DOMAIN c /\ c[k] = m[Max(Named(n, k))].id
  <2>1. i \in Named(n, k) /\ \A j \in Named(n, k) : i >= j
    BY <1>1, <1>3, <1>5 DEF Newest
  <2>2. Max(Named(n, k)) = i
    <3>1. \A j \in Named(n, k) : (\A h \in Named(n, k) : j >= h) => j = i
      BY <2>1, <1>1, <1>3
    <3> QED  BY <2>1, <3>1 DEF Max
  <2>3. m[i].id \in NilIds <=> IsNil(m[i].id)
    BY <1>1, <1>5 DEF NilIds
  <2> QED  BY <2>1, <2>2, <2>3, <1>5
<1> QED  BY <1>2, <1>4, <1>5

LEMMA ArrayInText ==
  ASSUME ReaderInv, Complete, NEW n \in DOMAIN doc, doc[n].kind = "array"
  PROVE  LET ids == [i \in DOMAIN doc[n].members |-> doc[n].members[i].id]
             first == IF lang = "lua" \/ doc[ids[1]].kind = "scalar" THEN 1 ELSE 0
         IN  \/ ids = <<>> /\ DOMAIN content[n] = {}
             \/ /\ ids # <<>>
                /\ lang = "python" => doc[ids[1]].kind \in Nodes
                /\ \/ {doc[ids[i]].kind : i \in DOMAIN ids}
                         \notin {{"scalar"}} \cup (SUBSET Nodes)
                   \/ content[n] = [i \in first..(first + Len(ids) - 1) |-> ids[i - first + 1]]
<1> DEFINE m == doc[n].members
           l == Len(m)
           c == content[n]
           ids == [i \in DOMAIN m |-> m[i].id]
           first == IF lang = "lua" \/ doc[ids[1]].kind = "scalar" THEN 1 ELSE 0
           kinds == {doc[ids[i]].kind : i \in DOMAIN ids}
<1>1. l \in Nat /\ DOMAIN m = 1 .. l /\ \A i \in 1 .. l : m[i].id \in 1 .. Len(doc)
  BY WholeText
<1>2. ArrayHolds(c, m, l, NodeIds, ScalarIds, lang)
  <2>1. NodeHolds(n) /\ Settled(n) = l
    BY WholeText
  <2>2. doc[n].kind # "object"
    OBVIOUS
  <2> QED  BY <2>1, <2>2 DEF NodeHolds
<1> HIDE DEF c, m, l
<1>3. /\ DOMAIN ids = 1 .. l
      /\ \A i \in 1 .. l : ids[i] = m[i].id /\ ids[i] \in 1 .. Len(doc)
      /\ ids \in Seq(1 .. Len(doc))
      /\ Len(ids) = l
  <2>1. ids = [i \in 1 .. l |-> m[i].id]
    BY <1>1
  <2>2. ids \in Seq(1 .. Len(doc))
    BY <2>1, <1>1, IsASeq
  <2>3. DOMAIN ids = 1 .. Len(ids) /\ Len(ids) \in Nat
    BY <2>2, LenProperties
  <2> QED  BY <1>1, <2>1, <2>2, <2>3
<1>4. \A i \in 1 .. l : /\ m[i].id \in NodeIds <=> doc[ids[i]].kind \in Nodes
                        /\ m[i].id \in ScalarIds <=> doc[ids[i]].kind = "scalar"
  BY <1>3 DEF NodeIds, ScalarIds
<1> HIDE DEF ids
<1>5. CASE l = 0
  <2>1. c = <<>>
    BY <1>2, <1>5 DEF ArrayHolds
  <2>2. ids = <<>>
    BY <1>3, <1>5, EmptySeq
  <2>3. DOMAIN c = {}
    BY <2>1
  <2> QED  BY <2>2, <2>3, Zenon DEF ids, c, m
<1>6. CASE l # 0
  <2>1. 1 \in 1 .. l /\ ids # <<>>
    BY <1>1, <1>3, <1>6, EmptySeq
  <2>2. lang = "python" => doc[ids[1]].kind \in Nodes
    BY <1>2, <1>4, <1>6, <2>1 DEF ArrayHolds
  <2>3. ASSUME kinds \subseteq Nodes
        PROVE  c = [i \in first .. (first + Len(ids) - 1) |-> ids[i - first + 1]]
    <3>1. \A i \in 1 .. l : doc[ids[i]].kind \in Nodes
      BY <2>3, <1>3
    <3>2. first = IF lang = "lua" THEN 1 ELSE 0
      BY <3>1, <2>1 DEF Nodes
    <3>3. Filled(c, m, l, first)
      BY <3>1, <3>2, <1>2, <1>4, <1>6 DEF ArrayHolds
    <3>4. first \in {0, 1}
      OBVIOUS
    <3> HIDE DEF first
    <3>5. \A j \in first .. (first + l - 1) : m[j - first + 1].id = ids[j - first + 1]
      BY <1>1, <1>3, <3>4
    <3> QED  BY <3>3, <3>5, <1>3 DEF Filled
  <2>4. ASSUME kinds = {"scalar"}
        PROVE  c = [i \in first .. (first + Len(ids) - 1) |-> ids[i - first + 1]]
    <3>1. \A i \in 1 .. l : doc[ids[i]].kind = "scalar"
      BY <2>4, <1>3
    <3>2. first = 1
      BY <3>1, <2>1
    <3>3. Filled(c, m, l, first)
      BY <3>1, <3>2, <1>2, <1>4, <1>6 DEF ArrayHolds
    <3> HIDE DEF first
    <3>5. \A j \in first .. (first + l - 1) : m[j - first + 1].id = ids[j - first + 1]
      BY <1>1, <1>3, <3>2
    <3> QED  BY <3>3, <3>5, <1>3 DEF Filled
  <2>5. kinds \notin {{"scalar"}} \cup (SUBSET Nodes) \/ kinds = {"scalar"} \/ kinds \subseteq Nodes
    OBVIOUS
  <2> HIDE DEF kinds, first
  <2>6. \/ kinds \notin {{"scalar"}} \cup (SUBSET Nodes)
        \/ c = [i \in first .. (first + Len(ids) - 1) |-> ids[i - first + 1]]
    BY <2>3, <2>4, <2>5
  <2> QED  BY <2>1, <2>2, <2>6 DEF kinds, first, ids, c, m
<1> QED  BY <1>5, <1>6

(* Of a whole text, every object holds under each name the last value the  *)
(* text gives it, and every array of nodes or of scalars its elements in   *)
(* order, for texts of any size: endNode and value (lines 122-219) enter a *)
(* scalar when it is read and a node when it ends, and nothing comes       *)
(* between a node's name and its end.                                      *)
THEOREM NodesAsText == Spec => []NodesRight
<1>1. ReaderInv => NodesRight
  <2> SUFFICES ASSUME ReaderInv PROVE ObjectsRight /\ ArraysRight
    BY DEF NodesRight
  <2>1. ObjectsRight
    BY ObjectInText DEF ObjectsRight
  <2>2. ArraysRight
    BY ArrayInText DEF ArraysRight
  <2> QED  BY <2>1, <2>2
<1> QED  BY <1>1, ReaderAlways, PTL
=============================================================================
