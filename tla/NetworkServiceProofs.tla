------------------------ MODULE NetworkServiceProofs ------------------------
(***************************************************************************)
(* Proofs about the network service for any number of workers, connections *)
(* and packets.  NetworkService.tla states the properties; this module     *)
(* adds the strengthenings that make them inductive.                       *)
(***************************************************************************)
EXTENDS NetworkService, SequenceTheorems, TLAPS

-----------------------------------------------------------------------------
(* A job is a client and the number of one of its packets. *)
LEMMA JobFacts ==
  /\ \A j \in Jobs : j[1] \in Clients
  /\ \A j \in Jobs : j[2] \in 1 .. MaxPackets[j[1]] /\ j = <<j[1], j[2]>>
  /\ \A c \in Clients : \A n \in 1 .. MaxPackets[c] : <<c, n>> \in Jobs
  BY DEF Jobs

(* What operator[] finds or inserts is an entry. *)
LEMMA IndexedType ==
  ASSUME TypeOK, NEW c \in Clients
  PROVE  Indexed(c) \in ClientInfo
  BY DEF TypeOK, Indexed, ClientInfo

(* The fields a handshake sets. *)
LEMMA FieldsType ==
  ASSUME TypeOK, NEW c \in Clients, NEW h \in Handles \cup {NoHandle}
  PROVE  /\ [Indexed(c) EXCEPT !.handshaked = TRUE] \in ClientInfo
         /\ [Indexed(c) EXCEPT !.transportHandle = h] \in ClientInfo
<1>1. Indexed(c) \in ClientInfo
  BY IndexedType
<1> QED  BY <1>1 DEF ClientInfo

(* It is what was there, if there was something. *)
LEMMA IndexedKeeps ==
  ASSUME NEW c \in Clients, m_clientInfos[c] # Absent
  PROVE  Indexed(c) = m_clientInfos[c]
  BY DEF Indexed

(* What the acceptance of a packet does, with its job named. *)
LEMMA PacketStep ==
  ASSUME TypeOK, NEW c \in Clients, Packet(c)
  PROVE  LET j == <<c, accepted[c] + 1>>
         IN  /\ accepted[c] < MaxPackets[c] /\ link[c] = "open"
             /\ j \in Jobs /\ step[j] = "none"
             /\ c \in Patient => ~Handshaking(c)
             /\ kind' = [kind EXCEPT ![j] = kind'[j]] /\ kind'[j] \in Kinds
             /\ IsNormalPacket(c, kind'[j])
             /\ step' = [step EXCEPT ![j] = "queued"]
             /\ accepted' = [accepted EXCEPT ![c] = accepted[c] + 1]
             /\ UNCHANGED <<link, transport, m_clientInfos, client, received>>
             /\ Pool!Submit(j)
<1> DEFINE j == <<c, accepted[c] + 1>>
<1> HIDE DEF j
<1>1. PICK k \in Kinds : IsNormalPacket(c, k) /\ kind' = [kind EXCEPT ![j] = k]
  BY DEF Packet, j
<1>2. /\ accepted[c] < MaxPackets[c] /\ link[c] = "open"
      /\ c \in Patient => ~Handshaking(c)
      /\ accepted' = [accepted EXCEPT ![c] = accepted[c] + 1]
      /\ step' = [step EXCEPT ![j] = "queued"]
      /\ UNCHANGED <<link, transport, m_clientInfos, client, received>>
      /\ Pool!Submit(j)
  BY DEF Packet, j, Goto, linkVars
<1>3. accepted[c] + 1 \in 1 .. MaxPackets[c]
  <2>1. accepted[c] \in Nat /\ MaxPackets[c] \in Nat
    BY ClientsAssumption DEF TypeOK
  <2> QED  BY <1>2, <2>1
<1>4. j \in Jobs
  BY <1>3, JobFacts DEF j
<1>5. step[j] = "none"
  BY <1>2, <1>4 DEF Pool!Submit, Accepted
<1>6. kind'[j] = k
  BY <1>1, <1>4 DEF TypeOK
<1> QED  BY <1>1, <1>2, <1>4, <1>5, <1>6 DEF j

(* The type invariant is inductive as it stands. *)
LEMMA TypeInit == Init => TypeOK
  BY EmptySeq DEF Init, TypeOK, Kinds, Handshakes, Steps

LEMMA TypeStep == TypeOK /\ [Next]_vars => TypeOK'
<1> SUFFICES ASSUME TypeOK, [Next]_vars PROVE TypeOK'
  OBVIOUS
<1> USE JobFacts DEF TypeOK, poolVars, linkVars, jobVars, Steps, Goto
<1>1. ASSUME NEW c \in Clients, Open(c) PROVE TypeOK'
  BY <1>1 DEF Open
<1>2. ASSUME NEW c \in Clients, Close(c) PROVE TypeOK'
  BY <1>2 DEF Close
<1>3. ASSUME NEW c \in Clients, Packet(c) PROVE TypeOK'
  <2> DEFINE j == <<c, accepted[c] + 1>>
  <2> HIDE DEF j
  <2>1. /\ accepted[c] + 1 \in Nat
        /\ kind' = [kind EXCEPT ![j] = kind'[j]] /\ kind'[j] \in Kinds
        /\ step' = [step EXCEPT ![j] = "queued"]
        /\ accepted' = [accepted EXCEPT ![c] = accepted[c] + 1]
        /\ UNCHANGED <<link, transport, m_clientInfos, client, received>>
        /\ Pool!Submit(j)
    BY <1>3, PacketStep DEF j
  <2>2. j \in Jobs
    BY <1>3, PacketStep DEF j
  <2>3. queue' \in Seq(Jobs) /\ running' = running
    BY <2>1, <2>2, AppendProperties DEF Pool!Submit
  <2>4. kind' \in [Jobs -> Kinds] /\ step' \in [Jobs -> Steps]
    BY <2>1, <2>2
  <2> QED  BY <2>1, <2>3, <2>4
<1>4. ASSUME NEW w \in Workers, NEW j \in Jobs, Start(w, j) PROVE TypeOK'
  <2>1. queue' \in Seq(Jobs) /\ running' \in [Workers -> Jobs \cup {NoTask}]
    BY <1>4, HeadTailProperties DEF Start, Pool!Start
  <2>2. step' \in [Jobs -> Steps]
    BY <1>4 DEF Start, StepOf, Kinds, Handshakes
  <2> QED  BY <1>4, <2>1, <2>2 DEF Start
<1>5. ASSUME NEW j \in Jobs, SetHandshaked(j) PROVE TypeOK'
  <2>1. [Indexed(j[1]) EXCEPT !.handshaked = TRUE] \in ClientInfo
    BY FieldsType
  <2>2. m_clientInfos' \in [Clients -> ClientInfo \cup {Absent}]
    BY <1>5, <2>1 DEF SetHandshaked
  <2>3. step' \in [Jobs -> Steps]
    BY <1>5 DEF SetHandshaked
  <2> QED  BY <1>5, <2>2, <2>3 DEF SetHandshaked
<1>6. ASSUME NEW j \in Jobs, SetTransportHandle(j) PROVE TypeOK'
  <2>1. [Indexed(j[1]) EXCEPT !.transportHandle = transport[j[1]]] \in ClientInfo
    BY FieldsType
  <2>2. m_clientInfos' \in [Clients -> ClientInfo \cup {Absent}]
    BY <1>6, <2>1 DEF SetTransportHandle
  <2>3. step' \in [Jobs -> Steps]
    BY <1>6 DEF SetTransportHandle
  <2> QED  BY <1>6, <2>2, <2>3 DEF SetTransportHandle
<1>7. ASSUME NEW j \in Jobs, Answer(j) PROVE TypeOK'
  BY <1>7 DEF Answer, Write
<1>8. ASSUME NEW j \in Jobs, Contains(j) \/ HandlerGoesOn(j) \/ FindClient(j) \/ ReadHandshaked(j)
      PROVE  TypeOK'
  <2>1. CASE Contains(j)
    BY <2>1 DEF Contains
  <2>2. CASE HandlerGoesOn(j)
    BY <2>2 DEF HandlerGoesOn
  <2>3. CASE FindClient(j)
    BY <2>3 DEF FindClient
  <2>4. CASE ReadHandshaked(j)
    BY <2>4 DEF ReadHandshaked
  <2> QED  BY <1>8, <2>1, <2>2, <2>3, <2>4
<1>9. ASSUME NEW j \in Jobs, Permit(j) PROVE TypeOK'
  BY <1>9, IndexedType DEF Permit
<1>10. ASSUME NEW j \in Jobs, IndexClient(j) PROVE TypeOK'
  BY <1>10, IndexedType DEF IndexClient
<1>11. ASSUME NEW j \in Jobs, WriteBack(j) PROVE TypeOK'
  BY <1>11 DEF WriteBack, Write
<1>12. ASSUME NEW w \in Workers, NEW j \in Jobs, Return(w, j) PROVE TypeOK'
  BY <1>12 DEF Return, Pool!Finish
<1>13. CASE UNCHANGED vars
  BY <1>13 DEF vars
<1> HIDE DEF TypeOK
<1> QED
  BY <1>1, <1>2, <1>3, <1>4, <1>5, <1>6, <1>7, <1>8, <1>9, <1>10, <1>11, <1>12, <1>13
  DEF Next, DataHandler

(* Every variable of the network service keeps its type. *)
THEOREM TypeCorrect == Spec => []TypeOK
<1> QED  BY TypeInit, TypeStep, PTL DEF Spec

-----------------------------------------------------------------------------
(* The invariant.  The client has shown the key in one of its packets. *)
KeyShown(c) ==
  \E n \in 1 .. MaxPackets[c] :
    kind[<<c, n>>] = "key" /\ step[<<c, n>>] \in {"handle", "answer", "return", "done"}

(* What the step of a job says of its packet, its reference and its        *)
(* connection: a reference dangles only after a close.                     *)
JobOK(j) ==
  /\ step[j] \in {"flag", "handle"} => kind[j] = "key"
  /\ step[j] \in {"contains", "permit", "handler", "find", "index", "read", "write"} =>
       kind[j] = "command"
  /\ step[j] \in {"read", "write"} => client[j] # "none"
  /\ client[j] = "dangling" => link[j[1]] = "closed"
  /\ step[j] # "none" => link[j[1]] # "none"

JobInv == \A j \in Jobs : JobOK(j)

(* Open connections have transport objects of their own. *)
TransportInv ==
  \A c \in Clients :
    link[c] = "open" =>
      /\ transport[c] \in Handles
      /\ \A d \in Clients \ {c} : link[d] = "open" => transport[d] # transport[c]

(* Before a connection there is no entry; while it is open, its entry is   *)
(* one of a client that has shown the key, with its own handle or none     *)
(* yet; and an entry with the flag is such a client's even after a close.  *)
EntryOK(c) ==
  /\ link[c] = "none" => m_clientInfos[c] = Absent
  /\ m_clientInfos[c] # Absent /\ m_clientInfos[c].handshaked => KeyShown(c)
  /\ m_clientInfos[c] # Absent /\ link[c] = "open" =>
       /\ m_clientInfos[c].handshaked
       /\ m_clientInfos[c].transportHandle \in {NoHandle, transport[c]}

EntryInv == \A c \in Clients : EntryOK(c)

(* While the client is connected, a job that has found its entry, or made  *)
(* it, will find it again.                                                 *)
FoundInv ==
  \A j \in Jobs :
    step[j] \in {"handle", "permit", "index", "read", "write"} /\ link[j[1]] = "open" =>
      m_clientInfos[j[1]] # Absent

(* The entry of a client leads to its own connection. *)
Home(c) == m_clientInfos[c] = [handshaked |-> TRUE, transportHandle |-> transport[c]]

(* Nothing but handshakes is accepted from a patient client until then. *)
PatientInv ==
  \A c \in Patient :
    link[c] = "open" /\ ~Home(c) =>
      \A n \in 1 .. MaxPackets[c] :
        step[<<c, n>>] # "none" => kind[<<c, n>>] \in Handshakes

NetInv ==
  /\ TypeOK /\ JobInv /\ TransportInv /\ EntryInv /\ FoundInv
  /\ OnlyHandshaked /\ EntryLeadsHome /\ Confidential /\ PatientInv

(* A job of dataHandler and backward moves on alone. *)
LEMMA OneJobMoves ==
  ASSUME TypeOK, NEW j \in Jobs, DataHandler(j)
  PROVE  /\ step[j] \notin {"none", "done"} /\ step'[j] # "none"
         /\ \A k \in Jobs \ {j} : step'[k] = step[k] /\ client'[k] = client[k]
         /\ UNCHANGED <<link, transport, accepted, kind>>
         /\ step[j] = "queued" => step'[j] = StepOf(kind[j])
         /\ client'[j] # client[j] => step[j] = "index" /\ client'[j] = "entry"
         /\ step'[j] = "read" => client'[j] = "entry"
         /\ \/ step[j] = "queued"
            \/ step[j] = "flag" /\ step'[j] = "handle"
            \/ step[j] = "handle" /\ step'[j] = "answer"
            \/ step[j] = "contains" /\ step'[j] \in {"permit", "return"}
            \/ step[j] = "permit" /\ step'[j] \in {"handler", "return"}
            \/ step[j] = "handler" /\ step'[j] \in {"find", "return"}
            \/ step[j] = "find" /\ step'[j] \in {"index", "return"}
            \/ step[j] = "index" /\ step'[j] = "read"
            \/ step[j] = "read" /\ step'[j] \in {"write", "return"}
            \/ step[j] \in {"answer", "write"} /\ step'[j] = "return"
            \/ step[j] = "return" /\ step'[j] = "done"
<1> USE DEF TypeOK, linkVars, poolVars, Goto, Steps
<1>1. CASE SetHandshaked(j) \/ SetTransportHandle(j) \/ Answer(j)
  BY <1>1 DEF SetHandshaked, SetTransportHandle, Answer
<1>2. CASE Contains(j) \/ Permit(j)
  BY <1>2 DEF Contains, Permit
<1>3. CASE HandlerGoesOn(j) \/ FindClient(j) \/ IndexClient(j)
  BY <1>3 DEF HandlerGoesOn, FindClient, IndexClient
<1>4. CASE ReadHandshaked(j) \/ WriteBack(j)
  BY <1>4 DEF ReadHandshaked, WriteBack
<1>5. CASE \E w \in Workers : Start(w, j)
  BY <1>5 DEF Start, StepOf, Kinds, Handshakes
<1>6. CASE \E w \in Workers : Return(w, j)
  BY <1>6 DEF Return
<1> QED  BY <1>1, <1>2, <1>3, <1>4, <1>5, <1>6 DEF DataHandler

LEMMA JobStep == TypeOK /\ JobInv /\ [Next]_vars => JobInv'
<1> SUFFICES ASSUME TypeOK, JobInv, [Next]_vars PROVE JobInv'
  OBVIOUS
<1> USE JobFacts
<1>1. ASSUME NEW c \in Clients, Open(c) PROVE JobInv'
  BY <1>1 DEF Open, JobInv, JobOK, TypeOK, jobVars
<1>2. ASSUME NEW c \in Clients, Close(c) PROVE JobInv'
  BY <1>2 DEF Close, JobInv, JobOK, TypeOK
<1>3. ASSUME NEW c \in Clients, Packet(c) PROVE JobInv'
  <2>1. PICK j \in Jobs :
          /\ j[1] = c /\ step[j] = "none" /\ link[c] = "open"
          /\ kind' = [kind EXCEPT ![j] = kind'[j]]
          /\ step' = [step EXCEPT ![j] = "queued"]
          /\ UNCHANGED <<link, client>>
    BY <1>3, PacketStep
  <2> QED  BY <2>1 DEF JobInv, JobOK, TypeOK
<1>4. ASSUME NEW j \in Jobs, DataHandler(j) PROVE JobInv'
  <2>1. \A k \in Jobs \ {j} : JobOK(k) => JobOK(k)'
    BY <1>4, OneJobMoves DEF JobOK
  <2>2. kind[j] \in Kinds /\ UNCHANGED <<link, kind>> /\ link[j[1]] # "none"
    BY <1>4, OneJobMoves DEF TypeOK, JobInv, JobOK
  <2>3. CASE step[j] = "queued"
    <3>1. /\ step'[j] = StepOf(kind[j]) /\ client'[j] = client[j]
      BY <1>4, <2>3, OneJobMoves
    <3> QED  BY <2>1, <2>2, <3>1 DEF JobInv, JobOK, StepOf, Kinds, Handshakes
  <2>4. CASE step[j] # "queued"
    <3>1. client'[j] = "dangling" => client[j] = "dangling"
      BY <1>4, OneJobMoves
    <3>2. step'[j] \in {"read", "write"} => client'[j] # "none"
      BY <1>4, <2>4, OneJobMoves DEF JobInv, JobOK
    <3>3. /\ step'[j] \in {"flag", "handle"} => step[j] = "flag"
          /\ step'[j] \in {"contains", "permit", "handler", "find", "index", "read", "write"} =>
               step[j] \in {"contains", "permit", "handler", "find", "index", "read"}
      BY <1>4, <2>4, OneJobMoves
    <3> QED  BY <2>1, <2>2, <3>1, <3>2, <3>3 DEF JobInv, JobOK
  <2> QED  BY <2>3, <2>4 DEF JobInv
<1>5. CASE UNCHANGED vars
  BY <1>5 DEF vars, linkVars, jobVars, JobInv, JobOK
<1> QED  BY <1>1, <1>2, <1>3, <1>4, <1>5 DEF Next

LEMMA TransportStep == TypeOK /\ TransportInv /\ [Next]_vars => TransportInv'
<1> SUFFICES ASSUME TypeOK, TransportInv, [Next]_vars PROVE TransportInv'
  OBVIOUS
<1>1. ASSUME NEW c \in Clients, Open(c) PROVE TransportInv'
  <2>1. PICK h \in Handles \ {transport[d] : d \in {x \in Clients : link[x] = "open"}} :
          transport' = [transport EXCEPT ![c] = h]
    BY <1>1 DEF Open
  <2>2. /\ link' = [link EXCEPT ![c] = "open"]
        /\ \A d \in Clients : link[d] = "open" => transport[d] # h
    BY <1>1, <2>1 DEF Open
  <2> QED  BY <2>1, <2>2 DEF TypeOK, TransportInv
<1>2. ASSUME NEW c \in Clients, Close(c) PROVE TransportInv'
  BY <1>2 DEF Close, TypeOK, TransportInv
<1>3. ASSUME NEW c \in Clients, Packet(c) PROVE TransportInv'
  <2>1. UNCHANGED <<link, transport>>
    BY <1>3, PacketStep
  <2> QED  BY <2>1 DEF TransportInv
<1>4. ASSUME NEW j \in Jobs, DataHandler(j) PROVE TransportInv'
  <2>1. UNCHANGED <<link, transport>>
    BY <1>4, OneJobMoves
  <2> QED  BY <2>1 DEF TransportInv
<1>5. CASE UNCHANGED vars
  BY <1>5 DEF vars, linkVars, TransportInv
<1> QED  BY <1>1, <1>2, <1>3, <1>4, <1>5 DEF Next

-----------------------------------------------------------------------------
(* The table. *)

(* A job changes no entry but its client's, and that by operator[]. *)
LEMMA OneEntryMoves ==
  ASSUME TypeOK, NEW j \in Jobs, DataHandler(j)
  PROVE  LET c == j[1] IN
         /\ \A d \in Clients \ {c} : m_clientInfos'[d] = m_clientInfos[d]
         /\ \/ /\ m_clientInfos' = m_clientInfos
               /\ step[j] \notin {"flag", "handle"}
            \/ /\ step[j] = "flag" /\ step'[j] = "handle"
               /\ m_clientInfos'[c] # Absent
               /\ m_clientInfos'[c].handshaked
               /\ m_clientInfos'[c].transportHandle = Indexed(c).transportHandle
            \/ /\ step[j] = "handle" /\ step'[j] = "answer"
               /\ m_clientInfos'[c] # Absent
               /\ m_clientInfos'[c].handshaked = Indexed(c).handshaked
               /\ m_clientInfos'[c].transportHandle = transport[c]
            \/ /\ step[j] \in {"permit", "index"}
               /\ m_clientInfos'[c] # Absent
               /\ m_clientInfos'[c] = Indexed(c)
<1> DEFINE c == j[1]
<1>0. c \in Clients /\ Indexed(c) \in ClientInfo /\ Absent \notin ClientInfo
  BY JobFacts, IndexedType, AbsentAssumption
<1> HIDE DEF c
<1> USE DEF Goto
<1>1. CASE SetHandshaked(j)
  <2>1. /\ m_clientInfos' = [m_clientInfos EXCEPT ![c] = [Indexed(c) EXCEPT !.handshaked = TRUE]]
        /\ step[j] = "flag" /\ step'[j] = "handle"
    BY <1>1 DEF SetHandshaked, TypeOK, c
  <2>2. [Indexed(c) EXCEPT !.handshaked = TRUE] \in ClientInfo
    BY <1>0 DEF ClientInfo
  <2>3. m_clientInfos'[c] = [Indexed(c) EXCEPT !.handshaked = TRUE]
    BY <1>0, <2>1 DEF TypeOK
  <2>4. /\ m_clientInfos'[c].handshaked
        /\ m_clientInfos'[c].transportHandle = Indexed(c).transportHandle
    BY <1>0, <2>3 DEF ClientInfo
  <2>5. \A d \in Clients \ {c} : m_clientInfos'[d] = m_clientInfos[d]
    BY <1>0, <2>1 DEF TypeOK
  <2> QED  BY <1>0, <2>1, <2>2, <2>3, <2>4, <2>5 DEF c
<1>2. CASE SetTransportHandle(j)
  <2>1. /\ m_clientInfos' =
             [m_clientInfos EXCEPT ![c] = [Indexed(c) EXCEPT !.transportHandle = transport[c]]]
        /\ step[j] = "handle" /\ step'[j] = "answer"
    BY <1>2 DEF SetTransportHandle, TypeOK, c
  <2>2. [Indexed(c) EXCEPT !.transportHandle = transport[c]] \in ClientInfo
    BY <1>0 DEF ClientInfo, TypeOK
  <2>3. m_clientInfos'[c] = [Indexed(c) EXCEPT !.transportHandle = transport[c]]
    BY <1>0, <2>1 DEF TypeOK
  <2>4. /\ m_clientInfos'[c].handshaked = Indexed(c).handshaked
        /\ m_clientInfos'[c].transportHandle = transport[c]
    BY <1>0, <2>3 DEF ClientInfo
  <2>5. \A d \in Clients \ {c} : m_clientInfos'[d] = m_clientInfos[d]
    BY <1>0, <2>1 DEF TypeOK
  <2> QED  BY <1>0, <2>1, <2>2, <2>3, <2>4, <2>5 DEF c
<1>3. CASE Permit(j) \/ IndexClient(j)
  <2>1. /\ m_clientInfos' = [m_clientInfos EXCEPT ![c] = Indexed(c)]
        /\ step[j] \in {"permit", "index"}
    BY <1>3 DEF Permit, IndexClient, c
  <2> QED  BY <1>0, <2>1 DEF TypeOK, c
<1>4. CASE \/ Answer(j) \/ Contains(j) \/ HandlerGoesOn(j) \/ FindClient(j)
           \/ ReadHandshaked(j) \/ WriteBack(j)
           \/ \E w \in Workers : Start(w, j) \/ Return(w, j)
  BY <1>4 DEF Answer, Contains, HandlerGoesOn, FindClient, ReadHandshaked, WriteBack, Start, Return
<1> QED  BY <1>1, <1>2, <1>3, <1>4 DEF DataHandler

(* Who has shown the key has shown it. *)
LEMMA KeyShownStays ==
  ASSUME TypeOK, JobInv, [Next]_vars, NEW c \in Clients, KeyShown(c)
  PROVE  KeyShown(c)'
<1> USE JobFacts
<1>0. PICK n \in 1 .. MaxPackets[c] :
        /\ kind[<<c, n>>] = "key"
        /\ step[<<c, n>>] \in {"handle", "answer", "return", "done"}
  BY DEF KeyShown
<1> DEFINE k == <<c, n>>
<1>1. k \in Jobs
  OBVIOUS
<1> SUFFICES kind'[k] = "key" /\ step'[k] \in {"handle", "answer", "return", "done"}
  BY DEF KeyShown
<1>2. ASSUME NEW d \in Clients, Open(d) \/ Close(d)
      PROVE  UNCHANGED <<kind, step>>
  BY <1>2 DEF Open, Close, jobVars
<1>3. ASSUME NEW d \in Clients, Packet(d)
      PROVE  kind'[k] = "key" /\ step'[k] \in {"handle", "answer", "return", "done"}
  <2>1. PICK j \in Jobs :
          /\ step[j] = "none"
          /\ kind' = [kind EXCEPT ![j] = kind'[j]]
          /\ step' = [step EXCEPT ![j] = "queued"]
    BY <1>3, PacketStep
  <2> QED  BY <1>0, <1>1, <2>1 DEF TypeOK
<1>4. ASSUME NEW j \in Jobs, DataHandler(j)
      PROVE  kind'[k] = "key" /\ step'[k] \in {"handle", "answer", "return", "done"}
  <2>1. kind' = kind
    BY <1>4, OneJobMoves
  <2>2. CASE j = k
    BY <1>0, <1>4, <2>1, <2>2, OneJobMoves
  <2>3. CASE j # k
    BY <1>0, <1>1, <1>4, <2>1, <2>3, OneJobMoves
  <2> QED  BY <2>2, <2>3
<1>5. CASE UNCHANGED vars
  BY <1>0, <1>5 DEF vars, jobVars
<1> QED  BY <1>0, <1>2, <1>3, <1>4, <1>5 DEF Next

LEMMA FoundStep ==
  TypeOK /\ JobInv /\ FoundInv /\ [Next]_vars => FoundInv'
<1> SUFFICES ASSUME TypeOK, JobInv, FoundInv, [Next]_vars PROVE FoundInv'
  OBVIOUS
<1> USE JobFacts
<1>1. ASSUME NEW c \in Clients, Open(c) PROVE FoundInv'
  BY <1>1 DEF Open, jobVars, FoundInv, JobInv, JobOK, TypeOK
<1>2. ASSUME NEW c \in Clients, Close(c) PROVE FoundInv'
  BY <1>2 DEF Close, FoundInv, TypeOK
<1>3. ASSUME NEW c \in Clients, Packet(c) PROVE FoundInv'
  <2>1. PICK j \in Jobs :
          /\ step' = [step EXCEPT ![j] = "queued"]
          /\ UNCHANGED <<link, m_clientInfos>>
    BY <1>3, PacketStep
  <2> QED  BY <2>1 DEF FoundInv, TypeOK
<1>4. ASSUME NEW j \in Jobs, DataHandler(j) PROVE FoundInv'
  <2> DEFINE c == j[1]
  <2>1. UNCHANGED link /\ \A k \in Jobs \ {j} : step'[k] = step[k]
    BY <1>4, OneJobMoves
  <2>2. \A d \in Clients : m_clientInfos[d] # Absent => m_clientInfos'[d] # Absent
    BY <1>4, OneEntryMoves
  <2>3. \A k \in Jobs \ {j} :
          step'[k] \in {"handle", "permit", "index", "read", "write"} /\ link'[k[1]] = "open" =>
            m_clientInfos'[k[1]] # Absent
    BY <2>1, <2>2 DEF FoundInv
  <2>4. ASSUME step'[j] \in {"handle", "permit", "index", "read", "write"}, link'[c] = "open"
        PROVE  m_clientInfos'[c] # Absent
    <3>1. CASE Contains(j) \/ HandlerGoesOn(j) \/ FindClient(j)
      BY <1>4, <2>2, <2>4, <3>1 DEF Contains, HandlerGoesOn, FindClient, Goto, TypeOK
    <3>2. CASE ~(Contains(j) \/ HandlerGoesOn(j) \/ FindClient(j))
      <4>1. step[j] \notin {"queued", "contains", "find"}
        <5>1. step[j] # "queued"
          BY <1>4, <2>4, OneJobMoves DEF StepOf, TypeOK, Kinds, Handshakes
        <5> QED  BY <1>4, <3>2, <5>1 DEF DataHandler, SetHandshaked, SetTransportHandle, Answer,
                   Permit, IndexClient, ReadHandshaked, WriteBack, Start, Return
      <4>2. \/ step[j] = "flag" /\ step'[j] = "handle"
            \/ step[j] \in {"index", "read"}
        BY <1>4, <2>4, <4>1, OneJobMoves
      <4>3. CASE step[j] = "flag" /\ step'[j] = "handle"
        BY <1>4, <4>3, OneEntryMoves
      <4>4. CASE step[j] \in {"index", "read"}
        BY <2>1, <2>2, <2>4, <4>4 DEF FoundInv
      <4> QED  BY <4>2, <4>3, <4>4
    <3> QED  BY <3>1, <3>2
  <2> QED  BY <2>3, <2>4 DEF FoundInv
<1>5. CASE UNCHANGED vars
  BY <1>5 DEF vars, linkVars, jobVars, FoundInv
<1> QED  BY <1>1, <1>2, <1>3, <1>4, <1>5 DEF Next

LEMMA EntryStep ==
  TypeOK /\ JobInv /\ FoundInv /\ EntryInv /\ [Next]_vars => EntryInv'
<1> SUFFICES ASSUME TypeOK, JobInv, FoundInv, EntryInv, [Next]_vars PROVE EntryInv'
  OBVIOUS
<1> USE JobFacts
<1>0. \A c \in Clients : KeyShown(c) => KeyShown(c)'
  BY KeyShownStays
<1>1. ASSUME NEW c \in Clients, Open(c) PROVE EntryInv'
  BY <1>0, <1>1 DEF Open, EntryInv, EntryOK, TypeOK
<1>2. ASSUME NEW c \in Clients, Close(c) PROVE EntryInv'
  BY <1>0, <1>2 DEF Close, EntryInv, EntryOK, TypeOK
<1>3. ASSUME NEW c \in Clients, Packet(c) PROVE EntryInv'
  <2>1. UNCHANGED <<link, transport, m_clientInfos>>
    BY <1>3, PacketStep
  <2> QED  BY <1>0, <2>1 DEF EntryInv, EntryOK
<1>4. ASSUME NEW j \in Jobs, DataHandler(j) PROVE EntryInv'
  <2> DEFINE c == j[1]
  <2>0. c \in Clients
    OBVIOUS
  <2>1. UNCHANGED <<link, transport, kind>> /\ step[j] # "none"
    BY <1>4, OneJobMoves
  <2>2. ASSUME NEW d \in Clients \ {c} PROVE EntryOK(d)'
    <3>1. m_clientInfos'[d] = m_clientInfos[d]
      BY <1>4, OneEntryMoves
    <3> QED  BY <1>0, <2>1, <3>1 DEF EntryInv, EntryOK
  <2>3. link[c] # "none"
    BY <2>1 DEF JobInv, JobOK
  <2>4. m_clientInfos[c] = Absent =>
          Indexed(c) = [handshaked |-> FALSE, transportHandle |-> NoHandle]
    BY DEF Indexed
  <2>5. m_clientInfos[c] # Absent => Indexed(c) = m_clientInfos[c]
    BY DEF Indexed
  <2>6. EntryOK(c)'
    <3>1. CASE m_clientInfos' = m_clientInfos
      BY <1>0, <2>0, <2>1, <3>1 DEF EntryInv, EntryOK
    <3>2. CASE /\ step[j] = "flag" /\ step'[j] = "handle"
               /\ m_clientInfos'[c].handshaked
               /\ m_clientInfos'[c].transportHandle = Indexed(c).transportHandle
      <4>1. KeyShown(c)'
        <5>1. kind'[j] = "key" /\ step'[j] = "handle"
          BY <2>1, <3>2 DEF JobInv, JobOK
        <5> QED  BY <5>1 DEF KeyShown
      <4>2. link[c] = "open" => Indexed(c).transportHandle \in {NoHandle, transport[c]}
        BY <2>0, <2>4, <2>5 DEF EntryInv, EntryOK
      <4> QED  BY <2>1, <2>3, <3>2, <4>1, <4>2 DEF EntryOK
    <3>3. CASE /\ step[j] = "handle"
               /\ m_clientInfos'[c].handshaked = Indexed(c).handshaked
               /\ m_clientInfos'[c].transportHandle = transport[c]
      <4>1. KeyShown(c)
        BY <2>1, <3>3 DEF JobInv, JobOK, KeyShown
      <4>2. link[c] = "open" => Indexed(c).handshaked
        BY <2>0, <2>5, <3>3 DEF FoundInv, EntryInv, EntryOK
      <4> QED  BY <1>0, <2>0, <2>1, <2>3, <3>3, <4>1, <4>2 DEF EntryOK
    <3>4. CASE step[j] \in {"permit", "index"} /\ m_clientInfos'[c] = Indexed(c)
      <4>1. link[c] = "open" => m_clientInfos'[c] = m_clientInfos[c] /\ m_clientInfos[c] # Absent
        BY <2>5, <3>4 DEF FoundInv
      <4>2. m_clientInfos'[c].handshaked => KeyShown(c)
        BY <2>0, <2>4, <2>5, <3>4 DEF EntryInv, EntryOK
      <4> QED  BY <1>0, <2>0, <2>1, <2>3, <4>1, <4>2 DEF EntryInv, EntryOK
    <3> QED  BY <1>4, <3>1, <3>2, <3>3, <3>4, OneEntryMoves
  <2> QED  BY <2>2, <2>6 DEF EntryInv
<1>5. CASE UNCHANGED vars
  BY <1>0, <1>5 DEF vars, linkVars, EntryInv, EntryOK
<1> QED  BY <1>1, <1>2, <1>3, <1>4, <1>5 DEF Next

-----------------------------------------------------------------------------
(* The properties. *)

LEMMA OnlyStep ==
  /\ TypeOK /\ JobInv /\ EntryInv /\ OnlyHandshaked /\ [Next]_vars
  => OnlyHandshaked'
<1> SUFFICES ASSUME TypeOK, JobInv, EntryInv, OnlyHandshaked, [Next]_vars
             PROVE  OnlyHandshaked'
  OBVIOUS
<1> DEFINE Served(k) == kind[k] = "command" /\ step[k] \in {"handler", "find", "index", "read", "write"}
<1> USE JobFacts
<1>0. \A c \in Clients : KeyShown(c) => KeyShown(c)'
  BY KeyShownStays
<1>a. \A k \in Jobs : Served(k) => KeyShown(k[1])
  BY DEF OnlyHandshaked, KeyShown
<1> SUFFICES ASSUME NEW k \in Jobs, Served(k)' PROVE KeyShown(k[1])
  BY <1>0 DEF OnlyHandshaked, KeyShown
<1>1. ASSUME NEW c \in Clients, Open(c) \/ Close(c) PROVE KeyShown(k[1])
  BY <1>a, <1>1 DEF Open, Close, jobVars
<1>3. ASSUME NEW c \in Clients, Packet(c) PROVE KeyShown(k[1])
  <2>1. PICK j \in Jobs :
          /\ kind' = [kind EXCEPT ![j] = kind'[j]]
          /\ step' = [step EXCEPT ![j] = "queued"]
    BY <1>3, PacketStep
  <2> QED  BY <1>a, <2>1 DEF TypeOK
<1>4. ASSUME NEW j \in Jobs, DataHandler(j) PROVE KeyShown(k[1])
  <2>1. kind' = kind /\ \A l \in Jobs \ {j} : step'[l] = step[l]
    BY <1>4, OneJobMoves
  <2>2. CASE k # j
    BY <1>a, <2>1, <2>2
  <2>3. CASE k = j /\ Served(j)
    BY <1>a, <2>3
  <2>4. CASE k = j /\ ~Served(j)
    <3>1. step[j] # "queued"
      BY <1>4, <2>4, OneJobMoves DEF StepOf, TypeOK, Kinds, Handshakes
    <3>2. step[j] = "permit"
      BY <1>4, <2>1, <2>4, <3>1, OneJobMoves
    <3>3. Permit(j) /\ step'[j] # "return"
      BY <1>4, <2>4, <3>2 DEF DataHandler, SetHandshaked, SetTransportHandle, Answer, Contains,
         Permit, HandlerGoesOn, FindClient, IndexClient, ReadHandshaked, WriteBack, Start, Return
    <3>4. Indexed(j[1]).handshaked
      BY <3>3 DEF Permit, Goto, TypeOK
    <3>5. m_clientInfos[j[1]] # Absent /\ m_clientInfos[j[1]].handshaked
      BY <3>4 DEF Indexed
    <3> QED  BY <2>4, <3>5 DEF EntryInv, EntryOK
  <2> QED  BY <2>2, <2>3, <2>4
<1>5. CASE UNCHANGED vars
  BY <1>a, <1>5 DEF vars, jobVars
<1> QED  BY <1>1, <1>3, <1>4, <1>5 DEF Next

(* An entry is home if its fields are. *)
LEMMA HomeFields ==
  ASSUME TypeOK, NEW c \in Clients
  PROVE  Home(c) <=> /\ m_clientInfos[c] # Absent
                     /\ m_clientInfos[c].handshaked
                     /\ m_clientInfos[c].transportHandle = transport[c]
<1> DEFINE e == m_clientInfos[c]
<1>1. e \in ClientInfo \cup {Absent} /\ transport[c] \in Handles \cup {NoHandle}
  BY DEF TypeOK
<1>2. CASE e = Absent
  <2>1. [handshaked |-> TRUE, transportHandle |-> transport[c]] \in ClientInfo
    BY <1>1 DEF ClientInfo
  <2> QED  BY <1>2, <2>1, AbsentAssumption DEF Home
<1>3. CASE e # Absent
  <2>1. e \in [handshaked : BOOLEAN, transportHandle : Handles \cup {NoHandle}]
    BY <1>1, <1>3 DEF ClientInfo
  <2>2. e = [handshaked |-> e.handshaked, transportHandle |-> e.transportHandle]
        /\ e.handshaked \in BOOLEAN
    BY <2>1
  <2>3. e = [handshaked |-> TRUE, transportHandle |-> transport[c]]
          => e.handshaked /\ e.transportHandle = transport[c]
    OBVIOUS
  <2>4. e.handshaked /\ e.transportHandle = transport[c]
          => e = [handshaked |-> TRUE, transportHandle |-> transport[c]]
    BY <2>1
  <2> QED  BY <1>3, <2>3, <2>4 DEF Home
<1> QED  BY <1>2, <1>3

(* An entry that is home stays there while its client is connected. *)
LEMMA HomeStays ==
  ASSUME TypeOK, TypeOK', FoundInv, EntryInv, NEW j \in Jobs, DataHandler(j),
         NEW c \in Clients, link[c] = "open", Home(c)
  PROVE  Home(c)'
<1>1. /\ m_clientInfos[c] # Absent /\ m_clientInfos[c].handshaked
      /\ m_clientInfos[c].transportHandle = transport[c]
  BY HomeFields
<1>2. Indexed(c) = m_clientInfos[c] /\ transport' = transport
  BY <1>1, OneJobMoves, IndexedKeeps
<1>3. /\ m_clientInfos'[c] # Absent /\ m_clientInfos'[c].handshaked
      /\ m_clientInfos'[c].transportHandle = transport[c]
  <2>1. CASE c # j[1]
    BY <1>1, <2>1, OneEntryMoves
  <2>2. CASE c = j[1]
    BY <1>1, <1>2, <2>2, OneEntryMoves
  <2> QED  BY <2>1, <2>2
<1>4. (m_clientInfos[c] # Absent /\ m_clientInfos[c].handshaked
       /\ m_clientInfos[c].transportHandle = transport[c] => Home(c))'
  <2>1. m_clientInfos'[c] \in ClientInfo \cup {Absent}
    BY DEF TypeOK
  <2> QED  BY <2>1 DEF ClientInfo, Home
<1> QED  BY <1>2, <1>3, <1>4

LEMMA HomeStep ==
  /\ TypeOK /\ TypeOK' /\ JobInv /\ FoundInv /\ EntryInv /\ EntryLeadsHome /\ [Next]_vars
  => EntryLeadsHome'
<1> SUFFICES ASSUME TypeOK, TypeOK', JobInv, FoundInv, EntryInv, EntryLeadsHome, [Next]_vars
             PROVE  EntryLeadsHome'
  OBVIOUS
<1> DEFINE Setting(c) == \E n \in 1 .. MaxPackets[c] : step[<<c, n>>] = "handle"
           HomeOK(c) == link[c] = "open" /\ m_clientInfos[c] # Absent => Home(c) \/ Setting(c)
<1> USE JobFacts
<1>a. \A c \in Clients : HomeOK(c)
  BY DEF EntryLeadsHome, Home
<1> SUFFICES ASSUME NEW c \in Clients PROVE HomeOK(c)'
  BY DEF EntryLeadsHome, Home
<1>1. ASSUME NEW d \in Clients, Open(d) PROVE HomeOK(c)'
  BY <1>a, <1>1 DEF Open, jobVars, TypeOK, Home, EntryInv, EntryOK
<1>2. ASSUME NEW d \in Clients, Close(d) PROVE HomeOK(c)'
  BY <1>a, <1>2 DEF Close, TypeOK, Home
<1>3. ASSUME NEW d \in Clients, Packet(d) PROVE HomeOK(c)'
  <2>1. PICK j \in Jobs :
          /\ step[j] = "none"
          /\ step' = [step EXCEPT ![j] = "queued"]
          /\ UNCHANGED <<link, transport, m_clientInfos>>
    BY <1>3, PacketStep
  <2> QED  BY <1>a, <2>1 DEF TypeOK, Home
<1>4. ASSUME NEW j \in Jobs, DataHandler(j) PROVE HomeOK(c)'
  <2>1. UNCHANGED <<link, transport>> /\ \A k \in Jobs \ {j} : step'[k] = step[k]
    BY <1>4, OneJobMoves
  <2> SUFFICES ASSUME link[c] = "open", m_clientInfos'[c] # Absent
               PROVE  Home(c)' \/ Setting(c)'
    BY <2>1
  <2>2. CASE j[1] # c
    <3>1. m_clientInfos'[c] = m_clientInfos[c]
      BY <1>4, <2>2, OneEntryMoves
    <3> QED  BY <1>a, <2>1, <2>2, <3>1 DEF Home
  <2>3. CASE j[1] = c /\ step[j] = "flag"
    <3>1. step'[j] = "handle"
      BY <1>4, <2>3, OneJobMoves
    <3> QED  BY <2>3, <3>1
  <2>4. CASE j[1] = c /\ step[j] = "handle"
    <3>1. m_clientInfos[c] # Absent /\ Indexed(c).handshaked
      BY <2>4, IndexedKeeps DEF FoundInv, EntryInv, EntryOK
    <3>2. m_clientInfos'[c].handshaked /\ m_clientInfos'[c].transportHandle = transport[c]
      BY <1>4, <2>4, <3>1, OneEntryMoves
    <3>3. m_clientInfos'[c] \in ClientInfo
      BY DEF TypeOK
    <3> QED  BY <2>1, <3>2, <3>3 DEF Home, ClientInfo
  <2>5. CASE j[1] = c /\ step[j] \notin {"flag", "handle"}
    <3>1. m_clientInfos'[c] = m_clientInfos[c]
      <4>1. CASE m_clientInfos[c] # Absent
        BY <1>4, <2>5, <4>1, OneEntryMoves, IndexedKeeps
      <4>2. CASE m_clientInfos[c] = Absent
        BY <1>4, <2>5, <4>2, OneEntryMoves DEF FoundInv
      <4> QED  BY <4>1, <4>2
    <3>2. Home(c) \/ Setting(c)
      BY <1>a, <3>1
    <3>3. CASE Home(c)
      BY <2>1, <3>1, <3>3 DEF Home
    <3>4. CASE Setting(c)
      <4>1. PICK n \in 1 .. MaxPackets[c] : step[<<c, n>>] = "handle"
        BY <3>4
      <4>2. <<c, n>> \in Jobs \ {j}
        BY <2>5, <4>1
      <4> QED  BY <2>1, <4>1, <4>2
    <3> QED  BY <3>2, <3>3, <3>4
  <2> QED  BY <2>2, <2>3, <2>4, <2>5
<1>5. CASE UNCHANGED vars
  <2>1. UNCHANGED <<link, transport, m_clientInfos, step>>
    BY <1>5 DEF vars, linkVars, jobVars
  <2> QED  BY <1>a, <2>1 DEF Home
<1> QED  BY <1>1, <1>2, <1>3, <1>4, <1>5 DEF Next

LEMMA PatientStep ==
  /\ TypeOK /\ TypeOK' /\ JobInv /\ FoundInv /\ EntryInv /\ EntryLeadsHome /\ PatientInv
  /\ [Next]_vars
  => PatientInv'
<1> SUFFICES ASSUME TypeOK, TypeOK', JobInv, FoundInv, EntryInv, EntryLeadsHome, PatientInv,
                    [Next]_vars
             PROVE  PatientInv'
  OBVIOUS
<1> DEFINE Shaking(k) == step[k] # "none" => kind[k] \in Handshakes
<1> USE JobFacts, ClientsAssumption
<1> SUFFICES ASSUME NEW c \in Patient, link'[c] = "open", ~Home(c)',
                    NEW n \in 1 .. MaxPackets[c]
             PROVE  Shaking(<<c, n>>)'
  BY DEF PatientInv
<1> DEFINE k == <<c, n>>
<1>0. k \in Jobs /\ c \in Clients
  OBVIOUS
<1>a. link[c] = "open" /\ ~Home(c) => Shaking(k)
  BY DEF PatientInv
<1> HIDE DEF k
<1>1. ASSUME NEW d \in Clients, Open(d) PROVE Shaking(k)'
  <2>1. CASE d = c
    <3>1. step[k] = "none" /\ step' = step
      BY <1>0, <1>1, <2>1 DEF Open, jobVars, JobInv, JobOK, k
    <3> QED  BY <3>1
  <2>2. CASE d # c
    BY <1>0, <1>1, <1>a, <2>2 DEF Open, jobVars, TypeOK, Home
  <2> QED  BY <2>1, <2>2
<1>2. ASSUME NEW d \in Clients, Close(d) PROVE Shaking(k)'
  <2>1. d # c
    BY <1>0, <1>2 DEF Close, TypeOK
  <2> QED  BY <1>0, <1>2, <1>a, <2>1 DEF Close, TypeOK, Home
<1>3. ASSUME NEW d \in Clients, Packet(d) PROVE Shaking(k)'
  <2> DEFINE j == <<d, accepted[d] + 1>>
  <2>1. /\ j \in Jobs /\ j[1] = d
        /\ d \in Patient => ~Handshaking(d)
        /\ kind' = [kind EXCEPT ![j] = kind'[j]] /\ kind'[j] \in Kinds
        /\ IsNormalPacket(d, kind'[j])
        /\ step' = [step EXCEPT ![j] = "queued"]
        /\ UNCHANGED <<link, transport, m_clientInfos>>
    BY <1>3, PacketStep
  <2> HIDE DEF j
  <2>2. link[c] = "open" /\ ~Home(c)
    BY <2>1 DEF Home
  <2>3. CASE k # j
    BY <1>0, <1>a, <2>1, <2>2, <2>3 DEF TypeOK
  <2>4. CASE k = j
    <3>1. d = c
      BY <2>1, <2>4 DEF k
    <3>2. m_clientInfos[c] = Absent
      <4>1. ASSUME m_clientInfos[c] # Absent PROVE FALSE
        <5>1. PICK l \in 1 .. MaxPackets[c] : step[<<c, l>>] = "handle"
          BY <1>0, <2>2, <4>1 DEF EntryLeadsHome, Home
        <5>2. kind[<<c, l>>] = "key"
          BY <1>0, <5>1 DEF JobInv, JobOK
        <5> QED  BY <2>1, <3>1, <5>1, <5>2 DEF Handshaking, Handshakes
      <4> QED  BY <4>1
    <3> QED  BY <2>1, <2>4, <3>1, <3>2 DEF IsNormalPacket
  <2> QED  BY <2>3, <2>4
<1>4. ASSUME NEW j \in Jobs, DataHandler(j) PROVE Shaking(k)'
  <2>1. /\ UNCHANGED <<link, kind>>
        /\ step[j] # "none" /\ \A l \in Jobs \ {j} : step'[l] = step[l]
    BY <1>4, OneJobMoves
  <2>2. link[c] = "open" /\ ~Home(c)
    BY <1>0, <1>4, <2>1, HomeStays
  <2> QED  BY <1>0, <1>a, <2>1, <2>2
<1>5. CASE UNCHANGED vars
  BY <1>a, <1>5 DEF vars, linkVars, jobVars, Home, k
<1> QED  BY <1>1, <1>2, <1>3, <1>4, <1>5 DEF Next, k

(* What a job writes reaches its own client, while that is connected. *)
LEMMA WriteHome ==
  ASSUME TypeOK, JobInv, TransportInv, EntryInv, FoundInv,
         NEW j \in Jobs, DataHandler(j), NEW d \in Clients,
         <<j[1], d>> \in received', <<j[1], d>> \notin received
  PROVE  d = j[1] \/ link[j[1]] = "closed"
<1> DEFINE c == j[1]
<1>0. c \in Clients /\ link[c] \in {"none", "open", "closed"}
  BY JobFacts DEF TypeOK
<1>1. CASE Answer(j)
  <2>1. link[d] = "open" /\ transport[d] = transport[c]
    BY <1>1 DEF Answer, Write
  <2>2. link[c] # "none"
    BY <1>1 DEF Answer, JobInv, JobOK
  <2> QED  BY <1>0, <2>1, <2>2 DEF TransportInv
<1>2. CASE WriteBack(j)
  <2>1. PICK h \in Handles \cup {NoHandle} :
          /\ client[j] = "entry" => h = m_clientInfos[c].transportHandle
          /\ Write(c, h)
    BY <1>2 DEF WriteBack
  <2>2. link[d] = "open" /\ transport[d] = h
    BY <2>1 DEF Write
  <2>3. step[j] = "write"
    BY <1>2 DEF WriteBack
  <2>4. link[c] # "none" /\ client[j] # "none" /\ (client[j] = "dangling" => link[c] = "closed")
    BY <2>3 DEF JobInv, JobOK
  <2>5. CASE link[c] = "open"
    <3>1. client[j] = "entry"
      BY <2>4, <2>5 DEF TypeOK
    <3>2. m_clientInfos[c].transportHandle \in {NoHandle, transport[c]}
      BY <1>0, <2>3, <2>5 DEF FoundInv, EntryInv, EntryOK
    <3>3. transport[d] = transport[c]
      BY <2>1, <2>2, <3>1, <3>2, HandlesAssumption DEF TransportInv
    <3> QED  BY <1>0, <2>2, <2>5, <3>3 DEF TransportInv
  <2> QED  BY <1>0, <2>4, <2>5
<1>3. CASE \/ SetHandshaked(j) \/ SetTransportHandle(j) \/ Contains(j) \/ Permit(j)
           \/ HandlerGoesOn(j) \/ FindClient(j) \/ IndexClient(j) \/ ReadHandshaked(j)
           \/ \E w \in Workers : Start(w, j) \/ Return(w, j)
  BY <1>3 DEF SetHandshaked, SetTransportHandle, Contains, Permit, HandlerGoesOn, FindClient,
              IndexClient, ReadHandshaked, Start, Return
<1> QED  BY <1>1, <1>2, <1>3 DEF DataHandler

(* It reaches nobody in the name of another client. *)
LEMMA WriteOwn ==
  ASSUME TypeOK, NEW j \in Jobs, DataHandler(j), NEW c \in Clients \ {j[1]}, NEW d \in Clients,
         <<c, d>> \in received'
  PROVE  <<c, d>> \in received
<1>1. CASE Answer(j)
  BY <1>1 DEF Answer, Write
<1>2. CASE WriteBack(j)
  BY <1>2 DEF WriteBack, Write
<1>3. CASE \/ SetHandshaked(j) \/ SetTransportHandle(j) \/ Contains(j) \/ Permit(j)
           \/ HandlerGoesOn(j) \/ FindClient(j) \/ IndexClient(j) \/ ReadHandshaked(j)
           \/ \E w \in Workers : Start(w, j) \/ Return(w, j)
  BY <1>3 DEF SetHandshaked, SetTransportHandle, Contains, Permit, HandlerGoesOn, FindClient,
              IndexClient, ReadHandshaked, Start, Return
<1> QED  BY <1>1, <1>2, <1>3 DEF DataHandler

LEMMA ConfidentialStep ==
  /\ TypeOK /\ JobInv /\ TransportInv /\ EntryInv /\ FoundInv /\ Confidential /\ [Next]_vars
  => Confidential'
<1> SUFFICES ASSUME TypeOK, JobInv, TransportInv, EntryInv, FoundInv, Confidential, [Next]_vars,
                    NEW c \in Clients, NEW d \in Clients, <<c, d>> \in received', c # d
             PROVE  link'[c] = "closed"
  BY DEF Confidential
<1>a. <<c, d>> \in received => link[c] = "closed"
  BY DEF Confidential
<1>1. ASSUME NEW e \in Clients, Open(e) PROVE link'[c] = "closed"
  BY <1>a, <1>1 DEF Open, TypeOK
<1>2. ASSUME NEW e \in Clients, Close(e) PROVE link'[c] = "closed"
  BY <1>a, <1>2 DEF Close, TypeOK
<1>3. ASSUME NEW e \in Clients, Packet(e) PROVE link'[c] = "closed"
  BY <1>a, <1>3, PacketStep
<1>4. ASSUME NEW j \in Jobs, DataHandler(j) PROVE link'[c] = "closed"
  <2>1. link' = link
    BY <1>4, OneJobMoves
  <2>2. CASE c = j[1]
    BY <1>a, <1>4, <2>1, <2>2, WriteHome
  <2>3. CASE c # j[1]
    BY <1>a, <1>4, <2>1, <2>3, WriteOwn
  <2> QED  BY <2>2, <2>3
<1>5. CASE UNCHANGED vars
  BY <1>a, <1>5 DEF vars, linkVars
<1> QED  BY <1>1, <1>2, <1>3, <1>4, <1>5 DEF Next

-----------------------------------------------------------------------------
(* The theorems. *)

LEMMA NetInit == Init => NetInv
<1> SUFFICES ASSUME Init PROVE NetInv
  OBVIOUS
<1>1. TypeOK
  BY TypeInit
<1> USE JobFacts
<1>2. JobInv /\ TransportInv /\ FoundInv
  BY DEF Init, JobInv, JobOK, TransportInv, FoundInv
<1>3. EntryInv /\ EntryLeadsHome
  BY DEF Init, EntryInv, EntryOK, EntryLeadsHome
<1>4. OnlyHandshaked /\ Confidential
  BY DEF Init, OnlyHandshaked, Confidential
<1>5. PatientInv
  BY ClientsAssumption DEF Init, PatientInv
<1> QED  BY <1>1, <1>2, <1>3, <1>4, <1>5 DEF NetInv

LEMMA NetStep == NetInv /\ [Next]_vars => NetInv'
<1> SUFFICES ASSUME NetInv, [Next]_vars PROVE NetInv'
  OBVIOUS
<1>1. /\ TypeOK /\ JobInv /\ TransportInv /\ EntryInv /\ FoundInv
      /\ OnlyHandshaked /\ EntryLeadsHome /\ Confidential /\ PatientInv
  BY DEF NetInv
<1>2. TypeOK'
  BY <1>1, TypeStep
<1>3. JobInv' /\ TransportInv' /\ FoundInv' /\ EntryInv'
  BY <1>1, JobStep, TransportStep, FoundStep, EntryStep
<1>4. OnlyHandshaked' /\ EntryLeadsHome'
  BY <1>1, <1>2, OnlyStep, HomeStep
<1>5. Confidential' /\ PatientInv'
  BY <1>1, <1>2, ConfidentialStep, PatientStep
<1> QED  BY <1>2, <1>3, <1>4, <1>5 DEF NetInv

LEMMA NetAlways == Spec => []NetInv
<1> QED  BY NetInit, NetStep, PTL DEF Spec

(* A command is handled only for a client that has shown the key           *)
(* (NetworkService.cc, lines 52-68 and 105-107).                           *)
THEOREM HandshakedOnly == Spec => []OnlyHandshaked
<1>1. NetInv => OnlyHandshaked
  BY DEF NetInv
<1> QED  BY <1>1, NetAlways, PTL

(* The entry of a connected client leads to its own connection, or its     *)
(* handshake is between the flag and the handle (lines 89-92).             *)
THEOREM EntriesLeadHome == Spec => []EntryLeadsHome
<1>1. NetInv => EntryLeadsHome
  BY DEF NetInv
<1> QED  BY <1>1, NetAlways, PTL

(* A packet meant for a connected client reaches nobody else (lines 42-50  *)
(* and 94-102), however many handles are used again.                       *)
THEOREM NoPacketStrays == Spec => []Confidential
<1>1. NetInv => Confidential
  BY DEF NetInv
<1> QED  BY <1>1, NetAlways, PTL

(* Replies to a client that waits for the answer to its handshake have its *)
(* handle.                                                                 *)
THEOREM PatientServed == Spec => []PatientAnswered
<1>1. NetInv => PatientAnswered
  <2> SUFFICES ASSUME NetInv, NEW j \in Jobs,
                      step[j] = "write", link[j[1]] = "open", j[1] \in Patient
               PROVE  m_clientInfos[j[1]].transportHandle = transport[j[1]]
    BY DEF PatientAnswered
  <2> USE JobFacts DEF NetInv
  <2>1. kind[j] = "command"
    BY DEF JobInv, JobOK
  <2>2. Home(j[1])
    BY <2>1 DEF PatientInv, Handshakes
  <2> QED  BY <2>2, HomeFields
<1> QED  BY <1>1, NetAlways, PTL

-----------------------------------------------------------------------------
(* The service and the pool. *)

(* The steps of dataHandler between two calls of the pool change nothing   *)
(* it knows of.                                                            *)
LEMMA GoesOnAccepted ==
  ASSUME TypeOK, NEW j \in Jobs, step[j] # "none", NEW s, s # "none", Goto(j, s)
  PROVE  Accepted' = Accepted
<1>1. step'[j] # "none" /\ \A k \in Jobs \ {j} : step'[k] = step[k]
  BY DEF TypeOK, Goto
<1> QED  BY <1>1 DEF Accepted

LEMMA StepUsesQueue == TypeOK /\ [Next]_vars => [Pool!Next]_(Pool!vars)
<1> SUFFICES ASSUME TypeOK, [Next]_vars PROVE [Pool!Next]_(Pool!vars)
  OBVIOUS
<1>1. ASSUME UNCHANGED <<poolVars, step>> PROVE UNCHANGED Pool!vars
  BY <1>1 DEF poolVars, Accepted, Pool!vars
<1>2. ASSUME NEW j \in Jobs, NEW s, step[j] # "none", s # "none", Goto(j, s),
             UNCHANGED poolVars
      PROVE  UNCHANGED Pool!vars
  BY <1>2, GoesOnAccepted DEF poolVars, Pool!vars
<1>3. ASSUME NEW c \in Clients, Open(c) \/ Close(c) PROVE UNCHANGED Pool!vars
  BY <1>1, <1>3 DEF Open, Close, jobVars
<1>4. ASSUME NEW c \in Clients, Packet(c) PROVE \E t \in Jobs : Pool!Submit(t)
  BY <1>4, PacketStep
<1>5. ASSUME NEW w \in Workers, NEW j \in Jobs, Start(w, j) \/ Return(w, j)
      PROVE  Pool!Start(w) \/ Pool!Finish(w)
  BY <1>5 DEF Start, Return
<1>6. ASSUME NEW j \in Jobs,
             \/ SetHandshaked(j) \/ SetTransportHandle(j) \/ Answer(j)
             \/ Contains(j) \/ Permit(j) \/ HandlerGoesOn(j)
             \/ FindClient(j) \/ IndexClient(j) \/ ReadHandshaked(j) \/ WriteBack(j)
      PROVE  UNCHANGED Pool!vars
  <2>1. /\ step[j] # "none" /\ UNCHANGED poolVars
        /\ \E s \in Steps \ {"none"} : Goto(j, s)
    BY <1>6 DEF Steps, SetHandshaked, SetTransportHandle, Answer, Contains, Permit,
                HandlerGoesOn, FindClient, IndexClient, ReadHandshaked, WriteBack
  <2> QED  BY <2>1, <1>2
<1>7. CASE UNCHANGED vars
  BY <1>1, <1>7 DEF vars, jobVars
<1> QED  BY <1>3, <1>4, <1>5, <1>6, <1>7 DEF Next, DataHandler, Pool!Next

(* The network service uses the pool as WorkQueue describes it: each       *)
(* packet is handed over once (line 66), and its handler starts and ends   *)
(* on one worker.                                                          *)
THEOREM UsesQueue == Spec => Pool!Spec
<1>1. Init => Pool!Init
  BY DEF Init, Pool!Init, Accepted
<1> QED  BY <1>1, TypeInit, TypeStep, StepUsesQueue, PTL DEF Spec, Pool!Spec
=============================================================================
