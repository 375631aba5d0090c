---------------------------- MODULE NetworkService ----------------------------
(***************************************************************************)
(* The network service of common/NetworkService.cc: the table of clients   *)
(* m_clientInfos, the handshake, the dispatch of packets to the pool and   *)
(* backward(), by which workers send packets to clients.                   *)
(*                                                                         *)
(* yasio's thread handles the events of all connections, one at a time;    *)
(* dataHandler and backward() run on the workers of g_threadPool, taken as *)
(* a WorkQueue.  Nothing guards m_clientInfos: one operation on the map is *)
(* one step here, and between two of them the client may be gone.          *)
(***************************************************************************)
EXTENDS Naturals, Sequences, FiniteSets

CONSTANTS
  Workers,     (* the threads of g_threadPool                              *)
  Clients,     (* the connections, by source_id; an id is never used again *)
  Patient,     (* those that wait for the answer to a handshake            *)
  Handles,     (* yasio's transport objects, which it does use again       *)
  MaxPackets,  (* bound: how many packets of each connection are accepted  *)
  NoTask, Nop,
  NoHandle,    (* a null transport handle                                  *)
  Absent       (* no entry in m_clientInfos                                *)

ASSUME ClientsAssumption == Patient \subseteq Clients /\ MaxPackets \in [Clients -> Nat]

ASSUME HandlesAssumption == NoHandle \notin Handles

ClientInfo == [handshaked : BOOLEAN, transportHandle : Handles \cup {NoHandle}]

ASSUME AbsentAssumption == Absent \notin ClientInfo

(* The packets handed to the pool: the n-th accepted one of each client. *)
Jobs == UNION {{c} \X (1 .. MaxPackets[c]) : c \in Clients}

ASSUME JobsAssumption == NoTask \notin Jobs

(* What a packet is: a handshake with the service's key, another one, or   *)
(* one cut short; a command that has a handler; or a command byte out of   *)
(* range.                                                                  *)
Handshakes == {"key", "wrongKey", "cutKey"}
Kinds == Handshakes \cup {"command", "invalid"}

VARIABLES
  queue,          (* the pool: packets handed over, oldest first           *)
  running,        (* the pool: the packet of each worker                   *)
  link,           (* the connection of each client: none, open or closed   *)
  transport,      (* its transport object                                  *)
  m_clientInfos,  (* the table                                             *)
  accepted,       (* how many packets of each client have been accepted    *)
  kind,           (* what each of them is                                  *)
  step,           (* how far its dataHandler is                            *)
  client,         (* backward's reference into the table                   *)
  received        (* <<c, d>>: d has received a packet meant for c         *)

poolVars == <<queue, running>>
linkVars == <<link, transport>>
jobVars == <<accepted, kind, step, client>>
vars == <<poolVars, linkVars, m_clientInfos, jobVars, received>>

Accepted == {j \in Jobs : step[j] # "none"}

Pool == INSTANCE WorkQueue WITH
  Tasks <- Jobs, submitted <- Accepted, closed <- FALSE, retired <- {}

Init ==
  /\ queue = <<>>
  /\ running = [w \in Workers |-> NoTask]
  /\ link = [c \in Clients |-> "none"]
  /\ transport = [c \in Clients |-> NoHandle]
  /\ m_clientInfos = [c \in Clients |-> Absent]
  /\ accepted = [c \in Clients |-> 0]
  /\ kind = [j \in Jobs |-> "invalid"]
  /\ step = [j \in Jobs |-> "none"]
  /\ client = [j \in Jobs |-> "none"]
  /\ received = {}

(* What operator[] leaves in the table: a missing entry is value-initialized. *)
Indexed(c) ==
  IF m_clientInfos[c] = Absent
  THEN [handshaked |-> FALSE, transportHandle |-> NoHandle]
  ELSE m_clientInfos[c]

(* m_service.write(): whoever has the transport object now receives it. *)
Write(c, h) ==
  received' = received
    \cup {<<c, d>> : d \in {x \in Clients : link[x] = "open" /\ transport[x] = h}}

Goto(j, s) == step' = [step EXCEPT ![j] = s]

-----------------------------------------------------------------------------
(* yasio's thread. *)

(* A connection gets a transport object that no open connection has. *)
Open(c) ==
  /\ link[c] = "none"
  /\ \E h \in Handles \ {transport[d] : d \in {x \in Clients : link[x] = "open"}} :
       transport' = [transport EXCEPT ![c] = h]
  /\ link' = [link EXCEPT ![c] = "open"]
  /\ UNCHANGED <<poolVars, m_clientInfos, jobVars, received>>

(* YEK_ON_CLOSE: the entry is erased, and a reference to it dangles. *)
Close(c) ==
  /\ link[c] = "open"
  /\ link' = [link EXCEPT ![c] = "closed"]
  /\ m_clientInfos' = [m_clientInfos EXCEPT ![c] = Absent]
  /\ client' = [j \in Jobs |-> IF j[1] = c /\ client[j] = "entry"
                               THEN "dangling" ELSE client[j]]
  /\ UNCHANGED <<poolVars, transport, accepted, kind, step, received>>

(* A client in the table must have handshaked, another one may handshake:  *)
(* the key is not looked at.                                               *)
IsNormalPacket(c, k) ==
  IF m_clientInfos[c] # Absent
  THEN m_clientInfos[c].handshaked
  ELSE k \in Handshakes

(* A handshake of the client is still to be answered. *)
Handshaking(c) ==
  \E n \in 1 .. MaxPackets[c] :
    /\ kind[<<c, n>>] \in Handshakes
    /\ step[<<c, n>>] \in {"queued", "flag", "handle", "answer"}

(* YEK_ON_PACKET: a normal packet goes to the pool, others are ignored. *)
Packet(c) ==
  /\ link[c] = "open"
  /\ accepted[c] < MaxPackets[c]
  /\ c \in Patient => ~Handshaking(c)
  /\ LET j == <<c, accepted[c] + 1>>
     IN  /\ \E k \in Kinds :
              /\ IsNormalPacket(c, k)
              /\ kind' = [kind EXCEPT ![j] = k]
         /\ accepted' = [accepted EXCEPT ![c] = @ + 1]
         /\ Goto(j, "queued")
         /\ UNCHANGED <<linkVars, m_clientInfos, client, received>>
         /\ Pool!Submit(j)

-----------------------------------------------------------------------------
(* dataHandler(), on a worker. *)

(* Mutant: the key is not compared. *)
AnyKey(k) ==
  CASE k \in {"key", "wrongKey"} -> "flag"
    [] k = "command" -> "contains"
    [] k \in {"cutKey", "invalid"} -> "return"

(* Mutant: a wrong key is not answered. *)
WrongKeyIgnored(k) ==
  CASE k = "key" -> "flag"
    [] k = "command" -> "contains"
    [] k \in {"wrongKey", "cutKey", "invalid"} -> "return"

(* Mutant: the command byte is dispatched without a range check. *)
AnyCommand(k) ==
  CASE k = "key" -> "flag"
    [] k = "wrongKey" -> "answer"
    [] k = "command" -> "contains"
    [] k = "cutKey" -> "return"
    [] k = "invalid" -> "dispatch"

(* The command byte is read and switched on, and so is the key; reading    *)
(* one cut short throws, and the job ends in its packaged_task, without an *)
(* answer.                                                                 *)
StepOf(k) ==
  CASE k = "key" -> "flag"
    [] k = "wrongKey" -> "answer"
    [] k = "command" -> "contains"
    [] k \in {"cutKey", "invalid"} -> "return"

Start(w, j) ==
  /\ step[j] = "queued"
  /\ queue # <<>> /\ Head(queue) = j
  /\ Goto(j, StepOf(kind[j]))
  /\ UNCHANGED <<linkVars, m_clientInfos, accepted, kind, client, received>>
  /\ Pool!Start(w)

(* m_clientInfos[transportId].handshaked = true *)
SetHandshaked(j) ==
  /\ step[j] = "flag"
  /\ m_clientInfos' = [m_clientInfos EXCEPT ![j[1]] =
                         [Indexed(j[1]) EXCEPT !.handshaked = TRUE]]
  /\ Goto(j, "handle")
  /\ UNCHANGED <<poolVars, linkVars, accepted, kind, client, received>>

(* Mutant: the handle is not stored. *)
HandleForgotten(j) ==
  /\ step[j] = "handle"
  /\ Goto(j, "answer")
  /\ UNCHANGED <<poolVars, linkVars, m_clientInfos, accepted, kind, client, received>>

(* m_clientInfos[transportId].transportHandle = transportHandle *)
SetTransportHandle(j) ==
  /\ step[j] = "handle"
  /\ m_clientInfos' = [m_clientInfos EXCEPT ![j[1]] =
                         [Indexed(j[1]) EXCEPT !.transportHandle = transport[j[1]]]]
  /\ Goto(j, "answer")
  /\ UNCHANGED <<poolVars, linkVars, accepted, kind, client, received>>

(* The answer to a handshake goes to the transport the packet came by. *)
Answer(j) ==
  /\ step[j] = "answer"
  /\ Write(j[1], transport[j[1]])
  /\ Goto(j, "return")
  /\ UNCHANGED <<poolVars, linkVars, m_clientInfos, accepted, kind, client>>

(* A command: !m_clientInfos.contains(transportId) || ... *)
Contains(j) ==
  /\ step[j] = "contains"
  /\ Goto(j, IF m_clientInfos[j[1]] = Absent THEN "return" ELSE "permit")
  /\ UNCHANGED <<poolVars, linkVars, m_clientInfos, accepted, kind, client, received>>

(* ... || !m_clientInfos[transportId].handshaked, which inserts an entry   *)
(* if the client was erased in between.                                    *)
Permit(j) ==
  /\ step[j] = "permit"
  /\ m_clientInfos' = [m_clientInfos EXCEPT ![j[1]] = Indexed(j[1])]
  /\ Goto(j, IF Indexed(j[1]).handshaked THEN "handler" ELSE "return")
  /\ UNCHANGED <<poolVars, linkVars, accepted, kind, client, received>>

Return(w, j) ==
  /\ step[j] = "return"
  /\ running[w] = j
  /\ Goto(j, "done")
  /\ UNCHANGED <<linkVars, m_clientInfos, accepted, kind, client, received>>
  /\ Pool!Finish(w)

-----------------------------------------------------------------------------
(* The command's handler, which may take for ever, calls backward() once,  *)
(* or throws before, for a command cut short.                              *)
HandlerGoesOn(j) ==
  /\ step[j] = "handler"
  /\ \E s \in {"find", "return"} : Goto(j, s)
  /\ UNCHANGED <<poolVars, linkVars, m_clientInfos, accepted, kind, client, received>>

(* backward(). *)

FindClient(j) ==
  /\ step[j] = "find"
  /\ Goto(j, IF m_clientInfos[j[1]] = Absent THEN "return" ELSE "index")
  /\ UNCHANGED <<poolVars, linkVars, m_clientInfos, accepted, kind, client, received>>

(* Mutant: the reference is to a temporary. *)
IndexTemporary(j) ==
  /\ step[j] = "index"
  /\ m_clientInfos' = [m_clientInfos EXCEPT ![j[1]] = Indexed(j[1])]
  /\ client' = [client EXCEPT ![j] = "dangling"]
  /\ Goto(j, "read")
  /\ UNCHANGED <<poolVars, linkVars, accepted, kind, received>>

(* auto &client = m_clientInfos[clientId] *)
IndexClient(j) ==
  /\ step[j] = "index"
  /\ m_clientInfos' = [m_clientInfos EXCEPT ![j[1]] = Indexed(j[1])]
  /\ client' = [client EXCEPT ![j] = "entry"]
  /\ Goto(j, "read")
  /\ UNCHANGED <<poolVars, linkVars, accepted, kind, received>>

(* if (!client.handshaked) return -1.  A dangling reference reads anything. *)
ReadHandshaked(j) ==
  /\ step[j] = "read"
  /\ \E b \in BOOLEAN :
       /\ client[j] = "entry" => b = m_clientInfos[j[1]].handshaked
       /\ Goto(j, IF b THEN "write" ELSE "return")
  /\ UNCHANGED <<poolVars, linkVars, m_clientInfos, accepted, kind, client, received>>

(* m_service.write(client.transportHandle, packet) *)
WriteBack(j) ==
  /\ step[j] = "write"
  /\ \E h \in Handles \cup {NoHandle} :
       /\ client[j] = "entry" => h = m_clientInfos[j[1]].transportHandle
       /\ Write(j[1], h)
  /\ Goto(j, "return")
  /\ UNCHANGED <<poolVars, linkVars, m_clientInfos, accepted, kind, client>>

-----------------------------------------------------------------------------
DataHandler(j) ==
  \/ SetHandshaked(j) \/ SetTransportHandle(j) \/ Answer(j)
  \/ Contains(j) \/ Permit(j) \/ HandlerGoesOn(j)
  \/ FindClient(j) \/ IndexClient(j) \/ ReadHandshaked(j) \/ WriteBack(j)
  \/ \E w \in Workers : Start(w, j) \/ Return(w, j)

Next ==
  \/ \E c \in Clients : Open(c) \/ Close(c) \/ Packet(c)
  \/ \E j \in Jobs : DataHandler(j)

Spec == Init /\ [][Next]_vars

(* The workers keep running; neither do clients have to send anything nor  *)
(* handlers to return, since the handler of a run may wait for ever.       *)
FairSpec == Spec /\ \A j \in Jobs : WF_vars(step[j] # "handler" /\ DataHandler(j))

-----------------------------------------------------------------------------
Steps ==
  {"none", "queued", "flag", "handle", "answer", "contains", "permit",
   "handler", "find", "index", "read", "write", "return", "done"}

(* Every variable has its type. *)
TypeOK ==
  /\ queue \in Seq(Jobs)
  /\ running \in [Workers -> Jobs \cup {NoTask}]
  /\ link \in [Clients -> {"none", "open", "closed"}]
  /\ transport \in [Clients -> Handles \cup {NoHandle}]
  /\ m_clientInfos \in [Clients -> ClientInfo \cup {Absent}]
  /\ accepted \in [Clients -> Nat]
  /\ kind \in [Jobs -> Kinds]
  /\ step \in [Jobs -> Steps]
  /\ client \in [Jobs -> {"none", "entry", "dangling"}]
  /\ received \subseteq Clients \X Clients

(* "permit only handshaked clients" (line 55): a command is handled only   *)
(* for a client that has sent the service's key, in spite of operator[]    *)
(* inserting entries and of commands overtaking handshakes in the pool.    *)
OnlyHandshaked ==
  \A j \in Jobs :
    kind[j] = "command" /\ step[j] \in {"handler", "find", "index", "read", "write"} =>
      \E n \in 1 .. MaxPackets[j[1]] :
        kind[<<j[1], n>>] = "key" /\ step[<<j[1], n>>] \in {"handle", "answer", "return", "done"}

(* While a client is connected, its entry leads to its own connection, or  *)
(* its first handshake is between the flag and the handle.                 *)
EntryLeadsHome ==
  \A c \in Clients :
    link[c] = "open" /\ m_clientInfos[c] # Absent =>
      \/ m_clientInfos[c] = [handshaked |-> TRUE, transportHandle |-> transport[c]]
      \/ \E n \in 1 .. MaxPackets[c] : step[<<c, n>>] = "handle"

(* No client receives a packet that is meant for another one, unless the   *)
(* other has disconnected and left it its transport object.                *)
Confidential ==
  \A c, d \in Clients : <<c, d>> \in received /\ c # d => link[c] = "closed"

(* The reply to a client that waited for the answer to its handshake never *)
(* meets the null handle that SetHandshaked leaves for a moment.           *)
PatientAnswered ==
  \A j \in Jobs :
    step[j] = "write" /\ link[j[1]] = "open" /\ j[1] \in Patient =>
      m_clientInfos[j[1]].transportHandle = transport[j[1]]

(* Every worker is held by the handler of a command. *)
AllHeld == \A w \in Workers : running[w] \in Jobs /\ step[running[w]] = "handler"

(* Every handshake with a whole key that is accepted is answered, if the   *)
(* client stays and the handlers of commands do not hold all workers for   *)
(* ever.                                                                   *)
HandshakeAnswered ==
  \A j \in Jobs :
    step[j] = "queued" /\ kind[j] \in {"key", "wrongKey"} ~>
      \/ step[j] \in {"return", "done"} /\ <<j[1], j[1]>> \in received
      \/ link[j[1]] = "closed"
      \/ []AllHeld

=============================================================================
