-------------------------- MODULE GuestAgentProofs --------------------------
(***************************************************************************)
(* Proofs about GuestAgent: what the orchestrator and its commands keep    *)
(* stays kept when the port is lost and opened again, nothing of a lost    *)
(* port reaches the next one, and the barrier of a session holds across    *)
(* all of them.                                                            *)
(***************************************************************************)
EXTENDS GuestAgent, OrchestratorProofs, Integers

USE TaskAssumption, OrchestratorAssumption, GuestAssumption

-----------------------------------------------------------------------------
(* What the host has of the ports so far, as far as it is decided. *)
Written == answered \o (IF writer = "write" THEN <<unwritten>> ELSE <<>>)
PortStream == Behind(Written, responses, Waits)

(* The types of the port; a worker that waits has something to pass on.    *)
PortTypes ==
  /\ connected \in BOOLEAN /\ connects \in 0..MaxConnects
  /\ inbound \in Seq(AgentPacket(HostRequest)) /\ Len(inbound) <= LINK_CAPACITY
  /\ reader \in {"read", "send", "done"}
  /\ unsent \in AgentPacket(HostRequest) \union {NO_FRAME}
  /\ reader = "send" => unsent \in AgentPacket(HostRequest)
  /\ writer \in {"recv", "write", "failed", "closed"}
  /\ unwritten \in AgentPacket(GuestResponse) \union {NO_FRAME}
  /\ writer = "write" => unwritten \in AgentPacket(GuestResponse)
  /\ opens \in 1..MaxOpens /\ stale \in Nat

(* A writer that has ended has taken the channel and its answers with it;  *)
(* so has the orchestrator, with its requests, its session and its tasks.  *)
WriterGone ==
  /\ responsesOpen <=> writer \in {"recv", "write"}
  /\ ~responsesOpen => responses = <<>>

OrchGone == orch = "done" => requests = <<>> /\ session = NO_SESSION /\ LiveIds = {}

Ports == IInv /\ MapInv /\ PortTypes /\ WriterGone /\ OrchGone

(* The number of the last frame taken from the link. *)
Read == sent - Len(inbound)

(* Whoever was started or answered. *)
Older == {r \in RequestId : Started(r)} \union {PortStream[i].id : i \in DOMAIN PortStream}

(* Request n was read from this port, and after the first k that wait.     *)
InTurn(n, k) ==
  /\ stale < n /\ n <= Read
  /\ \A m \in Older : m < n
  /\ \A j \in 1..k : requests[j].id < n

(* Numbers grow along the way in, and what was done is older than what     *)
(* waits.                                                                  *)
Numbers ==
  /\ stale <= Read
  /\ \A m \in Older : m <= Read
  /\ \A i \in DOMAIN inbound : inbound[i].id = Read + i
  /\ \A i \in DOMAIN requests : InTurn(requests[i].id, i - 1)
  /\ reader = "send" => InTurn(unsent.id, Len(requests))

(* What is on its way out, or may still be sent, was asked of this port.   *)
Clean ==
  /\ \A r \in LiveIds : r > stale
  /\ \A i \in DOMAIN responses : responses[i].id > stale
  /\ orch = "send" => held.id > stale
  /\ writer = "write" => unwritten.id > stale

PortBarred == Barred(PortStream, LiveIds, InForce)

GuestInv == Ports /\ Numbers /\ Clean /\ PortBarred

-----------------------------------------------------------------------------
(* The workers of the port and the host leave the orchestrator's own state *)
(* and the commands alone; so does run_session, but that it starts anew.   *)
PortStep == HostNext \/ ReaderNext \/ WriterNext \/ Reopen

(* What they leave alone. *)
LEMMA PortLeaves ==
  ASSUME PortStep
  PROVE  /\ UNCHANGED <<messages, channel, taskVars, session, tasks, held>>
         /\ UNCHANGED mapVars /\ UNCHANGED knownVars
         /\ LiveIds' = LiveIds
         /\ \A r \in RequestId : Started(r)' <=> Started(r)
<1>1. UNCHANGED <<messages, channel, taskVars, session, tasks, held>>
  BY DEF PortStep, HostNext, HostConnects, HostDisconnects, HostSends, ReaderNext, ReaderReads,
     ReaderEof, ReaderFails, ReaderClosed, ReaderReturns, ReaderSends, WriterNext, WriterReceives,
     WriterWrites, WriterFails, WriterClosed, WriterReturns, Reopen, vars, orchVars
<1>2. UNCHANGED mapVars /\ UNCHANGED knownVars
  BY <1>1 DEF mapVars, knownVars, taskVars, spawnVars, processVars, outputVars, superVars, killVars
<1>3. UNCHANGED <<supervisor, via, channel>>
  BY <1>1 DEF taskVars, spawnVars, superVars
<1> QED
  BY <1>1, <1>2, <1>3 DEF LiveIds, Live, Started

(* They keep the types of the orchestrator. *)
LEMMA PortKeepsIInv ==
  ASSUME IInv, MapInv, PortStep,
         requests' \in Seq(AgentPacket(HostRequest)), requestsOpen' \in BOOLEAN,
         responses' \in Packets, responsesOpen' \in BOOLEAN,
         orch' = orch \/ orch' = "select", sent' \in Nat, answered' \in Packets
  PROVE  IInv' /\ MapInv'
<1>1. UNCHANGED <<messages, channel, taskVars, session, tasks, held>>
  BY PortLeaves
<1>2. TypeOK'
  BY <1>1 DEF IInv, Types, TypeOK, Packets, taskVars, spawnVars, processVars, outputVars, superVars,
     killVars
<1>3. HeldAnswer'
  BY <1>1 DEF IInv, Types, HeldAnswer
<1>4. KnownAndOwn'
  BY PortLeaves, KnownUnchanged DEF IInv
<1> QED
  BY <1>2, <1>3, <1>4, PortLeaves, MapUnchanged DEF IInv, Types

(* The answers to the host are packets. *)
LEMMA PortStreamType ==
  ASSUME IInv, PortTypes
  PROVE  Written \in Packets /\ PortStream \in Packets
<1>1. answered \in Packets /\ responses \in Packets
  BY DEF IInv, Types, TypeOK, Packets
<1>2. (IF writer = "write" THEN <<unwritten>> ELSE <<>>) \in Packets
  BY DEF PortTypes, Packets
<1>3. Waits \in Packets
  BY DEF IInv, Types, HeldAnswer, Packets, Waits
<1>4. Written \in Packets
  BY <1>1, <1>2 DEF Written, Packets
<1> QED
  BY <1>1, <1>3, <1>4 DEF PortStream, Behind, Packets

(* The types after each of their steps. *)
LEMMA PortsKept ==
  ASSUME Ports, stale <= Read, PortStep
  PROVE  Ports'
<1>1. /\ requests \in Seq(AgentPacket(HostRequest)) /\ requestsOpen \in BOOLEAN
      /\ responses \in Packets /\ responsesOpen \in BOOLEAN /\ answered \in Packets
      /\ sent \in Nat /\ orch \in {"select", "send", "done"}
  BY DEF Ports, IInv, Types, TypeOK, Packets
<1>2. LiveIds' = LiveIds /\ session' = session
  BY PortLeaves
<1>3. SUFFICES /\ requests' \in Seq(AgentPacket(HostRequest)) /\ requestsOpen' \in BOOLEAN
               /\ responses' \in Packets /\ responsesOpen' \in BOOLEAN
               /\ (orch' = orch \/ orch' = "select") /\ sent' \in Nat /\ answered' \in Packets
               /\ PortTypes' /\ WriterGone' /\ OrchGone'
  BY PortKeepsIInv DEF Ports
<1> USE <1>1, <1>2 DEF Ports, PortTypes, WriterGone, OrchGone
<1> USE DEF hostVars, readerVars, writerVars, openVars, ioVars, orchVars, histVars
<1>4. CASE HostConnects \/ HostDisconnects
  <2>1. connected' \in BOOLEAN /\ connects' \in 0..MaxConnects
    <3>1. connected' \in BOOLEAN
      BY <1>4 DEF HostConnects, HostDisconnects
    <3>2. connects' = connects \/ (connects' = connects + 1 /\ connects < MaxConnects)
      BY <1>4 DEF HostConnects, HostDisconnects
    <3>3. connects' \in 0..MaxConnects
      BY <3>2
    <3> QED
      BY <3>1, <3>3
  <2>2. UNCHANGED <<vars, inbound, readerVars, writerVars, openVars>>
    BY <1>4 DEF HostConnects, HostDisconnects
  <2> QED
    BY <2>1, <2>2 DEF vars
<1>5. CASE HostSends
  <2>1. PICK content \in HostRequest :
          inbound' = Append(inbound, [id |-> sent', content |-> content])
    BY <1>5 DEF HostSends
  <2>2. sent' \in RequestId /\ [id |-> sent', content |-> content] \in AgentPacket(HostRequest)
    BY <1>5 DEF HostSends, AgentPacket
  <2>3. Len(inbound') = Len(inbound) + 1 /\ Len(inbound) < LINK_CAPACITY
    BY <1>5, <2>1 DEF HostSends
  <2>4. Len(inbound') <= LINK_CAPACITY
    <3>1. Len(inbound) \in Nat
      OBVIOUS
    <3> QED
      BY <2>3, <3>1
  <2>5. inbound' \in Seq(AgentPacket(HostRequest))
    BY <2>1, <2>2
  <2> QED
    BY <1>5, <2>2, <2>4, <2>5 DEF HostSends
<1>6. CASE ReaderReads
  <2>1. /\ Head(inbound) \in AgentPacket(HostRequest) /\ Tail(inbound) \in Seq(AgentPacket(HostRequest))
        /\ Len(Tail(inbound)) = Len(inbound) - 1 /\ Len(inbound) \in Nat
    BY <1>6, QueueHead DEF ReaderReads
  <2>2. Len(inbound') <= LINK_CAPACITY
    BY <1>6, <2>1 DEF ReaderReads
  <2> QED
    BY <1>6, <2>1, <2>2 DEF ReaderReads, vars
<1>7. CASE ReaderReturns
  BY <1>7 DEF ReaderReturns
<1>8. CASE ReaderSends
  <2>1. requests' \in Seq(AgentPacket(HostRequest))
    BY <1>8 DEF ReaderSends
  <2> QED
    BY <1>8, <2>1 DEF ReaderSends
<1>9. CASE WriterReceives
  <2>1. Head(responses) \in AgentPacket(GuestResponse) /\ Tail(responses) \in Packets
    BY <1>9, QueueHead DEF WriterReceives, Packets
  <2> QED
    BY <1>9, <2>1 DEF WriterReceives
<1>10. CASE WriterWrites
  <2>1. answered' \in Packets
    BY <1>10 DEF WriterWrites, Packets
  <2> QED
    BY <1>10, <2>1 DEF WriterWrites
<1>11. CASE WriterReturns("failed") \/ WriterReturns("closed")
  <2>1. <<>> \in Packets
    BY DEF Packets
  <2> QED
    BY <1>11, <2>1 DEF WriterReturns
<1>12. CASE Reopen
  <2>1. stale' \in Nat /\ opens' \in 1..MaxOpens
    <3>1. Len(inbound) \in Nat /\ stale' = sent - Len(inbound) /\ opens' = opens + 1 /\ opens < MaxOpens
      BY <1>12 DEF Reopen
    <3>2. sent - Len(inbound) \in Nat
      BY <3>1 DEF Read
    <3> QED
      BY <3>1, <3>2
  <2> QED
    BY <1>12, <2>1 DEF Reopen
<1> QED
  BY <1>4, <1>5, <1>6, <1>7, <1>8, <1>9, <1>10, <1>11, <1>12 DEF PortStep, HostNext, ReaderNext,
     ReaderEof, ReaderFails, ReaderClosed, WriterNext, WriterFails, WriterClosed

(* What the host has of the ports loses what a writer that ends drops.     *)
LEMMA PortStreamStep ==
  ASSUME Ports, PortStep
  PROVE  /\ PortStream' \in Packets /\ Begins(PortStream', PortStream)
         /\ InForce' = NO_SESSION \/ (InForce' = InForce /\ PortStream' = PortStream)
<1>1. PortStream \in Packets /\ Written \in Packets
  BY PortStreamType DEF Ports
<1>2. Begins(PortStream, PortStream)
  BY <1>1 DEF Begins, Packets
<1>3. answered \in Packets /\ responses \in Packets
  BY DEF Ports, IInv, Types, TypeOK, Packets
<1>4. session' = session /\ held' = held
  BY PortLeaves
<1> USE DEF hostVars, readerVars, writerVars, openVars, ioVars, orchVars, histVars
<1>5. CASE HostNext \/ ReaderNext
  <2>1. UNCHANGED <<answered, writer, unwritten, responses, responsesOpen, orch>>
    BY <1>5 DEF HostNext, HostConnects, HostDisconnects, HostSends, ReaderNext, ReaderReads,
       ReaderEof, ReaderFails, ReaderClosed, ReaderReturns, ReaderSends, vars
  <2> QED
    BY <1>1, <1>2, <1>4, <2>1 DEF PortStream, Written, Waits, Behind, InForce
<1>6. CASE WriterReceives
  <2>1. Waits' = Waits /\ InForce' = InForce
    BY <1>4, <1>6 DEF WriterReceives, Waits, InForce
  <2>2. /\ Written = answered \o <<>> /\ Written' = answered \o <<Head(responses)>>
        /\ responses # <<>> /\ responses' = Tail(responses)
    BY <1>6 DEF WriterReceives, Written
  <2>3. Written' \o responses' = Written \o responses
    BY <1>3, <2>2 DEF Packets
  <2> QED
    BY <1>1, <1>2, <2>1, <2>3 DEF PortStream, Behind
<1>7. CASE WriterWrites
  <2>1. Waits' = Waits /\ InForce' = InForce /\ responses' = responses
    BY <1>4, <1>7 DEF WriterWrites, Waits, InForce
  <2>2. Written = answered \o <<unwritten>> /\ Written' = Append(answered, unwritten) \o <<>>
    BY <1>7 DEF WriterWrites, Written
  <2>3. unwritten \in AgentPacket(GuestResponse)
    BY <1>7 DEF WriterWrites, Ports, PortTypes
  <2>4. Written' = Written
    BY <1>3, <2>2, <2>3 DEF Packets
  <2> QED
    BY <1>1, <1>2, <2>1, <2>4 DEF PortStream, Behind
<1>8. CASE WriterReturns("failed") \/ WriterReturns("closed")
  <2>1. InForce' = NO_SESSION /\ Waits' = <<>> /\ responses' = <<>>
    BY <1>8 DEF WriterReturns, InForce, Waits
  <2>2. Written' = answered \o <<>>
    BY <1>8 DEF WriterReturns, Written
  <2>3. PortStream' = answered
    BY <1>3, <2>1, <2>2 DEF PortStream, Behind, Packets
  <2> DEFINE u == IF writer = "write" THEN <<unwritten>> ELSE <<>>
  <2>4. u \in Packets /\ Waits \in Packets
    BY DEF Ports, PortTypes, IInv, Types, HeldAnswer, Waits, Packets
  <2>5. PortStream = answered \o u \o responses \o Waits
    BY DEF PortStream, Behind, Written
  <2> HIDE DEF u
  <2>6. Begins(answered, answered \o u \o responses \o Waits)
    BY <1>3, <2>4 DEF Packets, Begins
  <2> QED
    BY <1>3, <2>1, <2>3, <2>5, <2>6
<1>9. CASE Reopen
  <2>1. InForce' = NO_SESSION
    BY <1>4, <1>9 DEF Reopen, InForce, Ports, OrchGone
  <2>2. /\ writer \notin {"write"} /\ writer' \notin {"write"} /\ orch # "send" /\ orch' # "send"
        /\ UNCHANGED <<answered, responses>>
    BY <1>9 DEF Reopen
  <2>3. Written' = Written /\ Waits' = Waits
    BY <2>2 DEF Written, Waits
  <2> QED
    BY <1>1, <1>2, <2>1, <2>2, <2>3 DEF PortStream, Behind
<1> QED
  BY <1>5, <1>6, <1>7, <1>8, <1>9 DEF PortStep, WriterNext, WriterFails, WriterClosed

-----------------------------------------------------------------------------
(* The numbers along the way of a request. *)

(* Whoever was answered has a number. *)
LEMMA OlderAreIds ==
  ASSUME Ports
  PROVE  Older \subseteq RequestId
<1>1. \A i \in DOMAIN PortStream : PortStream[i] \in AgentPacket(GuestResponse)
  BY PortStreamType DEF Ports, Packets
<1> QED
  BY <1>1 DEF Older, AgentPacket

(* The numbers are natural numbers. *)
LEMMA NumberTypes ==
  ASSUME Ports
  PROVE  /\ sent \in Nat /\ Len(inbound) \in Nat /\ DOMAIN inbound = 1..Len(inbound)
         /\ Len(requests) \in Nat /\ DOMAIN requests = 1..Len(requests) /\ Read \in Int
         /\ stale \in Nat
         /\ \A i \in DOMAIN requests : requests[i].id \in Nat
         /\ reader = "send" => unsent.id \in Nat
         /\ \A m \in Older : m \in Nat
<1>1. /\ sent \in Nat /\ inbound \in Seq(AgentPacket(HostRequest))
      /\ requests \in Seq(AgentPacket(HostRequest)) /\ stale \in Nat
      /\ reader = "send" => unsent \in AgentPacket(HostRequest)
  BY DEF Ports, IInv, Types, TypeOK, PortTypes
<1>2. /\ Len(inbound) \in Nat /\ DOMAIN inbound = 1..Len(inbound)
      /\ Len(requests) \in Nat /\ DOMAIN requests = 1..Len(requests)
      /\ \A i \in DOMAIN requests : requests[i] \in AgentPacket(HostRequest)
  BY <1>1
<1>3. \A p \in AgentPacket(HostRequest) : p.id \in Nat
  BY RequestFields
<1>4. \A m \in Older : m \in Nat
  BY OlderAreIds
<1>5. Read \in Int
  BY <1>1, <1>2 DEF Read
<1> QED
  BY <1>1, <1>2, <1>3, <1>4, <1>5

(* An ending writer makes nobody older; nor does any worker of the port.   *)
LEMMA OlderPort ==
  ASSUME Ports, PortStep
  PROVE  Older' \subseteq Older
<1>1. /\ PortStream' \in Packets /\ Begins(PortStream', PortStream) /\ PortStream \in Packets
      /\ \A r \in RequestId : Started(r)' <=> Started(r)
  BY PortStreamStep, PortStreamType, PortLeaves DEF Ports
<1>2. \A i \in DOMAIN PortStream' : i \in DOMAIN PortStream /\ PortStream'[i] = PortStream[i]
  BY <1>1 DEF Packets, Begins
<1> QED
  BY <1>1, <1>2 DEF Older

(* What brings nothing in, and makes nobody older, keeps the numbers. *)
LEMMA NumbersStill ==
  ASSUME Numbers, UNCHANGED <<sent, inbound, stale>>, requests' = requests \/ requests' = <<>>,
         Older' \subseteq Older, reader' = "send" => reader = "send" /\ unsent' = unsent
  PROVE  Numbers'
<1>1. Read' = Read
  BY DEF Read
<1>2. CASE requests' = requests
  BY <1>1, <1>2 DEF Numbers, InTurn
<1>3. CASE requests' = <<>>
  <2>1. DOMAIN requests' = {} /\ Len(requests') = 0
    BY <1>3
  <2> QED
    BY <1>1, <2>1 DEF Numbers, InTurn
<1> QED
  BY <1>2, <1>3

(* The host numbers a frame, the reader takes it off the link and passes   *)
(* it on; a port that is opened anew starts behind what was read.          *)
LEMMA NumbersPort ==
  ASSUME Ports, Numbers, PortStep
  PROVE  Numbers'
<1>1. Older' \subseteq Older
  BY OlderPort
<1> USE DEF hostVars, readerVars, writerVars, openVars, ioVars, orchVars, histVars
<1>2. CASE HostConnects \/ HostDisconnects \/ ReaderReturns \/ WriterNext
  <2>1. UNCHANGED <<sent, inbound, stale, requests>>
    BY <1>2 DEF HostConnects, HostDisconnects, ReaderReturns, WriterNext, WriterReceives,
       WriterWrites, WriterFails, WriterClosed, WriterReturns, vars
  <2>2. reader' = "done" \/ UNCHANGED <<reader, unsent>>
    BY <1>2 DEF HostConnects, HostDisconnects, ReaderReturns, WriterNext, WriterReceives,
       WriterWrites, WriterFails, WriterClosed, WriterReturns, vars
  <2> QED
    BY <1>1, <2>1, <2>2, NumbersStill
<1>3. CASE HostSends
  <2>1. /\ sent' = sent + 1 /\ UNCHANGED <<requests, reader, unsent, stale>>
        /\ \E content : inbound' = Append(inbound, [id |-> sent', content |-> content])
    BY <1>3 DEF HostSends
  <2>2. PICK p : inbound' = Append(inbound, p) /\ p.id = sent'
    BY <2>1
  <2>3. /\ Len(inbound) \in Nat /\ DOMAIN inbound = 1..Len(inbound)
        /\ DOMAIN inbound' = 1..(Len(inbound) + 1) /\ Len(inbound') = Len(inbound) + 1
        /\ \A i \in 1..Len(inbound) : inbound'[i] = inbound[i]
        /\ inbound'[Len(inbound) + 1] = p
    BY <2>2, Appended DEF Ports, PortTypes
  <2>4. Read' = Read
    BY <2>1, <2>3, NumberTypes DEF Read
  <2>5. \A i \in DOMAIN inbound' : inbound'[i].id = Read' + i
    BY <2>1, <2>2, <2>3, <2>4, NumberTypes DEF Numbers, Read
  <2> QED
    BY <1>1, <2>1, <2>4, <2>5 DEF Numbers, InTurn
<1>4. CASE ReaderReads
  <2>1. /\ UNCHANGED <<sent, requests, stale>> /\ inbound # <<>> /\ inbound' = Tail(inbound)
        /\ reader = "read" /\ (reader' = "send" => unsent' = Head(inbound))
    BY <1>4 DEF ReaderReads, vars
  <2>2. /\ Len(inbound) \in Nat \ {0} /\ DOMAIN inbound = 1..Len(inbound)
        /\ DOMAIN inbound' = 1..(Len(inbound) - 1) /\ Len(inbound') = Len(inbound) - 1
        /\ \A i \in 1..(Len(inbound) - 1) : inbound'[i] = inbound[i + 1]
        /\ Head(inbound) = inbound[1]
    BY <2>1, Taken DEF Ports, PortTypes
  <2>3. Read' = Read + 1 /\ Head(inbound).id = Read'
    <3>1. Read' = Read + 1
      BY <2>1, <2>2, NumberTypes DEF Read
    <3>2. inbound[1].id = Read + 1
      BY <2>2 DEF Numbers
    <3> QED
      BY <2>2, <3>1, <3>2
  <2>4. \A i \in DOMAIN inbound' : inbound'[i].id = Read' + i
    <3>1. ASSUME NEW i \in 1..(Len(inbound) - 1) PROVE inbound'[i].id = Read' + i
      <4>1. i + 1 \in DOMAIN inbound /\ inbound'[i] = inbound[i + 1]
        BY <2>2, <3>1
      <4>2. inbound[i + 1].id = Read + (i + 1)
        BY <4>1 DEF Numbers
      <4> QED
        BY <2>3, <4>1, <4>2, NumberTypes
    <3> QED
      BY <2>2, <3>1
  <2>5. stale' <= Read' /\ \A m \in Older' : m <= Read'
    BY <1>1, <2>1, <2>3, NumberTypes DEF Numbers
  <2>6. \A i \in DOMAIN requests' : InTurn(requests[i].id, i - 1)'
    BY <1>1, <2>1, <2>3, NumberTypes DEF Numbers, InTurn
  <2>7. reader' = "send" => InTurn(unsent.id, Len(requests))'
    <3>1. SUFFICES ASSUME reader' = "send" PROVE InTurn(unsent.id, Len(requests))'
      OBVIOUS
    <3>2. unsent'.id = Read + 1 /\ stale < Read + 1 /\ Read + 1 <= Read'
      BY <2>1, <2>3, <3>1, NumberTypes DEF Numbers
    <3>3. \A m \in Older' : m < Read + 1
      BY <1>1, NumberTypes DEF Numbers
    <3>4. \A j \in 1..Len(requests') : requests'[j].id < Read + 1
      BY <2>1, NumberTypes DEF Numbers, InTurn
    <3> QED
      BY <2>1, <3>2, <3>3, <3>4 DEF InTurn
  <2> QED
    BY <2>4, <2>5, <2>6, <2>7 DEF Numbers
<1>5. CASE ReaderSends
  <2>1. /\ UNCHANGED <<sent, inbound, stale>> /\ requests' = Append(requests, unsent)
        /\ reader = "send" /\ reader' = "read"
    BY <1>5 DEF ReaderSends
  <2>2. /\ Len(requests) \in Nat /\ DOMAIN requests = 1..Len(requests)
        /\ DOMAIN requests' = 1..(Len(requests) + 1)
        /\ \A i \in 1..Len(requests) : requests'[i] = requests[i]
        /\ requests'[Len(requests) + 1] = unsent
    BY <2>1, Appended DEF Ports, IInv, Types, TypeOK
  <2>3. Read' = Read
    BY <2>1 DEF Read
  <2>4. ASSUME NEW i \in DOMAIN requests' PROVE InTurn(requests[i].id, i - 1)'
    <3>1. \A j \in 1..(i - 1) : j \in DOMAIN requests /\ requests'[j] = requests[j]
      BY <2>2, <2>4
    <3>2. CASE i \in DOMAIN requests
      BY <1>1, <2>1, <2>2, <2>3, <3>1, <3>2 DEF Numbers, InTurn
    <3>3. CASE i = Len(requests) + 1
      <4>1. InTurn(unsent.id, Len(requests)) /\ i - 1 = Len(requests) /\ requests'[i] = unsent
        BY <2>1, <2>2, <3>3 DEF Numbers
      <4> QED
        BY <1>1, <2>1, <2>3, <3>1, <4>1 DEF InTurn
    <3> QED
      BY <2>2, <3>2, <3>3
  <2> QED
    BY <1>1, <2>1, <2>3, <2>4 DEF Numbers
<1>6. CASE Reopen
  <2>1. /\ UNCHANGED <<sent, inbound, requests>> /\ stale' = Read /\ reader' = "read"
        /\ requests = <<>>
    BY <1>6 DEF Reopen, Ports, OrchGone, Read
  <2>2. DOMAIN requests' = {} /\ Read' = Read
    BY <2>1 DEF Read
  <2> QED
    BY <1>1, <2>1, <2>2, NumberTypes DEF Numbers
<1> QED
  BY <1>2, <1>3, <1>4, <1>5, <1>6 DEF PortStep, HostNext, ReaderNext, ReaderEof, ReaderFails,
     ReaderClosed

-----------------------------------------------------------------------------
(* The steps of the orchestrator, seen from the ports. *)

(* A handler takes the first request and answers it, or passes on what a   *)
(* live task has sent; only the request that is taken comes to life.       *)
LEMMA OrchTakes ==
  ASSUME IInv, MapInv, OrchNext
  PROVE  \/ /\ requests # <<>> /\ requests' = Tail(requests)
            /\ orch = "select" /\ orch' = "send" /\ held'.id = Head(requests).id
            /\ \A r \in RequestId : Started(r)' => Started(r) \/ r = Head(requests).id
            /\ \A r \in LiveIds' : r \in LiveIds \/ r = Head(requests).id
         \/ /\ requests' = requests \/ requests' = <<>>
            /\ orch' = "send" => held'.id \in LiveIds
            /\ \A r \in RequestId : Started(r)' => Started(r)
            /\ LiveIds' \subseteq LiveIds
<1>1. CASE ReInitialize \/ Initialize \/ Ping \/ CommandExec \/ CommandKill
  <2>1. /\ requests # <<>> /\ requests' = Tail(requests) /\ orch = "select" /\ orch' = "send"
        /\ \E content : held' = [id |-> Head(requests).id, content |-> content]
    BY <1>1, DirectAnswered
  <2>2. held'.id = Head(requests).id
    BY <2>1
  <2>3. CASE ReInitialize \/ Ping \/ CommandKill
    <3>1. UNCHANGED <<supervisor, via, channel>>
      BY <2>3 DEF ReInitialize, Ping, CommandKill, taskVars, spawnVars, superVars
    <3> QED
      BY <2>1, <2>2, <3>1 DEF Started, LiveIds, Live
  <2>4. CASE Initialize
    <3>1. supervisor' = supervisor /\ LiveIds' = {}
      BY <2>4, LiveDropped DEF Initialize, spawnVars, superVars, LiveIds
    <3> QED
      BY <2>1, <2>2, <3>1 DEF Started
  <2>5. CASE CommandExec
    <3>1. Head(requests).id \in RequestId
      BY <2>1, QueueHead, RequestFields DEF IInv, Types, TypeOK
    <3>2. \A r \in RequestId : Live(r)' => Live(r) \/ r = Head(requests).id
      BY <2>5, <3>1, LiveExecuted
    <3>3. \A r \in RequestId : Started(r)' => Started(r) \/ r = Head(requests).id
      <4>1. CASE supervisor' = supervisor
        BY <4>1 DEF Started
      <4>2. CASE supervisor' = [supervisor EXCEPT ![Head(requests).id] = "drain"]
        BY <4>2 DEF Started, IInv, Types, TypeOK
      <4> QED
        BY <2>5, <4>1, <4>2 DEF CommandExec, Spawn, superVars
    <3> QED
      BY <2>1, <2>2, <3>2, <3>3 DEF LiveIds
  <2> QED
    BY <1>1, <2>3, <2>4, <2>5
<1>2. CASE PassOn
  <2>1. UNCHANGED <<requests, supervisor, via, channel>>
    BY <1>2 DEF PassOn, ioVars, taskVars, spawnVars, superVars
  <2>2. held'.id \in LiveIds
    <3> DEFINE p == held'
    <3>1. /\ IsAnswer(messages[1]) /\ 1 \in DOMAIN messages /\ p = messages[1].response
          /\ p \in AgentPacket(GuestResponse)
      BY <1>2, PassedOnPacket
    <3>2. OfTask(messages[1]) /\ p.id \in RequestId
      BY <3>1 DEF MapInv, MessagesOfTasks, AgentPacket
    <3> HIDE DEF p
    <3>3. p.id \in LiveIds
      BY <3>1, <3>2 DEF OfTask, LiveIds, Live
    <3> QED
      BY <3>3 DEF p
  <2> QED
    BY <2>1, <2>2 DEF Started, LiveIds, Live
<1>3. CASE RemoveTask \/ Send
  <2>1. UNCHANGED <<requests, supervisor, via, channel>> /\ orch' # "send"
    BY <1>3 DEF RemoveTask, Send, ioVars, taskVars, spawnVars, superVars
  <2> QED
    BY <2>1 DEF Started, LiveIds, Live
<1>4. CASE Break
  <2>1. requests' = <<>> /\ orch' # "send" /\ supervisor' = supervisor /\ LiveIds' = {}
    BY <1>4, LiveDropped DEF Break, spawnVars, superVars, LiveIds
  <2> QED
    BY <2>1 DEF Started
<1> QED
  BY <1>1, <1>2, <1>3, <1>4 DEF OrchNext, Handle

(* The answer it holds is the next that the port gets. *)
LEMMA PortStreamOrch ==
  ASSUME Ports, OrchNext, UNCHANGED portVars
  PROVE  /\ PortStream' = IF orch = "select" /\ orch' = "send" /\ responsesOpen
                          THEN Append(PortStream, held') ELSE PortStream
         /\ PortStream \in Packets /\ PortStream' \in Packets /\ responsesOpen' = responsesOpen
         /\ UNCHANGED <<sent, answered>>
<1>1. UNCHANGED <<answered, sent, responsesOpen>>
  BY DEF OrchNext, Handle, ReInitialize, Initialize, Ping, CommandExec, CommandKill, PassOn,
     RemoveTask, Send, Break, Request, histVars, ioVars
<1>2. Written' = Written /\ Written \in Packets /\ PortStream \in Packets
  BY <1>1, PortStreamType DEF Written, portVars, writerVars, Ports
<1>3. PortStream' = Behind(Written, responses', Waits')
  BY <1>2 DEF PortStream
<1>4. PortStream' = IF orch = "select" /\ orch' = "send" /\ responsesOpen
                    THEN Append(PortStream, held') ELSE PortStream
  BY <1>2, <1>3, AnswersStep DEF PortStream, Ports
<1>5. PortStream' \in Packets
  <2>1. orch' = "send" => held' \in AgentPacket(GuestResponse)
    BY HeldNext DEF Ports
  <2> QED
    BY <1>2, <1>4, <2>1 DEF Packets
<1> QED
  BY <1>1, <1>2, <1>4, <1>5

(* The types after a step of the orchestrator. *)
LEMMA PortsOrch ==
  ASSUME Ports, Numbers, OrchNext, UNCHANGED portVars
  PROVE  Ports'
<1>1. requests # <<>> => Newest(Head(requests).id)
  <2>1. SUFFICES ASSUME requests # <<>> PROVE Newest(Head(requests).id)
    OBVIOUS
  <2>2. Head(requests) = requests[1] /\ 1 \in DOMAIN requests
    BY <2>1, Taken DEF Ports, IInv, Types, TypeOK
  <2>3. \A m \in Older : m < requests[1].id
    BY <2>2 DEF Numbers, InTurn
  <2> QED
    BY <2>2, <2>3 DEF Newest, Older
<1>2. IInv' /\ MapInv'
  BY <1>1, MapOrch, StepInvariant DEF Ports, Next
<1>3. PortTypes'
  BY DEF Ports, PortTypes, portVars, hostVars, readerVars, writerVars, openVars
<1>4. WriterGone'
  <2>1. responses' = responses \/ responsesOpen
    BY DEF OrchNext, Handle, ReInitialize, Initialize, Ping, CommandExec, CommandKill, PassOn,
       RemoveTask, Send, Break, Request, ioVars
  <2>2. UNCHANGED <<responsesOpen, writer>>
    BY PortStreamOrch DEF portVars, writerVars
  <2> QED
    BY <2>1, <2>2 DEF Ports, WriterGone
<1>5. OrchGone'
  <2>1. Break \/ orch' # "done"
    BY DEF OrchNext, Handle, ReInitialize, Initialize, Ping, CommandExec, CommandKill, PassOn,
       RemoveTask, Send, Answer
  <2>2. Break => requests' = <<>> /\ session' = NO_SESSION /\ LiveIds' = {}
    BY LiveDropped DEF Ports, Break, spawnVars, superVars, LiveIds
  <2> QED
    BY <2>1, <2>2 DEF OrchGone
<1> QED
  BY <1>2, <1>3, <1>4, <1>5 DEF Ports

(* The numbers after a step of the orchestrator: the request it takes is   *)
(* the oldest that waits, and newer than what was done before.             *)
LEMMA NumbersOrch ==
  ASSUME Ports, Numbers, OrchNext, UNCHANGED portVars
  PROVE  Numbers'
<1>1. /\ UNCHANGED <<sent, inbound, stale, reader, unsent>> /\ PortStream \in Packets
      /\ PortStream' = PortStream \/ (PortStream' = Append(PortStream, held') /\ orch' = "send")
  BY PortStreamOrch DEF portVars, hostVars, readerVars, openVars
<1>2. \A i \in DOMAIN PortStream' :
        \/ i \in DOMAIN PortStream /\ PortStream'[i] = PortStream[i]
        \/ PortStream'[i] = held' /\ orch' = "send"
  <2>1. CASE PortStream' = PortStream
    BY <2>1
  <2>2. CASE PortStream' = Append(PortStream, held') /\ orch' = "send"
    <3> DEFINE t == PortStream'
               p == held'
               s == PortStream
    <3>1. t = Append(s, p) /\ s \in Seq(AgentPacket(GuestResponse))
      BY <1>1, <2>2 DEF Packets
    <3> HIDE DEF t, p, s
    <3>2. DOMAIN s = 1..Len(s) /\ DOMAIN t = 1..(Len(s) + 1) /\ Len(s) \in Nat
          /\ (\A i \in 1..Len(s) : t[i] = s[i]) /\ t[Len(s) + 1] = p
      BY <3>1, Appended
    <3>3. \A i \in DOMAIN t : (i \in DOMAIN s /\ t[i] = s[i]) \/ t[i] = p
      BY <3>2
    <3> QED
      BY <2>2, <3>3 DEF t, p, s
  <2> QED
    BY <1>1, <2>1, <2>2
<1>3. LiveIds \subseteq Older
  BY DEF LiveIds, Live, Older
<1>4. CASE /\ requests' = requests \/ requests' = <<>>
           /\ orch' = "send" => held'.id \in LiveIds
           /\ \A r \in RequestId : Started(r)' => Started(r)
  <2>1. Older' \subseteq Older
    BY <1>2, <1>3, <1>4 DEF Older
  <2> QED
    BY <1>1, <1>4, <2>1, NumbersStill
<1>5. CASE /\ requests # <<>> /\ requests' = Tail(requests)
           /\ held'.id = Head(requests).id
           /\ \A r \in RequestId : Started(r)' => Started(r) \/ r = Head(requests).id
  <2>1. /\ Len(requests) \in Nat \ {0} /\ DOMAIN requests = 1..Len(requests)
        /\ DOMAIN requests' = 1..(Len(requests) - 1) /\ Len(requests') = Len(requests) - 1
        /\ \A i \in 1..(Len(requests) - 1) : requests'[i] = requests[i + 1]
        /\ Head(requests) = requests[1]
    BY <1>5, Taken DEF Ports, IInv, Types, TypeOK
  <2>2. \A m \in Older' : m \in Older \/ m = requests[1].id
    <3>1. \A r \in RequestId : Started(r)' => r \in Older \/ r = requests[1].id
      BY <1>5, <2>1 DEF Older
    <3>2. \A i \in DOMAIN PortStream' : PortStream'[i].id \in Older \/ PortStream'[i].id = requests[1].id
      <4>1. held'.id = requests[1].id
        BY <1>5, <2>1
      <4> QED
        BY <1>2, <4>1 DEF Older
    <3>3. \A m \in Older' : \/ m \in RequestId /\ Started(m)'
                           \/ \E i \in DOMAIN PortStream' : m = PortStream'[i].id
      BY DEF Older
    <3> QED
      BY <3>1, <3>2, <3>3
  <2>3. Read' = Read
    BY <1>1 DEF Read
  <2>4. InTurn(requests[1].id, 0) /\ 1 \in DOMAIN requests
    BY <2>1 DEF Numbers
  <2>5. stale' <= Read' /\ \A m \in Older' : m <= Read'
    BY <1>1, <2>2, <2>3, <2>4 DEF Numbers, InTurn
  <2>6. \A i \in DOMAIN inbound' : inbound'[i].id = Read' + i
    BY <1>1, <2>3 DEF Numbers
  <2>7. ASSUME NEW i \in DOMAIN requests' PROVE InTurn(requests[i].id, i - 1)'
    <3>1. i + 1 \in DOMAIN requests /\ requests'[i] = requests[i + 1] /\ i \in Nat \ {0}
      BY <2>1, <2>7
    <3>2. InTurn(requests[i + 1].id, (i + 1) - 1)
      BY <3>1 DEF Numbers
    <3>3. /\ stale < requests[i + 1].id /\ requests[i + 1].id <= Read
          /\ \A m \in Older : m < requests[i + 1].id
          /\ \A j \in 1..i : requests[j].id < requests[i + 1].id
      BY <3>1, <3>2 DEF InTurn
    <3>4. \A m \in Older' : m < requests[i + 1].id
      BY <2>2, <3>1, <3>3
    <3>5. \A j \in 1..(i - 1) : requests'[j].id < requests[i + 1].id
      <4>1. \A j \in 1..(i - 1) : j + 1 \in 1..i /\ requests'[j] = requests[j + 1]
        BY <2>1, <3>1
      <4> QED
        BY <3>3, <4>1
    <3> QED
      BY <1>1, <2>3, <3>1, <3>3, <3>4, <3>5 DEF InTurn
  <2>8. reader' = "send" => InTurn(unsent.id, Len(requests))'
    <3>1. SUFFICES ASSUME reader = "send" PROVE InTurn(unsent.id, Len(requests))'
      BY <1>1
    <3>2. InTurn(unsent.id, Len(requests))
      BY <3>1 DEF Numbers
    <3>3. requests[1].id < unsent.id
      BY <2>1, <3>2 DEF InTurn
    <3>4. \A m \in Older' : m < unsent.id
      BY <2>2, <3>2, <3>3 DEF InTurn
    <3>5. \A j \in 1..(Len(requests) - 1) : requests'[j].id < unsent.id
      <4>1. \A j \in 1..(Len(requests) - 1) : j + 1 \in 1..Len(requests) /\ requests'[j] = requests[j + 1]
        BY <2>1
      <4> QED
        BY <3>2, <4>1 DEF InTurn
    <3> QED
      BY <1>1, <2>1, <2>3, <3>2, <3>4, <3>5 DEF InTurn
  <2> QED
    BY <2>5, <2>6, <2>7, <2>8 DEF Numbers
<1> QED
  BY <1>4, <1>5, OrchTakes DEF Ports

(* What the orchestrator answers, queues or lets live was asked of this    *)
(* port.                                                                   *)
LEMMA CleanOrch ==
  ASSUME Ports, Numbers, Clean, OrchNext, UNCHANGED portVars
  PROVE  Clean'
<1>1. UNCHANGED <<stale, writer, unwritten>>
  BY DEF portVars, writerVars, openVars
<1>2. requests # <<>> => Head(requests).id > stale
  <2>1. SUFFICES ASSUME requests # <<>> PROVE Head(requests).id > stale
    OBVIOUS
  <2>2. Head(requests) = requests[1] /\ 1 \in DOMAIN requests
    BY <2>1, Taken DEF Ports, IInv, Types, TypeOK
  <2>3. stale < requests[1].id
    BY <2>2 DEF Numbers, InTurn
  <2> QED
    BY <2>2, <2>3, NumberTypes
<1>3. (\A r \in LiveIds' : r > stale) /\ (orch' = "send" => held'.id > stale)
  BY <1>2, OrchTakes DEF Ports, Clean
<1>4. \A i \in DOMAIN responses' : responses'[i].id > stale
  <2>1. responses' = responses \/ (responses' = Append(responses, held) /\ orch = "send")
    BY DEF OrchNext, Handle, ReInitialize, Initialize, Ping, CommandExec, CommandKill, PassOn,
       RemoveTask, Send, Break, Request, ioVars
  <2>2. CASE responses' = responses
    BY <2>2 DEF Clean
  <2>3. CASE responses' = Append(responses, held) /\ orch = "send"
    <3>1. /\ DOMAIN responses = 1..Len(responses) /\ DOMAIN responses' = 1..(Len(responses) + 1)
          /\ Len(responses) \in Nat
          /\ \A i \in 1..Len(responses) : responses'[i] = responses[i]
          /\ responses'[Len(responses) + 1] = held
      BY <2>3, Appended DEF Ports, IInv, Types, TypeOK
    <3>2. \A i \in DOMAIN responses' : i \in DOMAIN responses \/ i = Len(responses) + 1
      BY <3>1
    <3> QED
      BY <2>3, <3>1, <3>2 DEF Clean
  <2> QED
    BY <2>1, <2>2, <2>3
<1> QED
  BY <1>1, <1>3, <1>4 DEF Clean

(* The workers pass on what is clean; when the port is opened anew there   *)
(* is nothing.                                                             *)
LEMMA CleanPort ==
  ASSUME Ports, Clean, PortStep
  PROVE  Clean'
<1>1. UNCHANGED held /\ LiveIds' = LiveIds
  BY PortLeaves
<1> USE DEF hostVars, readerVars, writerVars, openVars, ioVars, orchVars, histVars
<1>2. CASE HostNext \/ ReaderNext \/ WriterWrites
  <2>1. UNCHANGED <<responses, orch, stale>> /\ (writer' = "write" => UNCHANGED <<writer, unwritten>>)
    BY <1>2 DEF HostNext, HostConnects, HostDisconnects, HostSends, ReaderNext, ReaderReads,
       ReaderEof, ReaderFails, ReaderClosed, ReaderReturns, ReaderSends, WriterWrites, vars
  <2> QED
    BY <1>1, <2>1 DEF Clean
<1>3. CASE WriterReceives
  <2>1. /\ UNCHANGED <<orch, stale>> /\ responses # <<>> /\ responses' = Tail(responses)
        /\ unwritten' = Head(responses)
    BY <1>3 DEF WriterReceives
  <2>2. /\ Len(responses) \in Nat \ {0} /\ DOMAIN responses = 1..Len(responses)
        /\ DOMAIN responses' = 1..(Len(responses) - 1) /\ Head(responses) = responses[1]
        /\ \A i \in 1..(Len(responses) - 1) : responses'[i] = responses[i + 1]
    BY <2>1, Taken DEF Ports, IInv, Types, TypeOK
  <2>3. \A i \in DOMAIN responses' : i + 1 \in DOMAIN responses /\ responses'[i] = responses[i + 1]
    BY <2>2
  <2>4. 1 \in DOMAIN responses
    BY <2>2
  <2> QED
    BY <1>1, <2>1, <2>2, <2>3, <2>4 DEF Clean
<1>4. CASE WriterReturns("failed") \/ WriterReturns("closed")
  <2>1. UNCHANGED <<orch, stale>> /\ responses' = <<>> /\ writer' # "write"
    BY <1>4 DEF WriterReturns
  <2>2. DOMAIN responses' = {}
    BY <2>1
  <2> QED
    BY <1>1, <2>1, <2>2 DEF Clean
<1>5. CASE Reopen
  <2>1. responses' = <<>> /\ LiveIds' = {} /\ orch' # "send" /\ writer' # "write"
    BY <1>1, <1>5 DEF Reopen, Ports, OrchGone, WriterGone
  <2>2. DOMAIN responses' = {}
    BY <2>1
  <2> QED
    BY <2>1, <2>2 DEF Clean
<1> QED
  BY <1>2, <1>3, <1>4, <1>5 DEF PortStep, WriterNext, WriterFails, WriterClosed

-----------------------------------------------------------------------------
(* The barrier across ports. *)

(* The barrier after a step. *)
LEMMA PortBarredIs ==
  ASSUME NEW t, PortStream' = t, Barred(t, LiveIds', InForce')
  PROVE  PortBarred'
<1>1. \A i : Switches(PortStream, i)' <=> Switches(t, i)
  BY DEF Switches
<1>2. /\ NothingOlderAfterSwitch(PortStream)'
      /\ InForce' # NO_SESSION => Announced(PortStream, InForce)'
      /\ \A r : SwitchedBefore(PortStream, r)' <=> SwitchedBefore(t, r)
  BY <1>1 DEF Barred, NothingOlderAfterSwitch, SwitchedBefore, Announced
<1> QED
  BY <1>2 DEF PortBarred, Barred

(* A request that waits is newer than every answer, also to those that     *)
(* were read from earlier ports.                                           *)
LEMMA BarredOrchPort ==
  ASSUME Ports, Numbers, PortBarred, OrchNext, UNCHANGED portVars
  PROVE  PortBarred'
<1>1. requests # <<>> => SwitchedBefore(PortStream, Head(requests).id)
  <2>1. SUFFICES ASSUME requests # <<>>, NEW i \in DOMAIN PortStream
                 PROVE  Head(requests).id > PortStream[i].id
    BY DEF SwitchedBefore
  <2>2. Head(requests) = requests[1] /\ 1 \in DOMAIN requests
    BY <2>1, Taken DEF Ports, IInv, Types, TypeOK
  <2>3. PortStream[i].id \in Older
    BY DEF Older
  <2>4. PortStream[i].id < requests[1].id
    BY <2>2, <2>3 DEF Numbers, InTurn
  <2> QED
    BY <2>2, <2>3, <2>4, NumberTypes
<1>2. Barred(PortStream', LiveIds', InForce')
  BY <1>1, PortStreamOrch, BarredOrch DEF PortBarred, Ports
<1> QED
  BY <1>2, PortBarredIs

(* The workers add no answer, and with the writer ends the session.        *)
LEMMA BarredPort ==
  ASSUME Ports, PortBarred, PortStep
  PROVE  PortBarred'
<1>1. /\ PortStream \in Packets /\ PortStream' \in Packets /\ Begins(PortStream', PortStream)
      /\ InForce' = NO_SESSION \/ (InForce' = InForce /\ PortStream' = PortStream)
      /\ LiveIds' = LiveIds
  BY PortStreamStep, PortStreamType, PortLeaves DEF Ports
<1>2. Barred(PortStream', LiveIds', InForce')
  BY <1>1, BarredCut DEF PortBarred
<1> QED
  BY <1>2, PortBarredIs

(* A step of a command changes neither the answers nor who may send.       *)
LEMMA CommandKeeps ==
  ASSUME GuestInv, NEW r \in RequestId, CommandNext(r), UNCHANGED portVars
  PROVE  GuestInv'
<1>1. TaskNext(r) /\ UNCHANGED <<ioVars, orchVars, histVars>>
  BY DEF CommandNext, restVars
<1>2. (\A q \in RequestId : Started(q)' <=> Started(q)) /\ LiveIds' = LiveIds
  BY <1>1, TaskStarts, LiveTask DEF GuestInv, Ports, LiveIds
<1>3. UNCHANGED <<requests, responses, responsesOpen, session, orch, held, sent, answered, tasks,
                  inbound, reader, unsent, writer, unwritten, opens, stale, connected, connects>>
  BY <1>1 DEF ioVars, orchVars, histVars, portVars, hostVars, readerVars, writerVars, openVars
<1>4. IInv' /\ MapInv'
  BY <1>1, <1>3, StepInvariant, MapTask DEF GuestInv, Ports, Next
<1>5. PortStream' = PortStream /\ InForce' = InForce /\ Read' = Read /\ Older' \subseteq Older
  <2>1. PortStream' = PortStream
    BY <1>3 DEF PortStream, Behind, Written, Waits
  <2> QED
    BY <1>2, <1>3, <2>1 DEF InForce, Read, Older
<1>6. Ports'
  BY <1>2, <1>3, <1>4 DEF GuestInv, Ports, PortTypes, WriterGone, OrchGone
<1>7. Numbers'
  BY <1>3, <1>5, NumbersStill DEF GuestInv
<1>8. Clean'
  BY <1>2, <1>3 DEF GuestInv, Clean
<1>9. PortBarred'
  <2>1. Barred(PortStream', LiveIds', InForce')
    BY <1>2, <1>5 DEF GuestInv, PortBarred
  <2> QED
    BY <2>1, PortBarredIs
<1> QED
  BY <1>6, <1>7, <1>8, <1>9 DEF GuestInv

-----------------------------------------------------------------------------
(* The invariant. *)

(* The agent starts with an open port and nothing done. *)
LEMMA GuestStarts == GuestInit => GuestInv
<1> SUFFICES ASSUME GuestInit PROVE GuestInv
  OBVIOUS
<1>1. NumberedInv
  BY NumberedInit DEF GuestInit
<1>2. /\ requests = <<>> /\ responses = <<>> /\ answered = <<>> /\ inbound = <<>> /\ sent = 0
      /\ responsesOpen = TRUE /\ session = NO_SESSION /\ orch = "select" /\ stale = 0
      /\ reader = "read" /\ writer = "recv" /\ opens = 1 /\ connects = 0 /\ connected = FALSE
      /\ unsent = NO_FRAME /\ unwritten = NO_FRAME
      /\ \A r \in RequestId : ~Started(r)
  BY DEF GuestInit, Init, TaskInit, Started
<1>3. /\ Len(inbound) = 0 /\ DOMAIN inbound = {} /\ DOMAIN requests = {} /\ DOMAIN responses = {}
      /\ inbound \in Seq(AgentPacket(HostRequest))
  BY <1>2
<1>4. Written = <<>>
  BY <1>2 DEF Written
<1>5. PortStream = <<>>
  BY <1>2, <1>4 DEF PortStream, Behind, Waits
<1>6. DOMAIN PortStream = {} /\ Older = {} /\ LiveIds = {} /\ InForce = NO_SESSION
  <2>1. DOMAIN PortStream = {}
    BY <1>5
  <2>2. Older = {}
    BY <1>2, <2>1 DEF Older
  <2>3. LiveIds = {}
    BY <1>2 DEF LiveIds, Live
  <2> QED
    BY <1>2, <2>1, <2>2, <2>3 DEF InForce
<1>7. Ports
  <2>1. 0 \in 0..MaxConnects /\ Len(inbound) <= LINK_CAPACITY /\ 1 \in 1..MaxOpens
    BY <1>3, GuestAssumption DEF GuestAssumption
  <2>2. PortTypes
    BY <1>2, <1>3, <2>1 DEF PortTypes
  <2> QED
    BY <1>1, <1>2, <2>2 DEF Ports, NumberedInv, WriterGone, OrchGone
<1>8. Numbers
  BY <1>2, <1>3, <1>6 DEF Numbers, Read
<1>9. Clean
  BY <1>2, <1>3, <1>6 DEF Clean
<1>10. PortBarred
  BY <1>6 DEF PortBarred, Barred, NothingOlderAfterSwitch
<1> QED
  BY <1>7, <1>8, <1>9, <1>10 DEF GuestInv

(* Every step keeps it. *)
LEMMA GuestStep == GuestInv /\ [GuestNext]_guestVars => GuestInv'
<1> SUFFICES ASSUME GuestInv, [GuestNext]_guestVars PROVE GuestInv'
  OBVIOUS
<1> USE DEF GuestInv
<1>1. CASE PortStep
  BY <1>1, PortsKept, NumbersPort, CleanPort, BarredPort DEF Numbers
<1>2. CASE OrchNext /\ UNCHANGED portVars
  BY <1>2, PortsOrch, NumbersOrch, CleanOrch, BarredOrchPort
<1>3. ASSUME NEW r \in RequestId, CommandNext(r), UNCHANGED portVars
      PROVE  GuestInv'
  BY <1>3, CommandKeeps
<1>4. CASE UNCHANGED guestVars
  <2>1. UNCHANGED vars /\ UNCHANGED portVars
    BY <1>4 DEF guestVars
  <2>2. UNCHANGED <<requests, responses, responsesOpen, session, orch, held, sent, answered,
                    inbound, reader, unsent, writer, unwritten, opens, stale, connected, connects>>
    BY <2>1 DEF vars, ioVars, orchVars, histVars, portVars, hostVars, readerVars, writerVars, openVars
  <2>3. UNCHANGED <<supervisor, via, channel>> /\ UNCHANGED mapVars
    BY <2>1 DEF vars, taskVars, spawnVars, processVars, outputVars, superVars, orchVars, mapVars
  <2>4. IInv' /\ MapInv'
    BY <2>1, <2>3, StepInvariant, MapUnchanged DEF Ports
  <2>5. LiveIds' = LiveIds /\ \A q \in RequestId : Started(q)' <=> Started(q)
    BY <2>3 DEF LiveIds, Live, Started
  <2>6. PortStream' = PortStream /\ InForce' = InForce
    BY <2>2 DEF PortStream, Behind, Written, Waits, InForce
  <2>7. Older' \subseteq Older
    BY <2>5, <2>6 DEF Older
  <2>8. Ports' /\ Clean'
    BY <2>2, <2>4, <2>5 DEF Ports, PortTypes, WriterGone, OrchGone, Clean
  <2>9. Numbers'
    BY <2>2, <2>7, NumbersStill
  <2>10. Barred(PortStream', LiveIds', InForce')
    BY <2>5, <2>6 DEF PortBarred
  <2> QED
    BY <2>8, <2>9, <2>10, PortBarredIs
<1> QED
  BY <1>1, <1>2, <1>3, <1>4 DEF GuestNext, PortStep, AgentNext

(* The invariant holds throughout every behaviour. *)
LEMMA GuestAlways == GuestSpec => []GuestInv
BY GuestStarts, GuestStep, PTL DEF GuestSpec

(* However often the port is lost and opened again, and whatever commands  *)
(* of a lost port still run and write: nothing that waits to be sent to    *)
(* the host answers a request that was not read from the port it goes to.  *)
THEOREM PortIsCleanHolds == GuestSpec => []PortIsClean
<1>1. ASSUME GuestInv PROVE PortIsClean
  <2>1. GuestTypeOK
    BY <1>1 DEF GuestInv, Ports, IInv, Types, PortTypes, GuestTypeOK
  <2>2. ASSUME NEW i \in DOMAIN messages, messages[i].type = "GuestResponse"
        PROVE  messages[i].response.id > stale
    <3>1. OfTask(messages[i]) /\ messages[i] \in OrchestratorMessage
      BY <1>1, <2>2 DEF GuestInv, Ports, MapInv, MessagesOfTasks, IInv, Types, TypeOK
    <3>2. messages[i].response.id \in RequestId
      BY <2>2, <3>1, MessageFields DEF AgentPacket
    <3>3. messages[i].response.id \in LiveIds
      BY <2>2, <3>1, <3>2 DEF OfTask, IsAnswer, LiveIds, Live
    <3> QED
      BY <1>1, <3>3 DEF GuestInv, Clean
  <2> QED
    BY <1>1, <2>1, <2>2 DEF GuestInv, Clean, PortIsClean
<1> QED
  BY <1>1, GuestAlways, PTL

(* Across all ports the agent has had, nothing of an older request reaches *)
(* the host once a new session was announced.                              *)
THEOREM PortBarrierHolds == GuestSpec => []PortBarrier
<1>1. GuestInv => PortBarrier
  BY DEF GuestInv, PortBarred, Barred, PortBarrier, PortStream, Behind, Written, Waits
<1> QED
  BY <1>1, GuestAlways, PTL

(* What the orchestrator and its commands keep while they serve one port,  *)
(* they keep across all of them: the task map, every child that runs, and  *)
(* every group that a kill signals.                                        *)
THEOREM PortsKeepCommands == GuestSpec => [](TaskMapExact /\ NoOrphans /\ SignalsOwnGroup)
<1>1. GuestInv => TaskMapExact /\ NoOrphans /\ SignalsOwnGroup
  BY DEF GuestInv, Ports, MapInv, IInv, KnownAndOwn
<1> QED
  BY <1>1, GuestAlways, PTL
=============================================================================
