------------------------- MODULE OrchestratorProofs -------------------------
(***************************************************************************)
(* Proofs about Orchestrator, in three parts:                              *)
(*   - its variables keep their types, no command outlives the agent's     *)
(*     knowledge of it, and no kill reaches a process that is not of the   *)
(*     killed command's group;                                             *)
(*   - the task map is exact and requests are answered in their order,     *)
(*     behind the barrier of their session;                                *)
(*   - the host receives every line of a command before its end, and in    *)
(*     all just what AgentProtocol promises.                               *)
(***************************************************************************)
EXTENDS OrchestratorRefinement, Integers, FiniteSetTheorems, TLAPS

USE TaskAssumption, OrchestratorAssumption

-----------------------------------------------------------------------------
(* The fields of what is taken from the queues, and what is put into them. *)

(* A request has the fields its handler reads. *)
LEMMA RequestFields ==
  ASSUME NEW p \in AgentPacket(HostRequest)
  PROVE  /\ p.id \in RequestId
         /\ p.content.type = "Initialize" => p.content.session \in Session
         /\ p.content.type \in {"CommandExec", "CommandKill"}
              => p.content.command \in CommandId
BY DEF AgentPacket, HostRequest

(* A message is an answer to pass on, or names a command. *)
LEMMA MessageFields ==
  ASSUME NEW m \in OrchestratorMessage
  PROVE  /\ m.type = "GuestResponse" => m.response \in AgentPacket(GuestResponse)
         /\ m.type = "TaskFinished" => m.command \in CommandId
BY DEF OrchestratorMessage

(* The answers of the handlers are answers of the protocol. *)
LEMMA DirectAnswers ==
  ASSUME NEW r \in RequestId
  PROVE  /\ \A s \in Session :
              [id |-> r, content |-> Initialized(s)] \in AgentPacket(GuestResponse)
         /\ \A ok \in BOOLEAN :
              [id |-> r, content |-> GenericResult(ok)] \in AgentPacket(GuestResponse)
BY DEF AgentPacket, GuestResponse, Initialized, GenericResult

(* So are those of a task, once it has a command. *)
LEMMA TaskMessages ==
  ASSUME NEW r \in RequestId, command[r] \in CommandId
  PROVE  /\ \A s \in CommandStream, n \in Nat :
              GuestResponseMessage(Output(r, s, n)) \in OrchestratorMessage
         /\ GuestResponseMessage(Finished(r)) \in OrchestratorMessage
         /\ TaskFinishedMessage(command[r]) \in OrchestratorMessage
<1>1. \A s \in CommandStream, n \in Nat : Output(r, s, n) \in AgentPacket(GuestResponse)
  BY DEF Output, AgentPacket, GuestResponse
<1>2. Finished(r) \in AgentPacket(GuestResponse)
  BY DEF Finished, AgentPacket, GuestResponse
<1> QED
  BY <1>1, <1>2 DEF GuestResponseMessage, TaskFinishedMessage, OrchestratorMessage

(* The first element of a queue, and what is left of it. *)
LEMMA QueueHead ==
  ASSUME NEW S, NEW q \in Seq(S), q # <<>>
  PROVE  Head(q) \in S /\ Tail(q) \in Seq(S)
OBVIOUS

-----------------------------------------------------------------------------
(* The inductive invariant.  TypeOK is not inductive by itself: that a     *)
(* message of a task is well formed needs the task to have a command, and  *)
(* that an answer is one needs send_response to hold one while it waits.   *)
(* NoOrphans and SignalsOwnGroup need to know that the group id is the     *)
(* child's, and that it is there exactly as long as the child is unreaped. *)

SpawnedKnown ==
  \A r \in RequestId :
    \/ command[r] \in CommandId
    \/ supervisor[r] = "none" /\ \A s \in CommandStream : pump[r][s] = "none"

GroupOfChild ==
  \A r \in RequestId :
    /\ leader[r] \in {"running", "zombie"} <=> groupId[r] # NO_GROUP
    /\ groupId[r] # NO_GROUP => groupId[r] = pid[r]

KnownAndOwn == SpawnedKnown /\ GroupOfChild /\ NoOrphans /\ SignalsOwnGroup

HeldAnswer == orch = "send" => held \in AgentPacket(GuestResponse)

Types == TypeOK /\ HeldAnswer

IInv == Types /\ KnownAndOwn

(* What KnownAndOwn is about. *)
knownVars == <<command, supervisor, pump, leader, kid, groupId, pid, terms, graces, tasks>>

(* An action that touches nothing of that preserves it. *)
LEMMA KnownUnchanged ==
  ASSUME KnownAndOwn, UNCHANGED knownVars
  PROVE  KnownAndOwn'
BY DEF KnownAndOwn, knownVars, SpawnedKnown, GroupOfChild, NoOrphans,
       SignalsOwnGroup, Tracked, Living

(* The initial states: nothing was spawned, no queue holds anything. *)
LEMMA InitInvariant == Init => IInv
<1> SUFFICES ASSUME Init PROVE IInv
  OBVIOUS
<1> USE DEF Init, TaskInit
<1>1. Types
  BY DEF Types, TypeOK, HeldAnswer
<1>2. KnownAndOwn
  BY DEF KnownAndOwn, SpawnedKnown, GroupOfChild, NoOrphans, SignalsOwnGroup
<1> QED
  BY <1>1, <1>2 DEF IInv

-----------------------------------------------------------------------------
(* Each group of actions preserves the types. *)

(* The handlers of requests that spawn and kill nothing. *)
LEMMA QuietHandlersType ==
  ASSUME IInv, ReInitialize \/ Ping
  PROVE  Types'
<1> DEFINE p == Head(requests)
<1>1. requests # <<>> /\ requests \in Seq(AgentPacket(HostRequest))
  BY DEF IInv, Types, HeldAnswer, TypeOK, ReInitialize, Ping, Request
<1>2. p \in AgentPacket(HostRequest) /\ Tail(requests) \in Seq(AgentPacket(HostRequest))
  BY <1>1, QueueHead
<1>3. p.id \in RequestId
  BY <1>2, RequestFields
<1>4. CASE ReInitialize
  <2>1. session \in Session
    BY <1>2, <1>4, RequestFields DEF ReInitialize, Request
  <2>2. held' \in AgentPacket(GuestResponse) /\ orch' = "send"
    BY <1>3, <1>4, <2>1, DirectAnswers DEF ReInitialize, Answer
  <2> QED
    BY <1>2, <1>4, <2>2 DEF IInv, Types, HeldAnswer, TypeOK, ReInitialize, Request, histVars,
       taskVars, spawnVars, processVars, outputVars, superVars, killVars
<1>5. CASE Ping
  <2>1. held' \in AgentPacket(GuestResponse) /\ orch' = "send"
    BY <1>3, <1>5, DirectAnswers DEF Ping, Answer
  <2> QED
    BY <1>2, <1>5, <2>1 DEF IInv, Types, HeldAnswer, TypeOK, Ping, Request, histVars,
       taskVars, spawnVars, processVars, outputVars, superVars, killVars
<1> QED
  BY <1>4, <1>5

(* tasks.clear() keeps the types of the map and of the kill tasks. *)
LEMMA DropTasksType ==
  ASSUME Types, DropTasks
  PROVE  /\ tasks' \in [CommandId -> RequestId \union {NO_TASK}]
         /\ terms' \in [RequestId -> Nat]
BY DEF Types, TypeOK, DropTasks, KillAll

(* The handlers that kill: a new session, and a kill request. *)
LEMMA KillingHandlersType ==
  ASSUME IInv, Initialize \/ CommandKill
  PROVE  Types'
<1> DEFINE p == Head(requests)
<1>1. requests # <<>> /\ requests \in Seq(AgentPacket(HostRequest))
  BY DEF IInv, Types, HeldAnswer, TypeOK, Initialize, CommandKill, Request
<1>2. p \in AgentPacket(HostRequest) /\ Tail(requests) \in Seq(AgentPacket(HostRequest))
  BY <1>1, QueueHead
<1>3. p.id \in RequestId
  BY <1>2, RequestFields
<1>4. CASE Initialize
  <2>1. session' \in Session
    BY <1>2, <1>4, RequestFields DEF Initialize, Request
  <2>2. held' \in AgentPacket(GuestResponse) /\ orch' = "send"
    BY <1>3, <1>4, <2>1, DirectAnswers DEF Initialize, Answer
  <2>3. messages' \in Seq(OrchestratorMessage) /\ channel' \in Nat
    BY <1>4 DEF IInv, Types, HeldAnswer, TypeOK, Initialize, DropMessages
  <2>4. /\ tasks' \in [CommandId -> RequestId \union {NO_TASK}]
        /\ terms' \in [RequestId -> Nat]
    BY <1>4, DropTasksType DEF IInv, Initialize
  <2> QED
    BY <1>2, <1>4, <2>1, <2>2, <2>3, <2>4 DEF IInv, Types, HeldAnswer, TypeOK, Initialize, Request,
       histVars, spawnVars, processVars, outputVars, superVars
<1>5. CASE CommandKill
  <2>1. held' \in AgentPacket(GuestResponse) /\ orch' = "send"
    BY <1>3, <1>5, DirectAnswers DEF CommandKill, Answer
  <2>2. terms' \in [RequestId -> Nat]
    BY <1>5 DEF IInv, Types, HeldAnswer, TypeOK, CommandKill, KillAll
  <2> QED
    BY <1>2, <1>5, <2>1, <2>2 DEF IInv, Types, HeldAnswer, TypeOK, CommandKill, Request,
       histVars, spawnVars, processVars, outputVars, superVars
<1> QED
  BY <1>4, <1>5

(* Task::spawn gives every part of the new task a value of its type. *)
LEMMA SpawnType ==
  ASSUME Types, NEW r \in RequestId, NEW c \in CommandId, Spawn(r, c)
  PROVE  /\ command' \in [RequestId -> CommandId \union {NO_COMMAND}]
         /\ via' \in [RequestId -> Nat]
         /\ pid' \in [RequestId -> Pid \union {NO_GROUP}]
         /\ groupId' \in [RequestId -> Pid \union {NO_GROUP}]
         /\ leader' \in [RequestId -> {"none", "running", "zombie", "reaped"}]
         /\ kid' \in [RequestId -> {"gone", "piped", "quiet"}]
         /\ pump' \in [RequestId -> [CommandStream -> {"none", "read", "send", "done"}]]
         /\ supervisor' \in [RequestId -> {"none", "drain", "report", "release", "done"}]
         /\ written' = written /\ taken' = taken
<1>1. PICK p \in Pid : pid' = [pid EXCEPT ![r] = p] /\ groupId' = [groupId EXCEPT ![r] = p]
  BY DEF Spawn
<1>2. /\ pid' \in [RequestId -> Pid \union {NO_GROUP}]
      /\ groupId' \in [RequestId -> Pid \union {NO_GROUP}]
  BY <1>1 DEF Types, TypeOK
<1>3. PICK k \in KidKinds : kid' = [kid EXCEPT ![r] = k]
  BY DEF Spawn
<1>4. kid' \in [RequestId -> {"gone", "piped", "quiet"}]
  BY <1>3 DEF Types, TypeOK
<1>5. /\ command' \in [RequestId -> CommandId \union {NO_COMMAND}]
      /\ via' \in [RequestId -> Nat]
      /\ leader' \in [RequestId -> {"none", "running", "zombie", "reaped"}]
  BY DEF Types, TypeOK, Spawn
<1>6. pump' \in [RequestId -> [CommandStream -> {"none", "read", "send", "done"}]]
  BY DEF Types, TypeOK, Spawn
<1>7. supervisor' \in [RequestId -> {"none", "drain", "report", "release", "done"}]
  BY DEF Types, TypeOK, Spawn
<1> QED
  BY <1>2, <1>4, <1>5, <1>6, <1>7 DEF Spawn

(* handle_command_exec, the command spawned or refused. *)
LEMMA CommandExecType ==
  ASSUME IInv, CommandExec
  PROVE  Types'
<1> DEFINE p == Head(requests)
           c == p.content.command
<1>1. requests # <<>> /\ requests \in Seq(AgentPacket(HostRequest))
  BY DEF IInv, Types, HeldAnswer, TypeOK, CommandExec, Request
<1>2. p \in AgentPacket(HostRequest) /\ Tail(requests) \in Seq(AgentPacket(HostRequest))
  BY <1>1, QueueHead
<1>3. p.id \in RequestId /\ c \in CommandId
  BY <1>2, RequestFields DEF CommandExec, Request
<1>4. held' \in AgentPacket(GuestResponse) /\ orch' = "send"
  BY <1>3, DirectAnswers DEF CommandExec, Answer
<1>5. CASE /\ tasks[c] = NO_TASK /\ Spawn(p.id, c)
           /\ tasks' = [tasks EXCEPT ![c] = p.id]
  <2>1. tasks' \in [CommandId -> RequestId \union {NO_TASK}]
    BY <1>3, <1>5 DEF IInv, Types, HeldAnswer, TypeOK
  <2> HIDE DEF p, c
  <2> QED
    BY <1>2, <1>3, <1>4, <1>5, <2>1, SpawnType DEF IInv, Types, HeldAnswer, TypeOK, CommandExec,
       Request, histVars, killVars, p
<1>6. CASE UNCHANGED <<tasks, spawnVars, processVars, outputVars, superVars>>
  BY <1>2, <1>4, <1>6 DEF IInv, Types, HeldAnswer, TypeOK, CommandExec, Request, histVars,
     spawnVars, processVars, outputVars, superVars, killVars
<1> QED
  BY <1>5, <1>6 DEF CommandExec

(* handle_message: an answer passed on, or a task released. *)
LEMMA MessageHandlersType ==
  ASSUME IInv, PassOn \/ RemoveTask
  PROVE  Types'
<1> DEFINE m == Head(messages)
<1>1. messages # <<>> /\ messages \in Seq(OrchestratorMessage)
  BY DEF IInv, Types, HeldAnswer, TypeOK, PassOn, RemoveTask
<1>2. m \in OrchestratorMessage /\ Tail(messages) \in Seq(OrchestratorMessage)
  BY <1>1, QueueHead
<1>3. CASE PassOn
  <2>1. m.response \in AgentPacket(GuestResponse)
    BY <1>2, <1>3, MessageFields DEF PassOn
  <2>2. held' \in AgentPacket(GuestResponse) /\ orch' = "send"
    BY <1>3, <2>1 DEF PassOn, Answer, AgentPacket
  <2> QED
    BY <1>2, <1>3, <2>2 DEF IInv, Types, HeldAnswer, TypeOK, PassOn, histVars, ioVars,
       taskVars, spawnVars, processVars, outputVars, superVars, killVars
<1>4. CASE RemoveTask
  <2>1. m.command \in CommandId
    BY <1>2, <1>4, MessageFields DEF RemoveTask
  <2>2. /\ tasks' \in [CommandId -> RequestId \union {NO_TASK}]
        /\ terms' \in [RequestId -> Nat]
    BY <1>4, <2>1 DEF IInv, Types, HeldAnswer, TypeOK, RemoveTask, KillAll
  <2> QED
    BY <1>2, <1>4, <2>2 DEF IInv, Types, HeldAnswer, TypeOK, RemoveTask, histVars, ioVars,
       spawnVars, processVars, outputVars, superVars
<1> QED
  BY <1>3, <1>4

(* send_response past its await, and the end of the orchestrator. *)
LEMMA SendBreakType ==
  ASSUME IInv, Send \/ Break
  PROVE  Types'
<1>1. CASE Send
  <2>1. responses' \in Seq(AgentPacket(GuestResponse))
    BY <1>1 DEF IInv, Types, HeldAnswer, TypeOK, Send
  <2> QED
    BY <1>1, <2>1 DEF IInv, Types, HeldAnswer, TypeOK, Send, histVars,
       taskVars, spawnVars, processVars, outputVars, superVars, killVars
<1>2. CASE Break
  <2>1. /\ tasks' \in [CommandId -> RequestId \union {NO_TASK}]
        /\ terms' \in [RequestId -> Nat]
    BY <1>2, DropTasksType DEF IInv, Break
  <2> QED
    BY <1>2, <2>1 DEF IInv, Types, HeldAnswer, TypeOK, Break, DropMessages, histVars,
       spawnVars, processVars, outputVars, superVars
<1> QED
  BY <1>1, <1>2

(* The ends of the channels. *)
LEMMA PortType ==
  ASSUME IInv, PortNext
  PROVE  Types'
<1> USE DEF IInv, Types, HeldAnswer, TypeOK, orchVars, taskVars, spawnVars,
            processVars, outputVars, superVars, killVars
<1>1. CASE ReaderQueues
  <2>1. PICK content \in HostRequest :
          requests' = Append(requests, [id |-> sent', content |-> content])
    BY <1>1 DEF ReaderQueues
  <2>2. sent' \in RequestId /\ sent' \in Nat
    BY <1>1 DEF ReaderQueues
  <2>3. [id |-> sent', content |-> content] \in AgentPacket(HostRequest)
    BY <2>2 DEF AgentPacket
  <2>4. requests' \in Seq(AgentPacket(HostRequest))
    BY <2>1, <2>3
  <2> QED
    BY <1>1, <2>2, <2>4 DEF ReaderQueues
<1>2. CASE ReaderEnds
  BY <1>2 DEF ReaderEnds, histVars
<1>3. CASE WriterTakes
  <2>1. /\ Head(responses) \in AgentPacket(GuestResponse)
        /\ responses' \in Seq(AgentPacket(GuestResponse))
    BY <1>3, QueueHead DEF WriterTakes
  <2>2. answered' \in Seq(AgentPacket(GuestResponse))
    BY <1>3, <2>1 DEF WriterTakes
  <2> QED
    BY <1>3, <2>1, <2>2 DEF WriterTakes
<1>4. CASE WriterEnds
  <2>1. responses' \in Seq(AgentPacket(GuestResponse))
    BY <1>4 DEF WriterEnds
  <2> QED
    BY <1>4, <2>1 DEF WriterEnds, histVars
<1> QED
  BY <1>1, <1>2, <1>3, <1>4 DEF PortNext

(* A task that sends has a command, so what it sends is a message. *)
LEMMA SenderType ==
  ASSUME IInv, NEW r \in RequestId, command[r] \in CommandId,
         NEW m, m \in OrchestratorMessage, messages' = Append(messages, m)
  PROVE  messages' \in Seq(OrchestratorMessage)
BY DEF IInv, Types, TypeOK

(* The pumps, one stream of one task. *)
LEMMA PumpType ==
  ASSUME IInv, NEW r \in RequestId, NEW s \in CommandStream,
         PumpStep(r, s), UNCHANGED restVars
  PROVE  Types'
<1> USE DEF IInv, Types, HeldAnswer, TypeOK, restVars, ioVars, orchVars, histVars,
            spawnVars, processVars, superVars, killVars
<1>1. CASE PumpReads(r, s)
  <2>1. /\ taken' \in [RequestId -> [CommandStream -> Nat]]
        /\ pump' \in [RequestId -> [CommandStream -> {"none", "read", "send", "done"}]]
    BY <1>1 DEF PumpReads
  <2> QED
    BY <1>1, <2>1 DEF PumpReads
<1>2. CASE PumpEnds(r, s)
  BY <1>2 DEF PumpEnds
<1>3. CASE PumpSends(r, s)
  <2>1. command[r] \in CommandId
    BY <1>3 DEF PumpSends, KnownAndOwn, SpawnedKnown
  <2>2. taken[r][s] \in Nat
    OBVIOUS
  <2>3. GuestResponseMessage(Output(r, s, taken[r][s])) \in OrchestratorMessage
    BY <2>1, <2>2, TaskMessages
  <2>4. messages' \in Seq(OrchestratorMessage)
    BY <1>3, <2>1, <2>3, SenderType DEF PumpSends
  <2>5. ASSUME NEW q \in {"read", "done"}
        PROVE  [pump EXCEPT ![r][s] = q]
                 \in [RequestId -> [CommandStream -> {"none", "read", "send", "done"}]]
    OBVIOUS
  <2>6. pump' \in [RequestId -> [CommandStream -> {"none", "read", "send", "done"}]]
    BY ONLY <1>3, <2>5 DEF PumpSends
  <2> QED
    BY <1>3, <2>4, <2>6 DEF PumpSends
<1> QED
  BY <1>1, <1>2, <1>3 DEF PumpStep

(* The supervisor. *)
LEMMA SuperType ==
  ASSUME IInv, NEW r \in RequestId, SuperNext(r), UNCHANGED restVars
  PROVE  Types'
<1> USE DEF IInv, Types, HeldAnswer, TypeOK, restVars, ioVars, orchVars, histVars,
            spawnVars, processVars, outputVars, killVars
<1>1. CASE Reap(r)
  BY <1>1 DEF Reap
<1>2. ASSUME NEW from \in {"report", "release"}, NEW to \in {"release", "done"},
             NEW m, command[r] \in CommandId => m \in OrchestratorMessage,
             Report(r, from, m, to)
      PROVE  Types'
  <2>1. command[r] \in CommandId
    BY <1>2 DEF Report, KnownAndOwn, SpawnedKnown
  <2>2. messages' \in Seq(OrchestratorMessage)
    BY <1>2, <2>1, SenderType DEF Report
  <2>3. supervisor' \in [RequestId -> {"none", "drain", "report", "release", "done"}]
    BY <1>2 DEF Report
  <2> QED
    BY <1>2, <2>2, <2>3 DEF Report
<1>3. CASE ReportFinished(r)
  BY <1>2, <1>3, TaskMessages DEF ReportFinished
<1>4. CASE ReportTaskFinished(r)
  BY <1>2, <1>4, TaskMessages DEF ReportTaskFinished
<1> QED
  BY <1>1, <1>3, <1>4 DEF SuperNext

(* The kill tasks, and what the guest kernel does by itself. *)
LEMMA KillKernelType ==
  ASSUME IInv, NEW r \in RequestId, KillNext(r) \/ KernelNext(r), UNCHANGED restVars
  PROVE  Types'
<1> USE DEF IInv, Types, HeldAnswer, TypeOK, restVars, ioVars, orchVars, histVars,
            spawnVars, processVars, outputVars, superVars, killVars
<1>1. ASSUME NEW p, NEW hit, Strike(p, hit)
      PROVE  /\ leader' \in [RequestId -> {"none", "running", "zombie", "reaped"}]
             /\ kid' \in [RequestId -> {"gone", "piped", "quiet"}]
  BY <1>1 DEF Strike
<1>2. CASE KillTerm(r)
  <2>1. /\ leader' \in [RequestId -> {"none", "running", "zombie", "reaped"}]
        /\ kid' \in [RequestId -> {"gone", "piped", "quiet"}]
    BY <1>1, <1>2 DEF KillTerm
  <2>2. terms[r] - 1 \in Nat /\ graces[r] + 1 \in Nat
    BY <1>2 DEF KillTerm
  <2>3. terms' \in [RequestId -> Nat] /\ graces' \in [RequestId -> Nat]
    BY <1>2, <2>2 DEF KillTerm
  <2> QED
    BY <1>2, <2>1, <2>3 DEF KillTerm
<1>3. CASE KillKill(r)
  <2>1. /\ leader' \in [RequestId -> {"none", "running", "zombie", "reaped"}]
        /\ kid' \in [RequestId -> {"gone", "piped", "quiet"}]
    BY <1>1, <1>3 DEF KillKill
  <2>2. graces[r] - 1 \in Nat
    BY <1>3 DEF KillKill
  <2>3. graces' \in [RequestId -> Nat]
    BY <1>3, <2>2 DEF KillKill
  <2> QED
    BY <1>3, <2>1, <2>3 DEF KillKill
<1>4. CASE LeaderExits(r)
  BY <1>4 DEF LeaderExits
<1>5. CASE KidExits(r)
  BY <1>5 DEF KidExits
<1>6. ASSUME NEW s \in CommandStream, WriteLine(r, s)
      PROVE  Types'
  <2>1. written' \in [RequestId -> [CommandStream -> Nat]]
    BY <1>6 DEF WriteLine
  <2> QED
    BY <1>6, <2>1 DEF WriteLine
<1> QED
  BY <1>2, <1>3, <1>4, <1>5, <1>6 DEF KillNext, KernelNext

-----------------------------------------------------------------------------
(* Each group of actions preserves KnownAndOwn. *)

(* Whatever leaves the task map is killed: Drop for Task. *)
LEMMA KnownKilled ==
  ASSUME IInv, NEW R, KillAll(R), Tracked \ R \subseteq Tracked',
         UNCHANGED <<command, supervisor, pump, leader, kid, groupId, pid, graces>>
  PROVE  KnownAndOwn'
<1>1. SpawnedKnown' /\ GroupOfChild' /\ SignalsOwnGroup'
  BY DEF IInv, KnownAndOwn, SpawnedKnown, GroupOfChild, SignalsOwnGroup, Living
<1>2. ASSUME NEW r \in RequestId, leader'[r] = "running"
      PROVE  r \in Tracked' \/ terms'[r] > 0 \/ graces'[r] > 0
  <2>1. terms[r] \in Nat /\ graces[r] \in Nat
    BY DEF IInv, Types, TypeOK
  <2>2. r \in Tracked \/ terms[r] > 0 \/ graces[r] > 0
    BY <1>2 DEF IInv, KnownAndOwn, NoOrphans
  <2>3. terms'[r] = IF r \in R THEN terms[r] + 1 ELSE terms[r]
    BY DEF KillAll
  <2> QED
    BY <2>1, <2>2, <2>3
<1> QED
  BY <1>1, <1>2 DEF KnownAndOwn, NoOrphans

(* A new session, a kill request, a released task, the end of the agent. *)
LEMMA KnownKillers ==
  ASSUME IInv, Initialize \/ CommandKill \/ RemoveTask \/ Break
  PROVE  KnownAndOwn'
<1> USE DEF spawnVars, processVars, outputVars, superVars
<1>1. CASE Initialize
  BY <1>1, KnownKilled DEF Initialize, DropTasks
<1>2. CASE CommandKill
  <2>1. Tracked' = Tracked
    BY <1>2 DEF CommandKill, Tracked
  <2> QED
    BY <1>2, <2>1, KnownKilled DEF CommandKill
<1>3. CASE RemoveTask
  <2> DEFINE c == Head(messages).command
  <2>1. tasks' = [tasks EXCEPT ![c] = NO_TASK] /\ KillAll({tasks[c]} \ {NO_TASK})
    BY <1>3 DEF RemoveTask
  <2> HIDE DEF c
  <2>2. Tracked \ ({tasks[c]} \ {NO_TASK}) \subseteq Tracked'
    BY <2>1 DEF Tracked, IInv, Types, TypeOK
  <2> QED
    BY <1>3, <2>1, <2>2, KnownKilled DEF RemoveTask
<1>4. CASE Break
  BY <1>4, KnownKilled DEF Break, DropTasks
<1> QED
  BY <1>1, <1>2, <1>3, <1>4

(* A spawned command is tracked, and its pid is no group in use. *)
LEMMA KnownSpawned ==
  ASSUME IInv, NEW r \in RequestId, NEW c \in CommandId, Spawn(r, c),
         tasks[c] = NO_TASK, tasks' = [tasks EXCEPT ![c] = r], UNCHANGED killVars
  PROVE  KnownAndOwn'
<1>1. PICK p \in Pid : /\ ~GroupExists(p)
                       /\ pid' = [pid EXCEPT ![r] = p]
                       /\ groupId' = [groupId EXCEPT ![r] = p]
  BY DEF Spawn
<1>2. PICK k \in KidKinds : kid' = [kid EXCEPT ![r] = k]
  BY DEF Spawn
<1>3. /\ leader' = [leader EXCEPT ![r] = "running"]
      /\ command' = [command EXCEPT ![r] = c]
      /\ pump' = [pump EXCEPT ![r] = [s \in CommandStream |-> "read"]]
      /\ supervisor' = [supervisor EXCEPT ![r] = "drain"]
  BY DEF Spawn
<1> USE DEF IInv, Types, TypeOK
<1>4. SpawnedKnown'
  BY <1>3 DEF KnownAndOwn, SpawnedKnown
<1>5. p # NO_GROUP
  BY <1>1
<1>6. GroupOfChild'
  BY <1>1, <1>3, <1>5 DEF KnownAndOwn, GroupOfChild
<1>7. NoOrphans'
  <2>1. Tracked \subseteq Tracked' /\ r \in Tracked'
    BY DEF Tracked
  <2> QED
    BY <1>3, <2>1 DEF KnownAndOwn, NoOrphans, killVars
<1>8. SignalsOwnGroup'
  <2> SUFFICES ASSUME NEW a \in RequestId, NEW b \in RequestId, a # b,
                      groupId'[a] # NO_GROUP, pid'[b] = groupId'[a]
               PROVE  leader'[b] \notin {"running", "zombie"} /\ kid'[b] \notin Living
    BY DEF SignalsOwnGroup, Living
  <2>1. CASE a = r
    <3>1. pid[b] = p /\ leader'[b] = leader[b] /\ kid'[b] = kid[b]
      BY <1>1, <1>2, <1>3, <2>1
    <3> QED
      BY <1>1, <3>1 DEF GroupExists
  <2>2. CASE a # r /\ b = r
    <3>1. groupId[a] = p /\ groupId[a] # NO_GROUP
      BY <1>1, <2>2
    <3>2. pid[a] = p /\ leader[a] \in {"running", "zombie"}
      BY <3>1 DEF KnownAndOwn, GroupOfChild
    <3> QED
      BY <1>1, <3>2 DEF GroupExists
  <2>3. CASE a # r /\ b # r
    BY <1>1, <1>2, <1>3, <2>3 DEF KnownAndOwn, SignalsOwnGroup, Living
  <2> QED
    BY <2>1, <2>2, <2>3
<1> QED
  BY <1>4, <1>6, <1>7, <1>8 DEF KnownAndOwn

(* handle_command_exec, the command spawned or refused. *)
LEMMA KnownCommandExec ==
  ASSUME IInv, CommandExec
  PROVE  KnownAndOwn'
<1> DEFINE p == Head(requests)
           c == p.content.command
<1>1. requests # <<>> /\ requests \in Seq(AgentPacket(HostRequest))
  BY DEF IInv, Types, TypeOK, CommandExec, Request
<1>2. p \in AgentPacket(HostRequest)
  BY <1>1, QueueHead
<1>3. p.id \in RequestId /\ c \in CommandId
  BY <1>2, RequestFields DEF CommandExec, Request
<1>4. UNCHANGED killVars
  BY DEF CommandExec
<1>5. CASE /\ tasks[c] = NO_TASK /\ Spawn(p.id, c)
           /\ tasks' = [tasks EXCEPT ![c] = p.id]
  <2> HIDE DEF p, c
  <2> QED
    BY <1>3, <1>4, <1>5, KnownSpawned
<1>6. CASE UNCHANGED <<tasks, spawnVars, processVars, outputVars, superVars>>
  BY <1>4, <1>6, KnownUnchanged DEF IInv, knownVars, spawnVars, processVars,
     outputVars, superVars, killVars
<1> QED
  BY <1>5, <1>6 DEF CommandExec

(* What signals and exits do to processes. *)
OnlyEnds ==
  \A q \in RequestId :
    /\ leader'[q] # leader[q] => leader[q] = "running" /\ leader'[q] = "zombie"
    /\ kid'[q] # kid[q] => kid'[q] = "gone"

(* Signals and exits turn a running child into a zombie and end            *)
(* descendants; nothing but the knowledge of the child can get lost then.  *)
LEMMA KnownStruck ==
  ASSUME IInv, OnlyEnds, NoOrphans',
         UNCHANGED <<command, supervisor, pump, groupId, pid, tasks>>
  PROVE  KnownAndOwn'
<1>1. SpawnedKnown' /\ GroupOfChild'
  BY DEF IInv, KnownAndOwn, SpawnedKnown, GroupOfChild, OnlyEnds
<1>2. SignalsOwnGroup'
  BY DEF IInv, KnownAndOwn, SignalsOwnGroup, Living, OnlyEnds
<1> QED
  BY <1>1, <1>2 DEF KnownAndOwn

(* kill(), SIGTERM: while the child is unreaped its group is there to be   *)
(* signalled, so that SIGKILL is due for a child that runs on.             *)
LEMMA KnownKillTerm ==
  ASSUME IInv, NEW r \in RequestId, KillTerm(r), UNCHANGED tasks
  PROVE  KnownAndOwn'
<1> USE DEF spawnVars, processVars, outputVars, superVars
<1>1. terms[r] \in Nat /\ graces[r] \in Nat
  BY DEF IInv, Types, TypeOK
<1>2. /\ leader[r] = "running" => Signalled(r)
      /\ NoOrphans
  BY DEF IInv, KnownAndOwn, GroupOfChild, NoOrphans, Signalled, GroupExists
<1>3. terms' = [terms EXCEPT ![r] = @ - 1]
  BY DEF KillTerm
<1>4. CASE Signalled(r) /\ graces' = [graces EXCEPT ![r] = @ + 1]
            /\ \E hit \in SUBSET {"leader", "kid"} : Strike(groupId[r], hit)
  <2>1. OnlyEnds
    BY <1>4 DEF Strike, OnlyEnds
  <2>2. graces'[r] > 0 /\ \A q \in RequestId \ {r} : terms'[q] = terms[q] /\ graces'[q] = graces[q]
    BY <1>1, <1>3, <1>4 DEF IInv, Types, TypeOK
  <2>3. NoOrphans'
    BY <1>2, <2>1, <2>2 DEF NoOrphans, OnlyEnds, Tracked
  <2> QED
    BY <2>1, <2>3, KnownStruck DEF KillTerm
<1>5. CASE ~Signalled(r) /\ UNCHANGED <<processVars, graces>>
  <2>1. \A q \in RequestId \ {r} : terms'[q] = terms[q]
    BY <1>3 DEF IInv, Types, TypeOK
  <2>2. NoOrphans'
    BY <1>2, <1>5, <2>1 DEF NoOrphans, Tracked
  <2>3. OnlyEnds
    BY <1>5 DEF OnlyEnds
  <2> QED
    BY <1>5, <2>2, <2>3, KnownStruck DEF KillTerm
<1> QED
  BY <1>4, <1>5 DEF KillTerm

(* kill(), SIGKILL: a child still unreaped does not run on. *)
LEMMA KnownKillKill ==
  ASSUME IInv, NEW r \in RequestId, KillKill(r), UNCHANGED tasks
  PROVE  KnownAndOwn'
<1> USE DEF spawnVars, processVars, outputVars, superVars
<1>1. /\ leader[r] = "running" => Signalled(r) /\ groupId[r] = pid[r]
      /\ NoOrphans
  BY DEF IInv, KnownAndOwn, GroupOfChild, NoOrphans, Signalled, GroupExists
<1>2. \A q \in RequestId \ {r} : graces'[q] = graces[q]
  BY DEF KillKill, IInv, Types, TypeOK
<1>3. /\ leader'[r] # "running"
      /\ OnlyEnds
  <2>1. CASE Signalled(r) /\ Strike(groupId[r], {"leader", "kid"})
    BY <1>1, <2>1 DEF Strike, OnlyEnds
  <2>2. CASE ~Signalled(r) /\ UNCHANGED processVars
    BY <1>1, <2>2 DEF OnlyEnds
  <2> QED
    BY <2>1, <2>2 DEF KillKill
<1>4. NoOrphans'
  BY <1>1, <1>2, <1>3 DEF KillKill, NoOrphans, OnlyEnds, Tracked
<1> QED
  BY <1>3, <1>4, KnownStruck DEF KillKill

(* Every other step of a task: its kernel, its pumps, its supervisor. *)
LEMMA KnownTaskSteps ==
  ASSUME IInv, NEW r \in RequestId, PumpNext(r) \/ SuperNext(r) \/ KernelNext(r),
         UNCHANGED tasks
  PROVE  KnownAndOwn'
<1> USE DEF spawnVars, processVars, superVars, killVars
<1>1. ASSUME SpawnedKnown', UNCHANGED <<leader, kid, groupId, pid, terms, graces>>
      PROVE  KnownAndOwn'
  BY <1>1 DEF IInv, KnownAndOwn, GroupOfChild, NoOrphans, SignalsOwnGroup, Tracked, Living
<1>2. ASSUME NEW s \in CommandStream, PumpStep(r, s)
      PROVE  KnownAndOwn'
  <2>1. /\ pump[r][s] # "none" /\ UNCHANGED <<command, supervisor>>
        /\ \A q \in RequestId \ {r} : pump'[q] = pump[q]
    BY <1>2 DEF PumpStep, PumpReads, PumpEnds, PumpSends, IInv, Types, TypeOK
  <2>2. SpawnedKnown'
    BY <2>1 DEF IInv, KnownAndOwn, SpawnedKnown
  <2> QED
    BY <1>1, <1>2, <2>2 DEF PumpStep, PumpReads, PumpEnds, PumpSends
<1>3. CASE Reap(r)
  <2>1. /\ leader' = [leader EXCEPT ![r] = "reaped"]
        /\ groupId' = [groupId EXCEPT ![r] = NO_GROUP]
        /\ supervisor[r] = "drain" /\ supervisor' = [supervisor EXCEPT ![r] = "report"]
        /\ UNCHANGED <<command, pump, kid, pid, terms, graces>>
    BY <1>3 DEF Reap, outputVars
  <2>2. leader'[r] = "reaped" /\ groupId'[r] = NO_GROUP
    BY <2>1 DEF IInv, Types, TypeOK
  <2>3. \A q \in RequestId \ {r} : /\ leader'[q] = leader[q] /\ groupId'[q] = groupId[q]
                                   /\ supervisor'[q] = supervisor[q]
    BY <2>1 DEF IInv, Types, TypeOK
  <2>4. SpawnedKnown'
    BY <2>1, <2>3 DEF IInv, KnownAndOwn, SpawnedKnown
  <2>5. GroupOfChild'
    BY <2>1, <2>2, <2>3 DEF IInv, KnownAndOwn, GroupOfChild
  <2>6. NoOrphans'
    BY <2>1, <2>2, <2>3 DEF IInv, KnownAndOwn, NoOrphans, Tracked
  <2>7. SignalsOwnGroup'
    BY <2>1 DEF IInv, Types, TypeOK, KnownAndOwn, SignalsOwnGroup, Living
  <2> QED
    BY <2>4, <2>5, <2>6, <2>7 DEF KnownAndOwn
<1>4. ASSUME NEW from \in {"report", "release"}, NEW m, NEW to, Report(r, from, m, to)
      PROVE  KnownAndOwn'
  <2>1. /\ supervisor[r] # "none" /\ UNCHANGED <<command, pump>>
        /\ \A q \in RequestId \ {r} : supervisor'[q] = supervisor[q]
    BY <1>4 DEF Report, outputVars, IInv, Types, TypeOK
  <2>2. SpawnedKnown'
    BY <2>1 DEF IInv, KnownAndOwn, SpawnedKnown
  <2> QED
    BY <1>1, <1>4, <2>2 DEF Report
<1>5. CASE LeaderExits(r) \/ KidExits(r)
  <2>1. /\ OnlyEnds
        /\ UNCHANGED <<command, supervisor, pump, groupId, pid, terms, graces>>
    BY <1>5 DEF OnlyEnds, LeaderExits, KidExits, outputVars, IInv, Types, TypeOK
  <2>2. NoOrphans'
    BY <2>1 DEF IInv, KnownAndOwn, NoOrphans, OnlyEnds, Tracked
  <2> QED
    BY <2>1, <2>2, KnownStruck
<1>6. ASSUME NEW s \in CommandStream, WriteLine(r, s)
      PROVE  KnownAndOwn'
  BY <1>6, KnownUnchanged DEF WriteLine, IInv, knownVars
<1> QED
  BY <1>2, <1>3, <1>4, <1>5, <1>6 DEF PumpNext, SuperNext, KernelNext,
     ReportFinished, ReportTaskFinished

(* What spawns and kills nothing and reaches no process. *)
LEMMA KnownQuiet ==
  ASSUME IInv, ReInitialize \/ Ping \/ PassOn \/ Send \/ PortNext
  PROVE  KnownAndOwn'
<1>1. UNCHANGED knownVars
  BY DEF knownVars, ReInitialize, Ping, PassOn, Send, PortNext, ReaderQueues,
     ReaderEnds, WriterTakes, WriterEnds, orchVars, taskVars, spawnVars,
     processVars, outputVars, superVars, killVars
<1> QED
  BY <1>1, KnownUnchanged DEF IInv

-----------------------------------------------------------------------------
(* Every step preserves the invariant. *)
LEMMA StepInvariant == IInv /\ [Next]_vars => IInv'
<1> SUFFICES ASSUME IInv, [Next]_vars PROVE IInv'
  OBVIOUS
<1>1. CASE OrchNext
  <2>1. Types'
    BY <1>1, QuietHandlersType, KillingHandlersType, CommandExecType,
       MessageHandlersType, SendBreakType DEF OrchNext, Handle
  <2>2. KnownAndOwn'
    BY <1>1, KnownQuiet, KnownKillers, KnownCommandExec DEF OrchNext, Handle
  <2> QED
    BY <2>1, <2>2 DEF IInv
<1>2. CASE PortNext
  BY <1>2, PortType, KnownQuiet DEF IInv
<1>3. ASSUME NEW r \in RequestId, CommandNext(r)
      PROVE  IInv'
  <2>1. TaskNext(r) /\ UNCHANGED restVars /\ UNCHANGED tasks
    BY <1>3 DEF CommandNext, restVars, orchVars
  <2>2. CASE PumpNext(r)
    BY <2>1, <2>2, PumpType, KnownTaskSteps DEF PumpNext, IInv
  <2>3. CASE SuperNext(r)
    BY <2>1, <2>3, SuperType, KnownTaskSteps DEF IInv
  <2>4. CASE KillNext(r)
    BY <2>1, <2>4, KillKernelType, KnownKillTerm, KnownKillKill DEF KillNext, IInv
  <2>5. CASE KernelNext(r)
    BY <2>1, <2>5, KillKernelType, KnownTaskSteps DEF IInv
  <2> QED
    BY <2>1, <2>2, <2>3, <2>4, <2>5 DEF TaskNext
<1>4. CASE UNCHANGED vars
  <2>1. UNCHANGED knownVars
    BY <1>4 DEF vars, knownVars, orchVars, taskVars, spawnVars, processVars,
       outputVars, superVars, killVars
  <2>2. Types'
    BY <1>4 DEF IInv, Types, TypeOK, HeldAnswer, vars, ioVars, orchVars, histVars,
       taskVars, spawnVars, processVars, outputVars, superVars, killVars
  <2> QED
    BY <2>1, <2>2, KnownUnchanged DEF IInv
<1> QED
  BY <1>1, <1>2, <1>3, <1>4 DEF Next

(* The invariant holds throughout every behaviour. *)
LEMMA Invariance == Spec => []IInv
BY InitInvariant, StepInvariant, PTL DEF Spec

(* Every variable keeps its type: in particular each answer that waits in  *)
(* send_response, is queued or was taken by the writer is an answer of the *)
(* protocol, and each message carries the id of a command that was spawned.*)
THEOREM TypeCorrect == Spec => []TypeOK
<1>1. IInv => TypeOK
  BY DEF IInv, Types
<1> QED
  BY <1>1, Invariance, PTL

(* A child that runs is in the task map, or a kill task is still going to  *)
(* signal its group: no replaced session, lost port, released id or kill   *)
(* loses track of a running command (Drop for Task, Task::kill).           *)
THEOREM NoOrphansHolds == Spec => []NoOrphans
<1>1. IInv => NoOrphans
  BY DEF IInv, KnownAndOwn
<1> QED
  BY <1>1, Invariance, PTL

(* The group id a kill reads names the group of its own child, whatever    *)
(* pids the system reuses: it is cleared in the step that reaps the child. *)
THEOREM SignalsOwnGroupHolds == Spec => []SignalsOwnGroup
<1>1. IInv => SignalsOwnGroup
  BY DEF IInv, KnownAndOwn
<1> QED
  BY <1>1, Invariance, PTL

-----------------------------------------------------------------------------
(* The task map and the order of answers: TaskMapExact,                    *)
(* RequestsAnsweredInOrder and FreshSessionBarrier.                        *)

(* A request for which Task::spawn has been called with success. *)
Started(r) == supervisor[r] # "none"

(* A request is taken after all that spawned something.                    *)
Newest(n) == \A r \in RequestId : Started(r) => r < n

(* A request that spawned nothing has nothing of a task. *)
Unstarted ==
  \A r \in RequestId : ~Started(r) =>
    /\ leader[r] = "none" /\ kid[r] = "gone" /\ pid[r] = NO_GROUP
    /\ \A s \in CommandStream : pump[r][s] = "none" /\ written[r][s] = 0 /\ taken[r][s] = 0

(* The map has a task exactly from its spawn to its release. *)
MapFollowsTasks ==
  /\ \A r \in RequestId :
       /\ via[r] <= channel
       /\ Started(r) /\ via[r] = channel /\ supervisor[r] # "done" => tasks[command[r]] = r
  /\ \A c \in CommandId : tasks[c] # NO_TASK =>
       Started(tasks[c]) /\ via[tasks[c]] = channel /\ command[tasks[c]] = c

IsAnswer(m) == m.type = "GuestResponse"

(* What waits in the message channel is of a task of its incarnation. *)
OfTask(m) ==
  IsAnswer(m) =>
    /\ Started(m.response.id) /\ via[m.response.id] = channel
    /\ m.response.content.type \in {"CommandOutput", "CommandFinished"}
    /\ m.response.content.command = command[m.response.id]

MessagesOfTasks == \A i \in DOMAIN messages : OfTask(messages[i])

MapInv == Unstarted /\ MapFollowsTasks /\ MessagesOfTasks /\ TaskMapExact

-----------------------------------------------------------------------------
(* What an element added or taken does to the positions of a queue. *)
LEMMA Appended ==
  ASSUME NEW S, NEW q \in Seq(S), NEW e, NEW t, t = Append(q, e)
  PROVE  /\ Len(q) \in Nat /\ DOMAIN q = 1..Len(q)
         /\ DOMAIN t = 1..(Len(q) + 1)
         /\ \A i \in 1..Len(q) : t[i] = q[i]
         /\ t[Len(q) + 1] = e
OBVIOUS

(* What remains of a queue keeps its order, one position earlier. *)
LEMMA Taken ==
  ASSUME NEW S, NEW q \in Seq(S), q # <<>>
  PROVE  /\ Len(q) \in Nat \ {0} /\ DOMAIN q = 1..Len(q)
         /\ DOMAIN Tail(q) = 1..(Len(q) - 1)
         /\ \A i \in 1..(Len(q) - 1) : Tail(q)[i] = q[i + 1]
         /\ Head(q) = q[1]
OBVIOUS

-----------------------------------------------------------------------------
(* The variables MapInv is about. *)
mapVars == <<messages, channel, spawnVars, processVars, outputVars, supervisor, tasks>>

(* MapInv is about mapVars only. *)
LEMMA MapUnchanged ==
  ASSUME MapInv, UNCHANGED mapVars
  PROVE  MapInv'
BY DEF MapInv, mapVars, spawnVars, processVars, outputVars, Unstarted, Started, MapFollowsTasks,
   MessagesOfTasks, OfTask, TaskMapExact, TaskFinishedMessage

(* tasks.clear() and a new channel: nobody is left who could send. *)
LEMMA MapDropped ==
  ASSUME IInv, MapInv, DropTasks, DropMessages,
         UNCHANGED <<spawnVars, processVars, outputVars, supervisor>>
  PROVE  MapInv'
<1>1. Unstarted'
  BY DEF MapInv, Unstarted, Started, spawnVars, processVars, outputVars
<1>2. messages' = <<>> /\ channel' = channel + 1 /\ tasks' = [c \in CommandId |-> NO_TASK]
  BY DEF DropTasks, DropMessages
<1>3. \A r \in RequestId : via'[r] \in Nat /\ via'[r] < channel' /\ channel \in Nat
  BY <1>2 DEF IInv, Types, TypeOK, MapInv, MapFollowsTasks, spawnVars
<1>4. MapFollowsTasks'
  BY <1>2, <1>3 DEF MapFollowsTasks
<1>5. MessagesOfTasks' /\ TaskMapExact'
  BY <1>2 DEF MessagesOfTasks, TaskMapExact
<1> QED
  BY <1>1, <1>4, <1>5 DEF MapInv


(* What is entered for one element leaves the others. *)
LEMMA Entered ==
  ASSUME NEW S, NEW T, NEW f \in [S -> T], NEW x \in S, NEW e, NEW g, g = [f EXCEPT ![x] = e]
  PROVE  g[x] = e /\ \A y \in S : y # x => g[y] = f[y]
OBVIOUS

(* Task::spawn: only the spawned task changes. *)
LEMMA SpawnEffect ==
  ASSUME Types, NEW r \in RequestId, NEW c \in CommandId, Spawn(r, c)
  PROVE  /\ \A q \in RequestId : q # r =>
              /\ supervisor'[q] = supervisor[q] /\ via'[q] = via[q] /\ command'[q] = command[q]
              /\ leader'[q] = leader[q] /\ kid'[q] = kid[q] /\ pid'[q] = pid[q]
              /\ pump'[q] = pump[q]
         /\ supervisor'[r] = "drain" /\ via'[r] = channel /\ command'[r] = c
         /\ \A s \in CommandStream : pump'[r][s] = "read"
         /\ written' = written /\ taken' = taken
<1>1. /\ supervisor' = [supervisor EXCEPT ![r] = "drain"] /\ via' = [via EXCEPT ![r] = channel]
      /\ command' = [command EXCEPT ![r] = c] /\ leader' = [leader EXCEPT ![r] = "running"]
      /\ pump' = [pump EXCEPT ![r] = [s \in CommandStream |-> "read"]]
      /\ written' = written /\ taken' = taken
      /\ \E p \in Pid : pid' = [pid EXCEPT ![r] = p]
      /\ \E k \in KidKinds : kid' = [kid EXCEPT ![r] = k]
  BY DEF Spawn
<1>2. supervisor'[r] = "drain" /\ \A q \in RequestId : q # r => supervisor'[q] = supervisor[q]
  BY <1>1 DEF Types, TypeOK
<1>3. via'[r] = channel /\ \A q \in RequestId : q # r => via'[q] = via[q]
  BY <1>1 DEF Types, TypeOK
<1>4. command'[r] = c /\ \A q \in RequestId : q # r => command'[q] = command[q]
  BY <1>1 DEF Types, TypeOK
<1>5. \A q \in RequestId : q # r => leader'[q] = leader[q] /\ kid'[q] = kid[q] /\ pid'[q] = pid[q]
  BY <1>1 DEF Types, TypeOK
<1>6. /\ \A s \in CommandStream : pump'[r][s] = "read"
      /\ \A q \in RequestId : q # r => pump'[q] = pump[q]
  BY <1>1 DEF Types, TypeOK
<1> QED
  BY <1>1, <1>2, <1>3, <1>4, <1>5, <1>6

(* What a task that was never spawned has not, it does not get.            *)
LEMMA UnstartedKept ==
  ASSUME Unstarted,
         \A q \in RequestId : ~Started(q)' =>
           /\ ~Started(q)
           /\ leader'[q] = leader[q] /\ kid'[q] = kid[q] /\ pid'[q] = pid[q]
           /\ pump'[q] = pump[q] /\ written'[q] = written[q] /\ taken'[q] = taken[q]
  PROVE  Unstarted'
<1>1. ASSUME NEW q \in RequestId, ~Started(q)'
      PROVE  /\ leader'[q] = "none" /\ kid'[q] = "gone" /\ pid'[q] = NO_GROUP
             /\ \A s \in CommandStream :
                  pump'[q][s] = "none" /\ written'[q][s] = 0 /\ taken'[q][s] = 0
  <2>1. ~Started(q)
    BY <1>1 DEF Started
  <2>2. /\ leader'[q] = leader[q] /\ kid'[q] = kid[q] /\ pid'[q] = pid[q]
        /\ pump'[q] = pump[q] /\ written'[q] = written[q] /\ taken'[q] = taken[q]
    BY <1>1 DEF Started
  <2>3. /\ leader[q] = "none" /\ kid[q] = "gone" /\ pid[q] = NO_GROUP
        /\ \A s \in CommandStream : pump[q][s] = "none" /\ written[q][s] = 0 /\ taken[q][s] = 0
    BY <2>1 DEF Unstarted
  <2> QED
    BY <2>2, <2>3
<1> QED
  BY <1>1 DEF Unstarted, Started

(* Task::spawn of a request that is newer than all tasks so far. *)
LEMMA MapSpawned ==
  ASSUME IInv, MapInv, NEW r \in RequestId, NEW c \in CommandId, Newest(r),
         tasks[c] = NO_TASK, Spawn(r, c), tasks' = [tasks EXCEPT ![c] = r],
         UNCHANGED <<messages, channel>>
  PROVE  MapInv'
<1>1. supervisor[r] = "none"
  BY DEF Newest, Started
<1>2. /\ \A q \in RequestId : q # r =>
           /\ supervisor'[q] = supervisor[q] /\ via'[q] = via[q] /\ command'[q] = command[q]
           /\ leader'[q] = leader[q] /\ kid'[q] = kid[q] /\ pid'[q] = pid[q] /\ pump'[q] = pump[q]
      /\ supervisor'[r] = "drain" /\ via'[r] = channel /\ command'[r] = c
      /\ written' = written /\ taken' = taken
  BY SpawnEffect DEF IInv
<1>3. tasks \in [CommandId -> RequestId \union {NO_TASK}] /\ channel \in Nat
  BY DEF IInv, Types, TypeOK
<1>4. tasks'[c] = r /\ \A d \in CommandId : d # c => tasks'[d] = tasks[d]
  BY <1>3
<1>5. Unstarted'
  <2>1. ASSUME NEW q \in RequestId, ~Started(q)'
        PROVE  q # r /\ ~Started(q)
    BY <1>2, <2>1 DEF Started
  <2>2. \A q \in RequestId : ~Started(q)' =>
          /\ ~Started(q)
          /\ leader'[q] = leader[q] /\ kid'[q] = kid[q] /\ pid'[q] = pid[q]
          /\ pump'[q] = pump[q] /\ written'[q] = written[q] /\ taken'[q] = taken[q]
    BY <1>2, <2>1
  <2> QED
    BY <2>2, UnstartedKept DEF MapInv
<1>6. \A d \in CommandId : tasks[d] # r
  BY <1>1 DEF MapInv, MapFollowsTasks, Started
<1>7. MapFollowsTasks'
  <2>1. ASSUME NEW q \in RequestId
        PROVE  /\ via'[q] <= channel'
               /\ Started(q)' /\ via'[q] = channel' /\ supervisor'[q] # "done"
                    => tasks'[command'[q]] = q
    <3>1. CASE q = r
      BY <1>2, <1>3, <1>4, <3>1
    <3>2. CASE q # r
      <4>1. /\ via[q] <= channel
            /\ Started(q) /\ via[q] = channel /\ supervisor[q] # "done" => tasks[command[q]] = q
        BY DEF MapInv, MapFollowsTasks
      <4>2. Started(q) => command[q] \in CommandId
        BY DEF IInv, KnownAndOwn, SpawnedKnown, Started
      <4>3. q # NO_TASK
        OBVIOUS
      <4> QED
        BY <1>2, <1>4, <3>2, <4>1, <4>2, <4>3 DEF Started
    <3> QED
      BY <3>1, <3>2
  <2>2. ASSUME NEW d \in CommandId, tasks'[d] # NO_TASK
        PROVE  Started(tasks[d])' /\ via'[tasks'[d]] = channel' /\ command'[tasks'[d]] = d
    <3>1. CASE d = c
      BY <1>2, <1>4, <3>1 DEF Started
    <3>2. CASE d # c
      <4>1. tasks'[d] = tasks[d] /\ tasks[d] \in RequestId /\ tasks[d] # r
        BY <1>3, <1>4, <1>6, <2>2, <3>2
      <4>2. Started(tasks[d]) /\ via[tasks[d]] = channel /\ command[tasks[d]] = d
        BY <2>2, <4>1 DEF MapInv, MapFollowsTasks
      <4>3. /\ supervisor'[tasks[d]] = supervisor[tasks[d]] /\ via'[tasks[d]] = via[tasks[d]]
            /\ command'[tasks[d]] = command[tasks[d]]
        BY <1>2, <4>1
      <4> QED
        BY <4>1, <4>2, <4>3 DEF Started
    <3> QED
      BY <3>1, <3>2
  <2> QED
    BY <2>1, <2>2 DEF MapFollowsTasks
<1>8. ASSUME NEW i \in DOMAIN messages PROVE OfTask(messages[i])'
  <2>1. OfTask(messages[i]) /\ messages[i] \in OrchestratorMessage
    BY DEF MapInv, MessagesOfTasks, IInv, Types, TypeOK
  <2>2. IsAnswer(messages[i]) => messages[i].response.id \in RequestId
    BY <2>1, MessageFields DEF IsAnswer, AgentPacket
  <2>3. IsAnswer(messages[i]) => messages[i].response.id # r
    BY <1>1, <2>1 DEF OfTask, Started
  <2> QED
    BY <1>2, <2>1, <2>2, <2>3 DEF OfTask, Started
<1>9. ASSUME NEW d \in CommandId
      PROVE  tasks'[d] # NO_TASK /\ supervisor'[tasks'[d]] = "done"
               <=> tasks[d] # NO_TASK /\ supervisor[tasks[d]] = "done"
  <2>1. CASE d = c
    BY <1>2, <1>4, <2>1
  <2>2. CASE d # c
    <3>1. tasks'[d] = tasks[d] /\ tasks[d] # r
      BY <1>4, <1>6, <2>2
    <3>2. ASSUME tasks[d] # NO_TASK PROVE supervisor'[tasks[d]] = supervisor[tasks[d]]
      <4>1. tasks[d] \in RequestId
        BY <1>3, <3>2
      <4> QED
        BY <1>2, <3>1, <4>1
    <3> QED
      BY <3>1, <3>2
  <2> QED
    BY <2>1, <2>2
<1>10. TaskMapExact'
  BY <1>9 DEF MapInv, TaskMapExact, TaskFinishedMessage
<1>11. MessagesOfTasks'
  BY <1>8 DEF MessagesOfTasks
<1> QED
  BY <1>5, <1>7, <1>10, <1>11 DEF MapInv

(* handle_message takes the first message: a packet is no TaskFinished ... *)
LEMMA MapPassedOn ==
  ASSUME IInv, MapInv, PassOn
  PROVE  MapInv'
<1>1. /\ messages # <<>> /\ messages \in Seq(OrchestratorMessage)
      /\ messages' = Tail(messages) /\ Head(messages).type = "GuestResponse"
      /\ UNCHANGED <<channel, spawnVars, processVars, outputVars, supervisor, tasks>>
  BY DEF PassOn, IInv, Types, TypeOK, taskVars, superVars
<1>2. Unstarted' /\ MapFollowsTasks'
  BY <1>1 DEF MapInv, Unstarted, MapFollowsTasks, Started, spawnVars, processVars, outputVars
<1>3. /\ Len(messages) \in Nat \ {0} /\ DOMAIN messages = 1..Len(messages)
      /\ DOMAIN messages' = 1..(Len(messages) - 1)
      /\ \A i \in 1..(Len(messages) - 1) : messages'[i] = messages[i + 1]
      /\ messages[1].type = "GuestResponse"
  BY <1>1, Taken
<1>4. \A i \in DOMAIN messages' : i + 1 \in DOMAIN messages /\ messages'[i] = messages[i + 1]
  BY <1>3
<1>5. MessagesOfTasks'
  BY <1>1, <1>4 DEF MapInv, MessagesOfTasks, OfTask, Started, spawnVars
<1>6. \A c : messages[1] # TaskFinishedMessage(c)
  BY <1>3 DEF TaskFinishedMessage
<1>7. \A i \in DOMAIN messages : i # 1 => i - 1 \in DOMAIN messages' /\ messages[i] = messages'[i - 1]
  BY <1>3
<1>8. TaskMapExact'
  <2> SUFFICES ASSUME NEW c \in CommandId
               PROVE  LET over == {i \in DOMAIN messages' : messages'[i] = TaskFinishedMessage(c)}
                      IN /\ \A i, j \in over : i = j
                         /\ over # {} <=> tasks[c] # NO_TASK /\ supervisor[tasks[c]] = "done"
    BY <1>1 DEF TaskMapExact, TaskFinishedMessage
  <2> DEFINE over == {i \in DOMAIN messages : messages[i] = TaskFinishedMessage(c)}
  <2>1. /\ \A i, j \in over : i = j
        /\ over # {} <=> tasks[c] # NO_TASK /\ supervisor[tasks[c]] = "done"
    BY DEF MapInv, TaskMapExact
  <2>2. \A i \in DOMAIN messages' : messages'[i] = TaskFinishedMessage(c) => i + 1 \in over
    BY <1>4
  <2>3. \A i \in over : i - 1 \in DOMAIN messages' /\ messages'[i - 1] = TaskFinishedMessage(c)
    BY <1>6, <1>7
  <2>4. \A i \in DOMAIN messages' : i \in Nat
    BY <1>3
  <2> HIDE DEF over
  <2> QED
    BY <2>1, <2>2, <2>3, <2>4
<1> QED
  BY <1>2, <1>5, <1>8 DEF MapInv
(* ... and a TaskFinished is the only one of its command.                  *)
LEMMA MapReleased ==
  ASSUME IInv, MapInv, RemoveTask
  PROVE  MapInv'
<1> DEFINE c == Head(messages).command
<1>1. /\ messages # <<>> /\ messages \in Seq(OrchestratorMessage)
      /\ messages' = Tail(messages) /\ Head(messages).type = "TaskFinished"
      /\ tasks' = [tasks EXCEPT ![c] = NO_TASK]
      /\ UNCHANGED <<channel, spawnVars, processVars, outputVars, supervisor>>
  BY DEF RemoveTask, IInv, Types, TypeOK, superVars
<1>2. /\ Len(messages) \in Nat \ {0} /\ DOMAIN messages = 1..Len(messages)
      /\ DOMAIN messages' = 1..(Len(messages) - 1)
      /\ \A i \in 1..(Len(messages) - 1) : messages'[i] = messages[i + 1]
      /\ Head(messages) = messages[1]
  BY <1>1, Taken
<1>3. c \in CommandId /\ messages[1] = TaskFinishedMessage(c)
  <2>1. Head(messages) \in OrchestratorMessage
    BY <1>1, QueueHead
  <2>2. Head(messages) \in [type : {"TaskFinished"}, command : CommandId]
    BY <1>1, <2>1 DEF OrchestratorMessage
  <2> QED
    BY <1>2, <2>2 DEF TaskFinishedMessage
<1>4. tasks \in [CommandId -> RequestId \union {NO_TASK}]
  BY DEF IInv, Types, TypeOK
<1> HIDE DEF c
<1>5. tasks'[c] = NO_TASK /\ \A d \in CommandId : d # c => tasks'[d] = tasks[d]
  BY <1>1, <1>3, <1>4
<1>6. /\ \A i \in DOMAIN messages' : i \in Nat /\ i + 1 \in DOMAIN messages /\ messages'[i] = messages[i + 1]
      /\ \A i \in DOMAIN messages : i # 1 => i - 1 \in DOMAIN messages' /\ messages'[i - 1] = messages[i]
      /\ 1 \in DOMAIN messages
  BY <1>2
<1>7. supervisor[tasks[c]] = "done"
  BY <1>3, <1>6 DEF MapInv, TaskMapExact
<1>8. Unstarted'
  BY <1>1 DEF MapInv, Unstarted, Started, spawnVars, processVars, outputVars
<1>9. MapFollowsTasks'
  <2>1. ASSUME NEW r \in RequestId
        PROVE  /\ via'[r] <= channel'
               /\ Started(r)' /\ via'[r] = channel' /\ supervisor'[r] # "done"
                    => tasks'[command'[r]] = r
    <3>1. /\ via[r] <= channel
          /\ Started(r) /\ via[r] = channel /\ supervisor[r] # "done" => tasks[command[r]] = r
      BY DEF MapInv, MapFollowsTasks
    <3>2. Started(r) => command[r] \in CommandId
      BY DEF IInv, KnownAndOwn, SpawnedKnown, Started
    <3> QED
      BY <1>1, <1>5, <1>7, <3>1, <3>2 DEF Started, spawnVars
  <2>2. ASSUME NEW d \in CommandId, tasks'[d] # NO_TASK
        PROVE  Started(tasks[d])' /\ via'[tasks'[d]] = channel' /\ command'[tasks'[d]] = d
    <3>1. tasks'[d] = tasks[d]
      BY <1>5, <2>2
    <3>2. Started(tasks[d]) /\ via[tasks[d]] = channel /\ command[tasks[d]] = d
      BY <2>2, <3>1 DEF MapInv, MapFollowsTasks
    <3> QED
      BY <1>1, <3>1, <3>2 DEF Started, spawnVars
  <2> QED
    BY <2>1, <2>2 DEF MapFollowsTasks, Started
<1>10. MessagesOfTasks'
  BY <1>1, <1>6 DEF MapInv, MessagesOfTasks, OfTask, IsAnswer, Started, spawnVars
<1>11. TaskMapExact'
  <2> SUFFICES ASSUME NEW d \in CommandId
               PROVE  LET over == {i \in DOMAIN messages' : messages'[i] = TaskFinishedMessage(d)}
                      IN /\ \A i, j \in over : i = j
                         /\ over # {} <=> tasks'[d] # NO_TASK /\ supervisor[tasks'[d]] = "done"
    BY <1>1 DEF TaskMapExact, TaskFinishedMessage
  <2> DEFINE over == {i \in DOMAIN messages : messages[i] = TaskFinishedMessage(d)}
  <2>1. /\ \A i, j \in over : i = j
        /\ over # {} <=> tasks[d] # NO_TASK /\ supervisor[tasks[d]] = "done"
    BY DEF MapInv, TaskMapExact
  <2>2. \A i \in DOMAIN messages' : messages'[i] = TaskFinishedMessage(d) => i + 1 \in over /\ i + 1 # 1
    BY <1>2, <1>6
  <2>3. CASE d = c
    <3>1. 1 \in over
      BY <1>3, <1>6, <2>3
    <3> HIDE DEF over
    <3> QED
      BY <1>5, <2>1, <2>2, <2>3, <3>1
  <2>4. CASE d # c
    <3>1. TaskFinishedMessage(d) # TaskFinishedMessage(c)
      BY <2>4 DEF TaskFinishedMessage
    <3>2. \A i \in over : i - 1 \in DOMAIN messages' /\ messages'[i - 1] = TaskFinishedMessage(d)
      BY <1>3, <1>6, <3>1
    <3>3. tasks'[d] = tasks[d]
      BY <1>5, <2>4
    <3> HIDE DEF over
    <3>4. \A i, j \in DOMAIN messages' : i + 1 = j + 1 => i = j
      BY <1>6
    <3> QED
      BY <2>1, <2>2, <3>2, <3>3, <3>4
  <2> QED
    BY <2>3, <2>4
<1> QED
  BY <1>8, <1>9, <1>10, <1>11 DEF MapInv

(* The steps of a task that say nothing to the orchestrator. *)
LEMMA MapQuiet ==
  ASSUME MapInv, UNCHANGED <<messages, channel, spawnVars, supervisor, tasks>>,
         \A r \in RequestId : ~Started(r) =>
           UNCHANGED <<leader[r], kid[r], pump[r], written[r], taken[r]>>
  PROVE  MapInv'
<1>1. MapFollowsTasks' /\ MessagesOfTasks' /\ TaskMapExact'
  BY DEF MapInv, MapFollowsTasks, MessagesOfTasks, OfTask, IsAnswer, Started, TaskMapExact,
     TaskFinishedMessage, spawnVars
<1>2. Unstarted'
  BY DEF MapInv, Unstarted, Started, spawnVars
<1> QED
  BY <1>1, <1>2 DEF MapInv

(* A task sends something that is not the end of its being in the map. *)
LEMMA MapSent ==
  ASSUME IInv, MapInv, NEW r \in RequestId, Started(r), via[r] = channel,
         NEW p, p.id = r, p.content.type \in {"CommandOutput", "CommandFinished"},
         p.content.command = command[r],
         messages' = Append(messages, GuestResponseMessage(p)),
         UNCHANGED <<channel, spawnVars, leader, kid, written, taken, tasks>>,
         \A q \in RequestId : q # r => supervisor'[q] = supervisor[q] /\ pump'[q] = pump[q],
         supervisor'[r] # "none", supervisor'[r] = "done" <=> supervisor[r] = "done"
  PROVE  MapInv'
<1>1. /\ Len(messages) \in Nat /\ DOMAIN messages = 1..Len(messages)
      /\ DOMAIN messages' = 1..(Len(messages) + 1)
      /\ \A i \in 1..Len(messages) : messages'[i] = messages[i]
      /\ messages'[Len(messages) + 1] = GuestResponseMessage(p)
  BY Appended DEF IInv, Types, TypeOK
<1>2. \A q \in RequestId : Started(q)' <=> Started(q)
  BY DEF Started
<1>3. Unstarted'
  <2>1. ASSUME NEW q \in RequestId, ~Started(q)'
        PROVE  ~Started(q) /\ pump'[q] = pump[q]
    BY <1>2, <2>1
  <2>2. ASSUME NEW q \in RequestId, ~Started(q)'
        PROVE  /\ leader'[q] = "none" /\ kid'[q] = "gone" /\ pid'[q] = NO_GROUP
               /\ \A s \in CommandStream :
                    pump'[q][s] = "none" /\ written'[q][s] = 0 /\ taken'[q][s] = 0
    BY <2>1, <2>2 DEF MapInv, Unstarted, spawnVars
  <2> QED
    BY <2>2 DEF Unstarted
<1>4. MapFollowsTasks'
  <2>1. ASSUME NEW q \in RequestId
        PROVE  /\ via'[q] <= channel'
               /\ Started(q)' /\ via'[q] = channel' /\ supervisor'[q] # "done"
                    => tasks'[command'[q]] = q
    <3>1. supervisor'[q] # "done" => supervisor[q] # "done"
      OBVIOUS
    <3>2. /\ via[q] <= channel
          /\ Started(q) /\ via[q] = channel /\ supervisor[q] # "done" => tasks[command[q]] = q
      BY DEF MapInv, MapFollowsTasks
    <3> QED
      BY <1>2, <3>1, <3>2 DEF spawnVars
  <2>2. ASSUME NEW c \in CommandId, tasks'[c] # NO_TASK
        PROVE  Started(tasks[c])' /\ via'[tasks'[c]] = channel' /\ command'[tasks'[c]] = c
    <3>1. tasks[c] \in RequestId /\ tasks'[c] = tasks[c]
      BY <2>2 DEF IInv, Types, TypeOK
    <3>2. Started(tasks[c]) /\ via[tasks[c]] = channel /\ command[tasks[c]] = c
      BY <2>2 DEF MapInv, MapFollowsTasks
    <3>3. supervisor'[tasks[c]] # "none"
      BY <1>2, <3>1, <3>2 DEF Started
    <3> QED
      BY <3>1, <3>2, <3>3 DEF Started, spawnVars
  <2> QED
    BY <2>1, <2>2 DEF MapFollowsTasks
<1>5. MessagesOfTasks'
  <2>1. ASSUME NEW i \in DOMAIN messages'
        PROVE  OfTask(messages[i])'
    <3>1. CASE i \in 1..Len(messages)
      <4>1. OfTask(messages[i]) /\ messages[i] \in OrchestratorMessage /\ messages'[i] = messages[i]
        BY <1>1, <3>1 DEF MapInv, MessagesOfTasks, IInv, Types, TypeOK
      <4>2. IsAnswer(messages[i]) => messages[i].response.id \in RequestId
        BY <4>1, MessageFields DEF IsAnswer, AgentPacket
      <4>3. IsAnswer(messages[i]) => supervisor'[messages[i].response.id] # "none"
        BY <1>2, <4>1, <4>2 DEF OfTask, Started
      <4> QED
        BY <4>1, <4>3 DEF OfTask, IsAnswer, Started, spawnVars
    <3>2. CASE i = Len(messages) + 1
      <4>1. messages'[i] = GuestResponseMessage(p) /\ via' = via /\ channel' = channel
            /\ command' = command
        BY <1>1, <3>2 DEF spawnVars
      <4> QED
        BY <4>1 DEF OfTask, GuestResponseMessage, IsAnswer, Started
    <3> QED
      BY <1>1, <3>1, <3>2
  <2> QED
    BY <2>1 DEF MessagesOfTasks
<1>6. TaskMapExact'
  <2>1. ASSUME NEW c \in CommandId
        PROVE  tasks'[c] # NO_TASK /\ supervisor'[tasks'[c]] = "done"
                 <=> tasks[c] # NO_TASK /\ supervisor[tasks[c]] = "done"
    <3>1. tasks[c] # NO_TASK => tasks[c] \in RequestId
      BY DEF IInv, Types, TypeOK
    <3> QED
      BY <3>1
  <2>2. \A c : {i \in DOMAIN messages' : messages'[i] = TaskFinishedMessage(c)}
                 = {i \in DOMAIN messages : messages[i] = TaskFinishedMessage(c)}
    BY <1>1 DEF TaskFinishedMessage, GuestResponseMessage
  <2> QED
    BY <2>1, <2>2 DEF MapInv, TaskMapExact, TaskFinishedMessage
<1> QED
  BY <1>3, <1>4, <1>5, <1>6 DEF MapInv

(* A supervisor goes on without a message, or gives up because its channel *)
(* is gone; then its task has left the map already.                        *)
LEMMA MapMoved ==
  ASSUME IInv, MapInv, NEW r \in RequestId, Started(r),
         UNCHANGED <<messages, channel, spawnVars, kid, outputVars, tasks>>,
         \A q \in RequestId : q # r => supervisor'[q] = supervisor[q] /\ leader'[q] = leader[q],
         supervisor[r] # "done", supervisor'[r] # "none",
         supervisor'[r] = "done" => via[r] # channel
  PROVE  MapInv'
<1>1. \A q \in RequestId : Started(q)' <=> Started(q)
  BY DEF Started
<1>2. Unstarted'
  <2>1. ASSUME NEW q \in RequestId, ~Started(q)'
        PROVE  /\ ~Started(q)
               /\ leader'[q] = leader[q] /\ kid'[q] = kid[q] /\ pid'[q] = pid[q]
               /\ pump'[q] = pump[q] /\ written'[q] = written[q] /\ taken'[q] = taken[q]
    BY <1>1, <2>1 DEF spawnVars, outputVars
  <2> QED
    BY <2>1, UnstartedKept DEF MapInv
<1>3. MapFollowsTasks'
  <2>1. ASSUME NEW q \in RequestId
        PROVE  /\ via'[q] <= channel'
               /\ Started(q)' /\ via'[q] = channel' /\ supervisor'[q] # "done"
                    => tasks'[command'[q]] = q
    <3>1. supervisor'[q] # "done" => supervisor[q] # "done"
      OBVIOUS
    <3>2. /\ via[q] <= channel
          /\ Started(q) /\ via[q] = channel /\ supervisor[q] # "done" => tasks[command[q]] = q
      BY DEF MapInv, MapFollowsTasks
    <3> QED
      BY <1>1, <3>1, <3>2 DEF spawnVars
  <2>2. ASSUME NEW c \in CommandId, tasks'[c] # NO_TASK
        PROVE  Started(tasks[c])' /\ via'[tasks'[c]] = channel' /\ command'[tasks'[c]] = c
    <3>1. tasks[c] \in RequestId /\ tasks'[c] = tasks[c]
      BY <2>2 DEF IInv, Types, TypeOK
    <3>2. Started(tasks[c]) /\ via[tasks[c]] = channel /\ command[tasks[c]] = c
      BY <2>2 DEF MapInv, MapFollowsTasks
    <3>3. supervisor'[tasks[c]] # "none"
      BY <1>1, <3>1, <3>2 DEF Started
    <3> QED
      BY <3>1, <3>2, <3>3 DEF Started, spawnVars
  <2> QED
    BY <2>1, <2>2 DEF MapFollowsTasks
<1>4. MessagesOfTasks'
  <2>1. ASSUME NEW i \in DOMAIN messages PROVE OfTask(messages[i])'
    <3>1. OfTask(messages[i]) /\ messages[i] \in OrchestratorMessage
      BY DEF MapInv, MessagesOfTasks, IInv, Types, TypeOK
    <3>2. IsAnswer(messages[i]) => messages[i].response.id \in RequestId
      BY <3>1, MessageFields DEF IsAnswer, AgentPacket
    <3>3. IsAnswer(messages[i]) => supervisor'[messages[i].response.id] # "none"
      BY <1>1, <3>1, <3>2 DEF OfTask, Started
    <3> QED
      BY <3>1, <3>3 DEF OfTask, IsAnswer, Started, spawnVars
  <2> QED
    BY <2>1 DEF MessagesOfTasks
<1>5. TaskMapExact'
  <2>1. ASSUME NEW c \in CommandId
        PROVE  tasks'[c] # NO_TASK /\ supervisor'[tasks'[c]] = "done"
                 <=> tasks[c] # NO_TASK /\ supervisor[tasks[c]] = "done"
    <3>1. tasks[c] # NO_TASK => tasks[c] \in RequestId /\ via[tasks[c]] = channel
      BY DEF MapInv, MapFollowsTasks, IInv, Types, TypeOK
    <3> QED
      BY <3>1
  <2> QED
    BY <2>1 DEF MapInv, TaskMapExact, TaskFinishedMessage
<1> QED
  BY <1>2, <1>3, <1>4, <1>5 DEF MapInv

(* The supervisor of a task that is in the map sends its TaskFinished.     *)
LEMMA MapFinished ==
  ASSUME IInv, MapInv, NEW r \in RequestId, Started(r), via[r] = channel,
         messages' = Append(messages, TaskFinishedMessage(command[r])),
         UNCHANGED <<channel, spawnVars, processVars, outputVars, tasks>>,
         supervisor[r] # "done", supervisor' = [supervisor EXCEPT ![r] = "done"]
  PROVE  MapInv'
<1>1. /\ Len(messages) \in Nat /\ DOMAIN messages = 1..Len(messages)
      /\ DOMAIN messages' = 1..(Len(messages) + 1)
      /\ \A i \in 1..Len(messages) : messages'[i] = messages[i]
      /\ messages'[Len(messages) + 1] = TaskFinishedMessage(command[r])
  BY Appended DEF IInv, Types, TypeOK
<1>2. supervisor'[r] = "done" /\ \A q \in RequestId : q # r => supervisor'[q] = supervisor[q]
  BY DEF IInv, Types, TypeOK
<1>3. \A q \in RequestId : Started(q)' <=> Started(q)
  BY <1>2 DEF Started
<1>4. Unstarted'
  BY <1>3 DEF MapInv, Unstarted, spawnVars, outputVars, processVars
<1>5. MapFollowsTasks'
  <2>1. ASSUME NEW q \in RequestId
        PROVE  /\ via'[q] <= channel'
               /\ Started(q)' /\ via'[q] = channel' /\ supervisor'[q] # "done"
                    => tasks'[command'[q]] = q
    <3>1. supervisor'[q] # "done" => supervisor[q] # "done"
      BY <1>2
    <3>2. /\ via[q] <= channel
          /\ Started(q) /\ via[q] = channel /\ supervisor[q] # "done" => tasks[command[q]] = q
      BY DEF MapInv, MapFollowsTasks
    <3> QED
      BY <1>3, <3>1, <3>2 DEF spawnVars
  <2>2. ASSUME NEW c \in CommandId, tasks'[c] # NO_TASK
        PROVE  Started(tasks[c])' /\ via'[tasks'[c]] = channel' /\ command'[tasks'[c]] = c
    <3>1. tasks[c] \in RequestId /\ tasks'[c] = tasks[c]
      BY <2>2 DEF IInv, Types, TypeOK
    <3>2. Started(tasks[c]) /\ via[tasks[c]] = channel /\ command[tasks[c]] = c
      BY <2>2 DEF MapInv, MapFollowsTasks
    <3>3. supervisor'[tasks[c]] # "none"
      BY <1>3, <3>1, <3>2 DEF Started
    <3> QED
      BY <3>1, <3>2, <3>3 DEF Started, spawnVars
  <2> QED
    BY <2>1, <2>2 DEF MapFollowsTasks
<1>6. MessagesOfTasks'
  <2>1. ASSUME NEW i \in DOMAIN messages' PROVE OfTask(messages[i])'
    <3>1. CASE i \in 1..Len(messages)
      <4>1. OfTask(messages[i]) /\ messages[i] \in OrchestratorMessage /\ messages'[i] = messages[i]
        BY <1>1, <3>1 DEF MapInv, MessagesOfTasks, IInv, Types, TypeOK
      <4>2. IsAnswer(messages[i]) => messages[i].response.id \in RequestId
        BY <4>1, MessageFields DEF IsAnswer, AgentPacket
      <4>3. IsAnswer(messages[i]) => supervisor'[messages[i].response.id] # "none"
        BY <1>3, <4>1, <4>2 DEF OfTask, Started
      <4> QED
        BY <4>1, <4>3 DEF OfTask, IsAnswer, Started, spawnVars
    <3>2. CASE i = Len(messages) + 1
      BY <1>1, <3>2 DEF OfTask, IsAnswer, TaskFinishedMessage
    <3> QED
      BY <1>1, <3>1, <3>2
  <2> QED
    BY <2>1 DEF MessagesOfTasks
<1>7. ASSUME NEW d \in CommandId
      PROVE  LET over == {i \in DOMAIN messages' : messages'[i] = TaskFinishedMessage(d)}
             IN /\ \A i, j \in over : i = j
                /\ over # {} <=> tasks'[d] # NO_TASK /\ supervisor'[tasks'[d]] = "done"
  <2> DEFINE over == {i \in DOMAIN messages : messages[i] = TaskFinishedMessage(d)}
  <2>1. /\ \A i, j \in over : i = j
        /\ over # {} <=> tasks[d] # NO_TASK /\ supervisor[tasks[d]] = "done"
    BY DEF MapInv, TaskMapExact
  <2>2. tasks[command[r]] = r /\ r # NO_TASK /\ tasks' = tasks
    BY DEF MapInv, MapFollowsTasks
  <2>3. CASE d = command[r]
    <3>1. over = {}
      BY <2>1, <2>2, <2>3
    <3>2. \A i \in DOMAIN messages' :
            messages'[i] = TaskFinishedMessage(d) <=> i = Len(messages) + 1
      BY <1>1, <2>3, <3>1
    <3>3. Len(messages) + 1 \in DOMAIN messages'
      BY <1>1
    <3> QED
      BY <1>2, <2>2, <2>3, <3>2, <3>3
  <2>4. CASE d # command[r]
    <3>1. TaskFinishedMessage(d) # TaskFinishedMessage(command[r])
      BY <2>4 DEF TaskFinishedMessage
    <3>2. {i \in DOMAIN messages' : messages'[i] = TaskFinishedMessage(d)} = over
      BY <1>1, <3>1
    <3>3. tasks[d] # NO_TASK => tasks[d] \in RequestId /\ tasks[d] # r
      BY <2>4 DEF MapInv, MapFollowsTasks, IInv, Types, TypeOK
    <3>4. tasks[d] # NO_TASK => supervisor'[tasks[d]] = supervisor[tasks[d]]
      BY <1>2, <3>3
    <3> QED
      BY <2>1, <2>2, <3>2, <3>4
  <2> QED
    BY <2>3, <2>4
<1>8. TaskMapExact'
  BY <1>7 DEF TaskMapExact, TaskFinishedMessage
<1> QED
  BY <1>4, <1>5, <1>6, <1>8 DEF MapInv

(* The steps of one task. *)
LEMMA MapPumps ==
  ASSUME IInv, MapInv, NEW r \in RequestId, NEW s \in CommandStream, PumpStep(r, s),
         UNCHANGED tasks
  PROVE  MapInv'
<1>1. Started(r)
  BY DEF PumpStep, PumpReads, PumpEnds, PumpSends, MapInv, Unstarted
<1>2. \A q \in RequestId : q # r => pump'[q] = pump[q] /\ taken'[q] = taken[q]
  BY DEF PumpStep, PumpReads, PumpEnds, PumpSends, IInv, Types, TypeOK
<1>3. UNCHANGED <<channel, spawnVars, supervisor, tasks, leader, kid, written>>
  BY DEF PumpStep, PumpReads, PumpEnds, PumpSends, superVars, processVars
<1>4. CASE UNCHANGED messages
  BY <1>1, <1>2, <1>3, <1>4, MapQuiet
<1>5. CASE PumpSends(r, s) /\ CanSend(r)
  <2> DEFINE p == Output(r, s, taken[r][s])
  <2>1. messages' = Append(messages, GuestResponseMessage(p)) /\ via[r] = channel
    BY <1>5 DEF PumpSends, CanSend, SendFails
  <2>2. p.id = r /\ p.content.type = "CommandOutput" /\ p.content.command = command[r]
    BY DEF Output
  <2>3. UNCHANGED taken
    BY <1>5 DEF PumpSends
  <2> HIDE DEF p
  <2> QED
    BY <1>1, <1>2, <1>3, <2>1, <2>2, <2>3, MapSent DEF Started
<1> QED
  BY <1>4, <1>5 DEF PumpStep, PumpReads, PumpEnds, PumpSends

(* The steps of a supervisor keep MapInv. *)
LEMMA MapSuper ==
  ASSUME IInv, MapInv, NEW r \in RequestId, SuperNext(r), UNCHANGED tasks
  PROVE  MapInv'
<1>1. ASSUME NEW from \in {"report", "release"}, NEW m, NEW to, Report(r, from, m, to),
             SendFails(r)
      PROVE  MapInv'
  <2>1. /\ UNCHANGED <<messages, channel, spawnVars, kid, outputVars, tasks, leader>>
        /\ supervisor' = [supervisor EXCEPT ![r] = "done"] /\ supervisor[r] = from
        /\ via[r] # channel
    BY <1>1 DEF Report, CanSend, SendFails, processVars
  <2>2. supervisor'[r] = "done" /\ \A q \in RequestId : q # r => supervisor'[q] = supervisor[q]
    BY <2>1 DEF IInv, Types, TypeOK
  <2> QED
    BY <2>1, <2>2, MapMoved DEF Started
<1>2. CASE Reap(r)
  <2>1. /\ UNCHANGED <<messages, channel, spawnVars, kid, outputVars, tasks>>
        /\ supervisor' = [supervisor EXCEPT ![r] = "report"] /\ supervisor[r] = "drain"
        /\ leader' = [leader EXCEPT ![r] = "reaped"]
    BY <1>2 DEF Reap
  <2>2. /\ supervisor'[r] = "report"
        /\ \A q \in RequestId : q # r => supervisor'[q] = supervisor[q] /\ leader'[q] = leader[q]
    BY <2>1 DEF IInv, Types, TypeOK
  <2> QED
    BY <2>1, <2>2, MapMoved DEF Started
<1>3. CASE ReportFinished(r) /\ CanSend(r)
  <2>1. /\ UNCHANGED <<channel, spawnVars, leader, kid, written, taken, pump, tasks>>
        /\ supervisor' = [supervisor EXCEPT ![r] = "release"] /\ supervisor[r] = "report"
        /\ messages' = Append(messages, GuestResponseMessage(Finished(r))) /\ via[r] = channel
    BY <1>3 DEF ReportFinished, Report, CanSend, SendFails, processVars, outputVars
  <2>2. /\ supervisor'[r] = "release"
        /\ \A q \in RequestId : q # r => supervisor'[q] = supervisor[q] /\ pump'[q] = pump[q]
    BY <2>1 DEF IInv, Types, TypeOK
  <2> DEFINE p == Finished(r)
  <2>3. p.id = r /\ p.content.type = "CommandFinished" /\ p.content.command = command[r]
    BY DEF Finished
  <2> HIDE DEF p
  <2> QED
    BY <2>1, <2>2, <2>3, MapSent DEF Started, p
<1>4. CASE ReportTaskFinished(r) /\ CanSend(r)
  BY <1>4, MapFinished DEF ReportTaskFinished, Report, CanSend, SendFails, Started
<1>5. SuperNext(r) => \/ Reap(r)
                      \/ ReportFinished(r) /\ (CanSend(r) \/ SendFails(r))
                      \/ ReportTaskFinished(r) /\ (CanSend(r) \/ SendFails(r))
  BY DEF SuperNext, ReportFinished, ReportTaskFinished, Report
<1> QED
  BY <1>1, <1>2, <1>3, <1>4, <1>5 DEF ReportFinished, ReportTaskFinished

(* So do the kill tasks and the guest kernel, which touch no task that was *)
(* never started.                                                          *)
LEMMA MapKillKernel ==
  ASSUME IInv, MapInv, NEW r \in RequestId, KillNext(r) \/ KernelNext(r), UNCHANGED tasks
  PROVE  MapInv'
<1>1. UNCHANGED <<messages, channel, spawnVars, supervisor, tasks, taken, pump>>
  BY DEF KillNext, KernelNext, KillTerm, KillKill, LeaderExits, KidExits, WriteLine,
     outputVars, superVars
<1>2. ASSUME NEW q \in RequestId, ~Started(q)
      PROVE  leader'[q] = leader[q] /\ kid'[q] = kid[q]
  <2>1. leader[q] = "none" /\ kid[q] = "gone"
    BY <1>2 DEF MapInv, Unstarted
  <2>2. ASSUME NEW p, NEW hit, Strike(p, hit)
        PROVE  leader'[q] = leader[q] /\ kid'[q] = kid[q]
    BY <2>1, <2>2 DEF Strike, Living
  <2>3. CASE KillTerm(r) \/ KillKill(r)
    BY <2>2, <2>3 DEF KillTerm, KillKill, processVars
  <2>4. CASE LeaderExits(r) \/ KidExits(r)
    BY <2>1, <2>4 DEF LeaderExits, KidExits, Living, IInv, Types, TypeOK
  <2>5. CASE \E s \in CommandStream : WriteLine(r, s)
    BY <2>5 DEF WriteLine, processVars
  <2> QED
    BY <2>3, <2>4, <2>5 DEF KillNext, KernelNext
<1>3. ASSUME NEW q \in RequestId, ~Started(q)
      PROVE  written'[q] = written[q]
  <2>1. leader[q] = "none" /\ kid[q] = "gone"
    BY <1>3 DEF MapInv, Unstarted
  <2>2. CASE \E s \in CommandStream : WriteLine(r, s)
    BY <2>1, <2>2 DEF WriteLine, PipeOpen, IInv, Types, TypeOK
  <2>3. CASE UNCHANGED written
    BY <2>3
  <2> QED
    BY <2>2, <2>3 DEF KillNext, KernelNext, KillTerm, KillKill, LeaderExits, KidExits, outputVars
<1> QED
  BY <1>1, <1>2, <1>3, MapQuiet

(* Every step of a command keeps MapInv. *)
LEMMA MapTask ==
  ASSUME IInv, MapInv, NEW r \in RequestId, TaskNext(r), UNCHANGED tasks
  PROVE  MapInv'
BY MapPumps, MapSuper, MapKillKernel DEF TaskNext, PumpNext

(* The steps of the orchestrator, its request being newer than its tasks.  *)
LEMMA MapOrch ==
  ASSUME IInv, MapInv, OrchNext, requests # <<>> => Newest(Head(requests).id)
  PROVE  MapInv'
<1> USE DEF mapVars, spawnVars, processVars, outputVars, superVars
<1>1. CASE ReInitialize \/ Ping \/ CommandKill \/ Send
  BY <1>1, MapUnchanged DEF ReInitialize, Ping, CommandKill, Send, taskVars
<1>2. CASE Initialize \/ Break
  BY <1>2, MapDropped DEF Initialize, Break
<1>3. CASE CommandExec
  <2> DEFINE p == Head(requests)
             c == p.content.command
  <2>1. requests # <<>> /\ requests \in Seq(AgentPacket(HostRequest))
    BY <1>3 DEF IInv, Types, TypeOK, CommandExec, Request
  <2>2. p \in AgentPacket(HostRequest)
    BY <2>1, QueueHead
  <2>3. p.id \in RequestId /\ c \in CommandId /\ Newest(p.id)
    BY <1>3, <2>1, <2>2, RequestFields DEF CommandExec, Request
  <2>4. UNCHANGED <<messages, channel>>
    BY <1>3 DEF CommandExec
  <2>5. CASE /\ tasks[c] = NO_TASK /\ Spawn(p.id, c)
             /\ tasks' = [tasks EXCEPT ![c] = p.id]
    <3> HIDE DEF p, c
    <3> QED
      BY <2>3, <2>4, <2>5, MapSpawned
  <2>6. CASE UNCHANGED <<tasks, spawnVars, processVars, outputVars, superVars>>
    BY <2>4, <2>6, MapUnchanged
  <2> QED
    BY <1>3, <2>5, <2>6 DEF CommandExec
<1> QED
  BY <1>1, <1>2, <1>3, MapPassedOn, MapReleased DEF OrchNext, Handle

(* The ends of the channels touch nothing of it. *)
LEMMA MapPort ==
  ASSUME MapInv, PortNext
  PROVE  MapInv'
<1>1. UNCHANGED mapVars
  BY DEF mapVars, PortNext, ReaderQueues, ReaderEnds, WriterTakes, WriterEnds, orchVars,
     taskVars, spawnVars, processVars, outputVars, superVars
<1> QED
  BY <1>1, MapUnchanged

-----------------------------------------------------------------------------
(* Requests are taken in the order they were queued, which their numbers   *)
(* follow; what has spawned something was taken.                           *)
Waiting ==
  /\ Len(requests) <= sent
  /\ \A i \in DOMAIN requests : requests[i].id = sent - Len(requests) + i
  /\ \A r \in RequestId : Started(r) => r <= sent - Len(requests)

(* The request at the head is newer than everything that was started. *)
LEMMA HeadIsNewest ==
  ASSUME IInv, Waiting, requests # <<>>
  PROVE  /\ Head(requests).id = sent - Len(requests) + 1
         /\ Head(requests).id \in RequestId
         /\ Newest(Head(requests).id)
         /\ Len(requests) \in Nat \ {0} /\ sent \in Nat /\ DOMAIN requests = 1..Len(requests)
         /\ sent - Len(requests) \in Nat
<1>1. requests \in Seq(AgentPacket(HostRequest)) /\ sent \in Nat
  BY DEF IInv, Types, TypeOK
<1>2. /\ Len(requests) \in Nat \ {0} /\ DOMAIN requests = 1..Len(requests)
      /\ Head(requests) = requests[1] /\ Head(requests) \in AgentPacket(HostRequest)
  BY <1>1, Taken, QueueHead
<1>3. Head(requests).id = sent - Len(requests) + 1 /\ sent - Len(requests) \in Nat
  BY <1>1, <1>2 DEF Waiting
<1>4. \A r \in RequestId : Started(r) => r < Head(requests).id
  BY <1>1, <1>2, <1>3 DEF Waiting
<1> QED
  BY <1>1, <1>2, <1>3, <1>4, RequestFields DEF Newest

(* A handler takes the head; if it starts something, that is the head. *)
LEMMA WaitingTaken ==
  ASSUME IInv, Waiting, requests # <<>>, requests' = Tail(requests), sent' = sent,
         \A r \in RequestId : Started(r)' => Started(r) \/ r = Head(requests).id
  PROVE  Waiting'
<1>1. /\ Head(requests).id = sent - Len(requests) + 1
      /\ Len(requests) \in Nat \ {0} /\ sent \in Nat /\ DOMAIN requests = 1..Len(requests)
      /\ sent - Len(requests) \in Nat
  BY HeadIsNewest
<1>2. /\ DOMAIN requests' = 1..(Len(requests) - 1) /\ Len(requests') = Len(requests) - 1
      /\ \A i \in 1..(Len(requests) - 1) : requests'[i] = requests[i + 1]
  BY Taken DEF IInv, Types, TypeOK
<1>3. \A i \in DOMAIN requests' : requests'[i].id = sent' - Len(requests') + i
  <2>1. ASSUME NEW i \in 1..(Len(requests) - 1)
        PROVE  requests'[i].id = sent' - Len(requests') + i
    <3>1. i + 1 \in DOMAIN requests /\ requests'[i] = requests[i + 1]
      BY <1>1, <1>2, <2>1
    <3>2. requests[i + 1].id = sent - Len(requests) + (i + 1)
      BY <3>1 DEF Waiting
    <3> QED
      BY <1>1, <1>2, <3>1, <3>2
  <2> QED
    BY <1>2, <2>1
<1>4. \A r \in RequestId : Started(r)' => r <= sent' - Len(requests')
  BY <1>1, <1>2 DEF Waiting
<1> QED
  BY <1>1, <1>2, <1>3, <1>4 DEF Waiting

(* What starts nothing and takes no request leaves the numbers. *)
LEMMA WaitingKept ==
  ASSUME Waiting, UNCHANGED <<requests, sent>>,
         \A r \in RequestId : Started(r)' => Started(r)
  PROVE  Waiting'
BY DEF Waiting

(* A step of a command starts no task and forgets none. *)
LEMMA TaskStarts ==
  ASSUME MapInv, NEW r \in RequestId, TaskNext(r), IInv
  PROVE  \A q \in RequestId : Started(q)' <=> Started(q)
<1>1. CASE PumpNext(r) \/ KillNext(r) \/ KernelNext(r)
  <2>1. supervisor' = supervisor
    BY <1>1 DEF PumpNext, PumpStep, PumpReads, PumpEnds, PumpSends, KillNext, KernelNext,
       KillTerm, KillKill, LeaderExits, KidExits, WriteLine, superVars
  <2> QED
    BY <2>1 DEF Started
<1>2. CASE SuperNext(r)
  <2>1. /\ supervisor[r] # "none"
        /\ \E to \in {"report", "release", "done"} : supervisor' = [supervisor EXCEPT ![r] = to]
    BY <1>2 DEF SuperNext, Reap, ReportFinished, ReportTaskFinished, Report
  <2> QED
    BY <2>1 DEF Started, IInv, Types, TypeOK
<1> QED
  BY <1>1, <1>2 DEF TaskNext

(* The orchestrator takes requests from the head only, and starts a task   *)
(* only for the one it takes.                                              *)
LEMMA WaitingOrch ==
  ASSUME IInv, Waiting, OrchNext
  PROVE  Waiting'
<1> USE DEF histVars, superVars, taskVars
<1>1. CASE ReInitialize \/ Initialize \/ Ping \/ CommandKill
  <2>1. requests # <<>> /\ requests' = Tail(requests) /\ sent' = sent /\ supervisor' = supervisor
    BY <1>1 DEF ReInitialize, Initialize, Ping, CommandKill, Request
  <2> QED
    BY <2>1, WaitingTaken DEF Started
<1>2. CASE CommandExec
  <2>1. requests # <<>> /\ requests' = Tail(requests) /\ sent' = sent
    BY <1>2 DEF CommandExec, Request
  <2>2. ASSUME NEW r \in RequestId, Started(r)' PROVE Started(r) \/ r = Head(requests).id
    <3>1. CASE supervisor' = supervisor
      BY <2>2, <3>1 DEF Started
    <3>2. CASE supervisor' = [supervisor EXCEPT ![Head(requests).id] = "drain"]
      BY <2>2, <3>2 DEF Started, IInv, Types, TypeOK
    <3> QED
      BY <1>2, <3>1, <3>2 DEF CommandExec, Spawn
  <2> QED
    BY <2>1, <2>2, WaitingTaken
<1>3. CASE PassOn \/ RemoveTask \/ Send
  BY <1>3, WaitingKept DEF PassOn, RemoveTask, Send, ioVars, Started
<1>4. CASE Break
  <2>1. requests' = <<>> /\ sent' = sent /\ supervisor' = supervisor
    BY <1>4 DEF Break
  <2>2. Len(requests) \in Nat /\ sent \in Nat
    BY DEF IInv, Types, TypeOK
  <2>3. Len(requests') = 0 /\ DOMAIN requests' = {}
    BY <2>1
  <2>4. ASSUME NEW r \in RequestId, Started(r)' PROVE r <= sent
    <3>1. r <= sent - Len(requests) /\ r \in Nat
      BY <2>1, <2>4 DEF Waiting, Started
    <3> QED
      BY <2>2, <3>1
  <2> QED
    BY <2>1, <2>2, <2>3, <2>4 DEF Waiting
<1> QED
  BY <1>1, <1>2, <1>3, <1>4 DEF OrchNext, Handle

(* The reader gives a request the next number. *)
LEMMA WaitingPort ==
  ASSUME IInv, Waiting, PortNext
  PROVE  Waiting'
<1> USE DEF taskVars, superVars
<1>1. CASE ReaderQueues
  <2>1. PICK p : requests' = Append(requests, p) /\ p.id = sent'
    BY <1>1 DEF ReaderQueues
  <2>2. sent' = sent + 1 /\ sent \in Nat /\ supervisor' = supervisor
    BY <1>1 DEF ReaderQueues, IInv, Types, TypeOK
  <2>3. /\ Len(requests) \in Nat /\ DOMAIN requests = 1..Len(requests)
        /\ DOMAIN requests' = 1..(Len(requests) + 1) /\ Len(requests') = Len(requests) + 1
        /\ \A i \in 1..Len(requests) : requests'[i] = requests[i]
        /\ requests'[Len(requests) + 1] = p
    BY <2>1, Appended DEF IInv, Types, TypeOK
  <2>4. \A i \in DOMAIN requests' : requests'[i].id = sent' - Len(requests') + i
    <3>1. ASSUME NEW i \in 1..Len(requests) PROVE requests'[i].id = sent' - Len(requests') + i
      <4>1. requests[i].id = sent - Len(requests) + i /\ requests'[i] = requests[i]
        BY <2>3, <3>1 DEF Waiting
      <4> QED
        BY <2>2, <2>3, <3>1, <4>1
    <3>2. requests'[Len(requests) + 1].id = sent' - Len(requests') + (Len(requests) + 1)
      BY <2>1, <2>2, <2>3
    <3> QED
      BY <2>3, <3>1, <3>2
  <2> QED
    BY <2>2, <2>3, <2>4 DEF Waiting, Started
<1>2. CASE ReaderEnds \/ WriterTakes \/ WriterEnds
  BY <1>2, WaitingKept DEF ReaderEnds, WriterTakes, WriterEnds, orchVars, histVars, Started
<1> QED
  BY <1>1, <1>2 DEF PortNext

-----------------------------------------------------------------------------
(* The task map follows the tasks throughout every behaviour. *)
NumberedInv == IInv /\ MapInv /\ Waiting

(* Nothing waits and nothing runs when the port is opened. *)
LEMMA NumberedInit == Init => NumberedInv
<1> SUFFICES ASSUME Init PROVE MapInv /\ Waiting
  BY InitInvariant DEF NumberedInv
<1>1. /\ messages = <<>> /\ requests = <<>> /\ sent = 0 /\ channel = 0
      /\ \A r \in RequestId :
           /\ supervisor[r] = "none" /\ via[r] = 0 /\ leader[r] = "none" /\ kid[r] = "gone"
           /\ pid[r] = NO_GROUP
           /\ \A s \in CommandStream : pump[r][s] = "none" /\ written[r][s] = 0 /\ taken[r][s] = 0
      /\ \A c \in CommandId : tasks[c] = NO_TASK
  BY DEF Init, TaskInit
<1>2. DOMAIN messages = {} /\ DOMAIN requests = {} /\ Len(requests) = 0
  BY <1>1
<1>3. Unstarted /\ MapFollowsTasks
  <2>1. Unstarted
    BY <1>1 DEF Unstarted, Started
  <2>2. ASSUME NEW r \in RequestId PROVE ~Started(r) /\ via[r] <= channel
    <3>1. via[r] = channel /\ channel \in Nat /\ supervisor[r] = "none"
      BY <1>1
    <3> QED
      BY <3>1 DEF Started
  <2>3. /\ \A r \in RequestId :
             /\ via[r] <= channel
             /\ Started(r) /\ via[r] = channel /\ supervisor[r] # "done" => tasks[command[r]] = r
        /\ \A c \in CommandId : tasks[c] # NO_TASK =>
             Started(tasks[c]) /\ via[tasks[c]] = channel /\ command[tasks[c]] = c
    BY <1>1, <2>2
  <2> QED
    BY <2>1, <2>3 DEF MapFollowsTasks
<1>4. MessagesOfTasks /\ TaskMapExact
  BY <1>1, <1>2 DEF MessagesOfTasks, TaskMapExact
<1>5. Waiting
  BY <1>1, <1>2 DEF Waiting, Started
<1> QED
  BY <1>3, <1>4, <1>5 DEF MapInv

(* Every step keeps the map, the numbering and IInv. *)
LEMMA NumberedStep == NumberedInv /\ [Next]_vars => NumberedInv'
<1> SUFFICES ASSUME NumberedInv, [Next]_vars PROVE MapInv' /\ Waiting'
  BY StepInvariant DEF NumberedInv
<1>1. CASE OrchNext
  BY <1>1, MapOrch, WaitingOrch, HeadIsNewest DEF NumberedInv
<1>2. CASE PortNext
  BY <1>2, MapPort, WaitingPort DEF NumberedInv
<1>3. ASSUME NEW r \in RequestId, CommandNext(r)
      PROVE  MapInv' /\ Waiting'
  <2>1. TaskNext(r) /\ UNCHANGED <<tasks, requests, sent>>
    BY <1>3 DEF CommandNext, restVars, orchVars, ioVars, histVars
  <2> QED
    BY <2>1, MapTask, TaskStarts, WaitingKept DEF NumberedInv
<1>4. CASE UNCHANGED vars
  BY <1>4, MapUnchanged, WaitingKept DEF NumberedInv, vars, mapVars, taskVars, orchVars, ioVars,
     histVars, superVars, Started
<1> QED
  BY <1>1, <1>2, <1>3, <1>4 DEF Next

(* They hold in every state of the specification. *)
LEMMA NumberedAlways == Spec => []NumberedInv
BY NumberedInit, NumberedStep, PTL DEF Spec

(* The task map has exactly the commands not yet released: a task that is  *)
(* over has one TaskFinished in the channel, and a queued TaskFinished     *)
(* finds the very task that sent it, whatever was dropped in between.      *)
THEOREM TaskMapExactHolds == Spec => []TaskMapExact
<1>1. NumberedInv => TaskMapExact
  BY DEF NumberedInv, MapInv
<1> QED
  BY <1>1, NumberedAlways, PTL

-----------------------------------------------------------------------------
(* How the steps change what the host gets: it grows at its end, and loses *)
(* what was not written when the writer ends.                              *)

Packets == Seq(AgentPacket(GuestResponse))

(* The answers are packets. *)
LEMMA StreamType ==
  ASSUME IInv
  PROVE  Stream \in Packets
<1>1. answered \in Packets /\ responses \in Packets
  BY DEF IInv, Types, TypeOK, Packets
<1>2. orch = "send" => <<held>> \in Packets
  BY DEF IInv, Types, HeldAnswer, Packets
<1>3. (IF orch = "send" /\ responsesOpen THEN <<held>> ELSE <<>>) \in Packets
  BY <1>2 DEF Packets
<1> QED
  BY <1>1, <1>3 DEF Stream, Packets

(* send_response gets an answer: it is next, if a writer is there.         *)
LEMMA StreamGrows ==
  ASSUME IInv, orch = "select", orch' = "send", NEW p \in AgentPacket(GuestResponse), held' = p,
         UNCHANGED <<answered, responses, responsesOpen>>
  PROVE  Stream' = IF responsesOpen THEN Append(Stream, p) ELSE Stream
<1> DEFINE t == answered \o responses
<1>1. t \in Packets
  BY DEF IInv, Types, TypeOK, Packets
<1>2. t \o <<>> = t /\ t \o <<p>> = Append(t, p)
  BY <1>1 DEF Packets
<1>3. Stream = t \o <<>>
  BY DEF Stream
<1>4. Stream' = t \o (IF responsesOpen THEN <<p>> ELSE <<>>)
  BY DEF Stream
<1> QED
  BY <1>2, <1>3, <1>4

(* What queues an answer, or takes one from the queue, keeps the order.    *)
LEMMA StreamKept ==
  ASSUME IInv, Send \/ Break \/ WriterTakes
  PROVE  Stream' = Stream
<1>1. answered \in Packets /\ responses \in Packets
  BY DEF IInv, Types, TypeOK, Packets
<1>2. CASE Send
  <2>1. held \in AgentPacket(GuestResponse)
    BY <1>2 DEF Send, IInv, Types, HeldAnswer
  <2>2. Stream = answered \o responses \o <<held>> /\ Stream' = answered \o Append(responses, held) \o <<>>
    BY <1>2 DEF Send, Stream, histVars
  <2>3. answered \o Append(responses, held) \o <<>> = answered \o responses \o <<held>>
    BY <1>1, <2>1 DEF Packets
  <2> QED
    BY <2>2, <2>3
<1>3. CASE Break
  BY <1>3 DEF Break, Stream, histVars
<1>4. CASE WriterTakes
  <2> DEFINE h == IF orch = "send" /\ responsesOpen THEN <<held>> ELSE <<>>
  <2>1. /\ responses # <<>>
        /\ Stream = answered \o responses \o h
        /\ Stream' = Append(answered, Head(responses)) \o Tail(responses) \o h
    BY <1>4 DEF WriterTakes, Stream, orchVars
  <2>2. Append(answered, Head(responses)) \o Tail(responses) = answered \o responses
    BY <1>1, <2>1 DEF Packets
  <2> QED
    BY <2>1, <2>2
<1> QED
  BY <1>2, <1>3, <1>4

Begins(t, s) == Len(t) <= Len(s) /\ \A i \in 1..Len(t) : t[i] = s[i]

(* A failed write takes the answers behind what was written. *)
LEMMA StreamCut ==
  ASSUME IInv, WriterEnds
  PROVE  Stream' \in Packets /\ Begins(Stream', Stream)
<1>1. answered \in Packets /\ responses \in Packets
  BY DEF IInv, Types, TypeOK, Packets
<1> DEFINE h == IF orch = "send" /\ responsesOpen THEN <<held>> ELSE <<>>
<1>2. h \in Packets
  BY DEF IInv, Types, HeldAnswer, Packets
<1>3. Stream = answered \o responses \o h /\ Stream' = answered \o <<>> \o <<>>
  BY DEF WriterEnds, Stream, histVars, orchVars
<1> HIDE DEF h
<1>4. answered \o <<>> \o <<>> = answered
  BY <1>1 DEF Packets
<1>5. Begins(answered, answered \o responses \o h)
  BY <1>1, <1>2 DEF Packets, Begins
<1> QED
  BY <1>1, <1>3, <1>4, <1>5

(* What concerns neither the answers nor the writer leaves them. *)
LEMMA StreamSame ==
  ASSUME UNCHANGED <<answered, responses, responsesOpen, orch, held>>
  PROVE  Stream' = Stream
BY DEF Stream

(* The direct answers of a stream follow each other. *)
Ids(s) == {s[i].id : i \in Direct(s)}
InOrder(s) ==
  /\ \A i, j \in Direct(s) : i < j => s[i].id < s[j].id
  /\ \A n \in Ids(s) : 1..n \subseteq Ids(s)

IsDirect(p) == p.content.type \in {"Initialized", "GenericResult"}

(* The next direct answer is appended to direct answers in order. *)
LEMMA DirectAppended ==
  ASSUME NEW s \in Packets, NEW p \in AgentPacket(GuestResponse), IsDirect(p),
         InOrder(s), NEW n \in Nat, p.id = n + 1, \A m \in Ids(s) : m <= n, 1..n \subseteq Ids(s)
  PROVE  InOrder(Append(s, p)) /\ Ids(Append(s, p)) = Ids(s) \union {p.id}
<1> DEFINE t == Append(s, p)
<1>1. /\ Len(s) \in Nat /\ DOMAIN s = 1..Len(s) /\ DOMAIN t = 1..(Len(s) + 1)
      /\ \A i \in 1..Len(s) : t[i] = s[i]
      /\ t[Len(s) + 1] = p
  BY Appended DEF Packets
<1> HIDE DEF t
<1>2. Direct(t) = Direct(s) \union {Len(s) + 1}
  BY <1>1 DEF Direct, IsDirect
<1>3. \A i \in Direct(s) : t[i] = s[i] /\ i < Len(s) + 1 /\ i \in Nat
  BY <1>1 DEF Direct
<1>4. Ids(t) = Ids(s) \union {p.id}
  BY <1>1, <1>2, <1>3 DEF Ids
<1>5. \A i \in Direct(s) : s[i].id \in Nat /\ s[i].id < p.id
  <2>1. \A i \in Direct(s) : s[i] \in AgentPacket(GuestResponse) /\ s[i].id \in Ids(s)
    BY <1>1 DEF Direct, Packets, Ids
  <2>2. \A i \in Direct(s) : s[i].id \in Nat /\ s[i].id <= n
    BY <2>1 DEF AgentPacket
  <2> QED
    BY <2>2
<1>6. \A i, j \in Direct(t) : i < j => t[i].id < t[j].id
  <2>1. ASSUME NEW i \in Direct(t), NEW j \in Direct(t), i < j
        PROVE  t[i].id < t[j].id
    <3>1. i \in Direct(s)
      BY <1>2, <1>3, <2>1, <1>1
    <3>2. CASE j \in Direct(s)
      BY <1>3, <2>1, <3>1, <3>2 DEF InOrder
    <3>3. CASE j = Len(s) + 1
      BY <1>1, <1>3, <1>5, <3>1, <3>3
    <3> QED
      BY <1>2, <3>2, <3>3
  <2> QED
    BY <2>1
<1>7. \A m \in Ids(t) : 1..m \subseteq Ids(t)
  BY <1>4 DEF InOrder
<1> QED
  BY <1>4, <1>6, <1>7 DEF InOrder, t

(* An answer of a task changes nothing of the direct ones. *)
LEMMA OtherAppended ==
  ASSUME NEW s \in Packets, NEW p \in AgentPacket(GuestResponse), ~IsDirect(p)
  PROVE  /\ Direct(Append(s, p)) = Direct(s) /\ Ids(Append(s, p)) = Ids(s)
         /\ InOrder(s) => InOrder(Append(s, p))
<1> DEFINE t == Append(s, p)
<1>1. /\ Len(s) \in Nat /\ DOMAIN s = 1..Len(s) /\ DOMAIN t = 1..(Len(s) + 1)
      /\ \A i \in 1..Len(s) : t[i] = s[i]
      /\ t[Len(s) + 1] = p
  BY Appended DEF Packets
<1> HIDE DEF t
<1>2. Direct(t) = Direct(s)
  BY <1>1 DEF Direct, IsDirect
<1>3. \A i \in Direct(s) : t[i] = s[i]
  BY <1>1 DEF Direct
<1>4. Ids(t) = Ids(s)
  BY <1>2, <1>3 DEF Ids
<1>5. InOrder(s) => InOrder(t)
  BY <1>2, <1>3, <1>4 DEF InOrder
<1> QED
  BY <1>2, <1>4, <1>5 DEF t

(* A beginning of answers in order is in order. *)
LEMMA InOrderCut ==
  ASSUME NEW s \in Packets, NEW t \in Packets, Begins(t, s), InOrder(s)
  PROVE  InOrder(t) /\ Ids(t) \subseteq Ids(s)
<1>1. /\ Len(s) \in Nat /\ DOMAIN s = 1..Len(s) /\ Len(t) \in Nat /\ DOMAIN t = 1..Len(t)
      /\ Len(t) <= Len(s) /\ \A i \in 1..Len(t) : t[i] = s[i]
  BY DEF Packets, Begins
<1>2. Direct(t) = Direct(s) \cap 1..Len(t)
  BY <1>1 DEF Direct
<1>3. \A i \in Direct(t) : i \in Direct(s) /\ t[i] = s[i] /\ i \in Nat
  BY <1>1, <1>2
<1>4. \A i, j \in Direct(t) : i < j => t[i].id < t[j].id
  BY <1>3 DEF InOrder
<1>5. ASSUME NEW n \in Ids(t), NEW m \in 1..n
      PROVE  m \in Ids(t)
  <2>1. PICK i \in Direct(t) : t[i].id = n
    BY <1>5 DEF Ids
  <2>2. n \in Ids(s)
    BY <1>3, <2>1 DEF Ids
  <2>3. PICK j \in Direct(s) : s[j].id = m
    BY <2>2 DEF InOrder, Ids
  <2>4. s[i].id = n /\ i \in Direct(s) /\ i \in 1..Len(t) /\ j \in 1..Len(s)
    BY <1>1, <1>2, <1>3, <2>1 DEF Direct
  <2>5. n \in Nat
    <3>1. s[i] \in AgentPacket(GuestResponse)
      BY <1>1, <2>4 DEF Packets, Direct
    <3> QED
      BY <2>4, <3>1 DEF AgentPacket
  <2>6. ~(i < j)
    BY <1>5, <2>3, <2>4, <2>5 DEF InOrder
  <2>7. j \in Direct(t)
    BY <1>1, <1>2, <2>4, <2>6
  <2> QED
    BY <1>3, <2>3, <2>7 DEF Ids
<1>6. Ids(t) \subseteq Ids(s)
  BY <1>3 DEF Ids
<1> QED
  BY <1>4, <1>5, <1>6 DEF InOrder

(* Answers carry request numbers. *)
LEMMA IdsAreNumbers ==
  ASSUME NEW s \in Packets
  PROVE  \A n \in Ids(s) : n \in Nat \ {0}
<1>1. ASSUME NEW n \in Ids(s) PROVE n \in Nat \ {0}
  <2>1. PICK i \in Direct(s) : s[i].id = n
    BY <1>1 DEF Ids
  <2>2. s[i] \in AgentPacket(GuestResponse)
    BY <2>1 DEF Packets, Direct
  <2> QED
    BY <2>1, <2>2 DEF AgentPacket
<1> QED
  BY <1>1

(* The order of the answers depends on the answers only. *)
LEMMA StreamIs ==
  ASSUME NEW t, Stream' = t
  PROVE  (InOrder(Stream)' <=> InOrder(t)) /\ Ids(Stream)' = Ids(t)
<1>1. Direct(Stream)' = Direct(t)
  BY DEF Direct
<1>2. Ids(Stream)' = Ids(t)
  BY <1>1 DEF Ids
<1>3. InOrder(Stream)' <=> InOrder(t)
  BY <1>1, <1>2 DEF InOrder
<1> QED
  BY <1>2, <1>3

(* Every request taken is answered in its turn.  A request is taken and    *)
(* its answer decided in one step; the answers to tasks are no such.       *)
Asked == sent - Len(requests)

DirectInv ==
  /\ InOrder(Stream)
  /\ \A n \in Ids(Stream) : n <= Asked
  /\ responsesOpen /\ orch # "done" => 1..Asked \subseteq Ids(Stream)

(* The invariant gives the property. *)
LEMMA DirectIsAnswered == DirectInv /\ IInv => RequestsAnsweredInOrder
<1> SUFFICES ASSUME DirectInv, IInv PROVE RequestsAnsweredInOrder
  OBVIOUS
<1>1. \A n \in Ids(Stream) : n \in Nat \ {0}
  BY StreamType, IdsAreNumbers
<1>2. sent \in Nat /\ Len(requests) \in Nat
  BY DEF IInv, Types, TypeOK
<1>3. Ids(Stream) \subseteq 1..Asked
  BY <1>1, <1>2 DEF DirectInv, Asked
<1>4. responsesOpen /\ orch # "done" => Ids(Stream) = 1..Asked
  BY <1>3 DEF DirectInv
<1> QED
  BY <1>4 DEF RequestsAnsweredInOrder, DirectInv, InOrder, Ids, Asked

(* A request is taken and its own answer decided. *)
LEMMA DirectHandled ==
  ASSUME IInv, Waiting, DirectInv, requests # <<>>, requests' = Tail(requests),
         orch = "select", orch' = "send",
         NEW content, held' = [id |-> Head(requests).id, content |-> content],
         held' \in AgentPacket(GuestResponse), content.type \in {"Initialized", "GenericResult"},
         UNCHANGED <<sent, answered, responses, responsesOpen>>
  PROVE  DirectInv'
<1>1. /\ Head(requests).id = Asked + 1 /\ Asked \in Nat
      /\ sent \in Nat /\ Len(requests) \in Nat \ {0}
  BY HeadIsNewest DEF Asked
<1>2. Asked' = Asked + 1
  <2>1. Len(requests') = Len(requests) - 1
    BY DEF IInv, Types, TypeOK
  <2> QED
    BY <1>1, <2>1 DEF Asked
<1>3. Stream' = IF responsesOpen THEN Append(Stream, held') ELSE Stream
  BY StreamGrows
<1>4. IsDirect(held') /\ held'.id = Asked + 1 /\ Stream \in Packets
  BY <1>1, StreamType DEF IsDirect
<1>5. CASE responsesOpen
  <2>1. 1..Asked \subseteq Ids(Stream)
    BY <1>5 DEF DirectInv
  <2>2. \A m \in Ids(Stream) : m <= Asked
    BY DEF DirectInv
  <2>3. InOrder(Stream)
    BY DEF DirectInv
  <2>4. InOrder(Append(Stream, held')) /\ Ids(Append(Stream, held')) = Ids(Stream) \union {held'.id}
    BY <1>1, <1>4, <2>1, <2>2, <2>3, DirectAppended
  <2>5. Stream' = Append(Stream, held')
    BY <1>3, <1>5
  <2>6. InOrder(Stream)' /\ Ids(Stream)' = Ids(Stream) \union {Asked + 1}
    BY <1>4, <2>4, <2>5, StreamIs
  <2>7. \A n \in Ids(Stream)' : n <= Asked'
    <3>1. \A n \in Ids(Stream) : n <= Asked + 1
      <4>1. \A n \in Ids(Stream) : n \in Nat
        BY <1>4, IdsAreNumbers
      <4> QED
        BY <1>1, <2>2, <4>1
    <3> QED
      BY <1>1, <1>2, <2>6, <3>1
  <2>8. 1..Asked' \subseteq Ids(Stream)'
    BY <1>1, <1>2, <2>1, <2>6
  <2> QED
    BY <2>6, <2>7, <2>8 DEF DirectInv
<1>6. CASE ~responsesOpen
  <2>1. Stream' = Stream
    BY <1>3, <1>6
  <2>2. InOrder(Stream)' /\ Ids(Stream)' = Ids(Stream)
    BY <2>1, StreamIs DEF DirectInv
  <2>3. \A n \in Ids(Stream) : n <= Asked'
    <3>1. \A n \in Ids(Stream) : n \in Nat /\ n <= Asked
      BY <1>4, IdsAreNumbers DEF DirectInv
    <3> QED
      BY <1>1, <1>2, <3>1
  <2> QED
    BY <1>6, <2>2, <2>3 DEF DirectInv
<1> QED
  BY <1>5, <1>6

(* What neither answers a request nor takes one leaves the answers. *)
LEMMA DirectStill ==
  ASSUME DirectInv, Stream' = Stream,
         UNCHANGED <<sent, requests, responsesOpen>>, orch = "done" => orch' = "done"
  PROVE  DirectInv'
<1>1. (InOrder(Stream)' <=> InOrder(Stream)) /\ Ids(Stream)' = Ids(Stream)
  BY StreamIs
<1>2. Asked' = Asked
  BY DEF Asked
<1> QED
  BY <1>1, <1>2 DEF DirectInv

(* What send_response waits with is a packet. *)
LEMMA HeldNext ==
  ASSUME IInv, OrchNext, orch' = "send"
  PROVE  held' \in AgentPacket(GuestResponse)
BY StepInvariant DEF Next, IInv, Types, HeldAnswer

(* The answer of a task that is passed on is none to the request itself. *)
LEMMA PassedOnPacket ==
  ASSUME IInv, MapInv, PassOn
  PROVE  /\ IsAnswer(messages[1]) /\ 1 \in DOMAIN messages /\ held' = messages[1].response
         /\ ~IsDirect(held') /\ held' \in AgentPacket(GuestResponse)
         /\ Stream' = IF responsesOpen THEN Append(Stream, held') ELSE Stream
<1>1. /\ messages # <<>> /\ messages \in Seq(OrchestratorMessage)
      /\ Head(messages).type = "GuestResponse"
  BY DEF PassOn, IInv, Types, TypeOK
<1>2. Head(messages) = messages[1] /\ 1 \in DOMAIN messages
  BY <1>1
<1>3. OfTask(messages[1]) /\ IsAnswer(messages[1])
  BY <1>1, <1>2 DEF MapInv, MessagesOfTasks, IsAnswer
<1>4. messages[1].response \in AgentPacket(GuestResponse)
  BY <1>1, <1>2, <1>3, MessageFields DEF IsAnswer
<1>5. held' = messages[1].response
  <2>1. held' = [id |-> messages[1].response.id, content |-> messages[1].response.content]
    BY <1>2 DEF PassOn, Answer
  <2> QED
    BY <1>4, <2>1 DEF AgentPacket
<1>6. ~IsDirect(held')
  BY <1>3, <1>5 DEF OfTask, IsDirect
<1>7. Stream' = IF responsesOpen THEN Append(Stream, held') ELSE Stream
  BY <1>4, <1>5, StreamGrows DEF PassOn, Answer, ioVars, histVars
<1> QED
  BY <1>2, <1>3, <1>4, <1>5, <1>6, <1>7

(* The answers the handlers of requests give. *)
LEMMA DirectAnswered ==
  ASSUME IInv, ReInitialize \/ Initialize \/ Ping \/ CommandExec \/ CommandKill
  PROVE  /\ requests # <<>> /\ requests' = Tail(requests) /\ orch = "select" /\ orch' = "send"
         /\ UNCHANGED <<sent, answered, responses, responsesOpen>>
         /\ held' \in AgentPacket(GuestResponse)
         /\ \E content : /\ held' = [id |-> Head(requests).id, content |-> content]
                         /\ content.type \in {"Initialized", "GenericResult"}
                         /\ content.type = "Initialized" => /\ ReInitialize \/ Initialize
                                                            /\ content = Initialized(session')
<1>1. /\ requests # <<>> /\ requests' = Tail(requests) /\ orch = "select" /\ orch' = "send"
      /\ UNCHANGED <<sent, answered, responses, responsesOpen>>
  BY DEF ReInitialize, Initialize, Ping, CommandExec, CommandKill, Request, Answer, histVars
<1>2. held' \in AgentPacket(GuestResponse)
  BY <1>1, HeldNext DEF OrchNext, Handle
<1>3. \/ ReInitialize /\ held' = [id |-> Head(requests).id, content |-> Initialized(session')]
      \/ Initialize /\ held' = [id |-> Head(requests).id, content |-> Initialized(session')]
      \/ \E ok : held' = [id |-> Head(requests).id, content |-> GenericResult(ok)]
  BY DEF ReInitialize, Initialize, Ping, CommandExec, CommandKill, Answer
<1>4. /\ Initialized(session').type = "Initialized"
      /\ \A ok : GenericResult(ok).type = "GenericResult"
  BY DEF Initialized, GenericResult
<1> QED
  BY <1>1, <1>2, <1>3, <1>4

(* The handlers keep the direct answers in order. *)
LEMMA DirectOrch ==
  ASSUME IInv, MapInv, Waiting, DirectInv, OrchNext
  PROVE  DirectInv'
<1>1. CASE ReInitialize \/ Initialize \/ Ping \/ CommandExec \/ CommandKill
  BY <1>1, DirectAnswered, DirectHandled
<1>2. CASE PassOn
  <2>1. UNCHANGED <<sent, requests, responsesOpen>> /\ orch # "done" /\ Asked' = Asked
    BY <1>2 DEF PassOn, ioVars, histVars, Asked
  <2>2. CASE responsesOpen
    <3>1. Stream' = Append(Stream, held')
      BY <1>2, <2>2, PassedOnPacket
    <3>2. InOrder(Stream)' /\ Ids(Stream)' = Ids(Stream)
      BY <1>2, <3>1, PassedOnPacket, OtherAppended, StreamType, StreamIs DEF DirectInv
    <3> QED
      BY <2>1, <3>2 DEF DirectInv
  <2>3. CASE ~responsesOpen
    BY <1>2, <2>1, <2>3, PassedOnPacket, DirectStill
  <2> QED
    BY <2>2, <2>3
<1>3. CASE RemoveTask \/ Send
  BY <1>3, StreamSame, StreamKept, DirectStill DEF RemoveTask, Send, ioVars, histVars
<1>4. CASE Break
  <2>1. (InOrder(Stream)' <=> InOrder(Stream)) /\ Ids(Stream)' = Ids(Stream)
    BY <1>4, StreamKept, StreamIs
  <2>2. Asked' = sent /\ sent \in Nat /\ Len(requests) \in Nat /\ orch' = "done"
    BY <1>4 DEF Break, Asked, histVars, IInv, Types, TypeOK
  <2>3. \A n \in Ids(Stream) : n <= Asked'
    <3>1. \A n \in Ids(Stream) : n \in Nat /\ n <= sent - Len(requests)
      BY StreamType, IdsAreNumbers DEF DirectInv, Asked
    <3> QED
      BY <2>2, <3>1
  <2> QED
    BY <2>1, <2>2, <2>3 DEF DirectInv
<1> QED
  BY <1>1, <1>2, <1>3, <1>4 DEF OrchNext, Handle

(* The ends of the channels keep them in order: a failed write loses the   *)
(* last ones.                                                              *)
LEMMA DirectPort ==
  ASSUME IInv, DirectInv, PortNext
  PROVE  DirectInv'
<1>1. CASE ReaderQueues
  <2>1. Asked' = Asked
    <3>1. sent' = sent + 1 /\ sent \in Nat /\ Len(requests) \in Nat
      BY <1>1 DEF ReaderQueues, IInv, Types, TypeOK
    <3>2. Len(requests') = Len(requests) + 1
      BY <1>1 DEF ReaderQueues, IInv, Types, TypeOK
    <3> QED
      BY <3>1, <3>2 DEF Asked
  <2>2. Stream' = Stream /\ UNCHANGED <<responsesOpen, orch>>
    BY <1>1, StreamSame DEF ReaderQueues, orchVars
  <2> QED
    BY <2>1, <2>2, StreamIs DEF DirectInv
<1>2. CASE ReaderEnds \/ WriterTakes
  BY <1>2, StreamSame, StreamKept, DirectStill DEF ReaderEnds, WriterTakes, orchVars, histVars
<1>3. CASE WriterEnds
  <2>1. InOrder(Stream') /\ Ids(Stream') \subseteq Ids(Stream)
    BY <1>3, StreamCut, StreamType, InOrderCut DEF DirectInv
  <2>2. InOrder(Stream)' /\ Ids(Stream)' \subseteq Ids(Stream)
    BY <2>1, StreamIs
  <2>3. Asked' = Asked /\ ~responsesOpen'
    BY <1>3 DEF WriterEnds, Asked, histVars
  <2> QED
    BY <2>2, <2>3 DEF DirectInv
<1> QED
  BY <1>1, <1>2, <1>3 DEF PortNext

-----------------------------------------------------------------------------
(* After a switch of sessions nothing older can come: no task of an older  *)
(* request is left that could still send.                                  *)

Live(r) == Started(r) /\ via[r] = channel
LiveIds == {r \in RequestId : Live(r)}

(* n is newer than whatever announced another session. *)
SwitchedBefore(s, n) == \A i \in DOMAIN s : Switches(s, i) => n > s[i].id

(* The session announced last is a. *)
Announced(s, a) ==
  \E k \in DOMAIN s :
    /\ s[k].content = Initialized(a)
    /\ \A m \in k..Len(s) : s[m].content.type = "Initialized" => s[m].content = Initialized(a)

(* The answers s keep the barrier, and so will what the tasks L still send *)
(* behind them, while a is the session in force.                           *)
Barred(s, L, a) ==
  /\ NothingOlderAfterSwitch(s)
  /\ \A r \in L : SwitchedBefore(s, r)
  /\ a # NO_SESSION => Announced(s, a)

InForce == IF responsesOpen THEN session ELSE NO_SESSION

BarrierInv == Barred(Stream, LiveIds, InForce)

(* A switch depends on what was announced up to it. *)
LEMMA SwitchesKept ==
  ASSUME NEW s \in Packets, NEW t \in Packets, Begins(t, s), NEW i \in DOMAIN t
  PROVE  Switches(t, i) <=> Switches(s, i)
<1>1. \A k \in 1..i : t[k] = s[k]
  BY DEF Packets, Begins
<1>2. i \in Nat /\ i \in 1..i /\ \A k \in 1..(i - 1) : k \in 1..i /\ \A m \in k..i : m \in 1..i
  BY DEF Packets
<1> QED
  BY <1>1, <1>2 DEF Switches

(* A beginning of answers keeps the barrier. *)
LEMMA BarredCut ==
  ASSUME NEW s \in Packets, NEW t \in Packets, Begins(t, s), NEW L, NEW a, Barred(s, L, a)
  PROVE  Barred(t, L, NO_SESSION)
<1>1. \A i \in DOMAIN t : i \in DOMAIN s /\ t[i] = s[i] /\ (Switches(t, i) <=> Switches(s, i))
  BY SwitchesKept DEF Packets, Begins
<1>2. NothingOlderAfterSwitch(t)
  BY <1>1 DEF NothingOlderAfterSwitch, Barred
<1> QED
  BY <1>1, <1>2 DEF Barred, SwitchedBefore

(* An answer added to the stream keeps the barrier if it is newer than     *)
(* every switch before it.                                                 *)
LEMMA BarrierGrows ==
  ASSUME NEW s \in Packets, NEW p \in AgentPacket(GuestResponse), NothingOlderAfterSwitch(s),
         SwitchedBefore(s, p.id)
  PROVE  /\ NothingOlderAfterSwitch(Append(s, p))
         /\ Begins(s, Append(s, p)) /\ Append(s, p) \in Packets
         /\ \A i \in DOMAIN s : Switches(Append(s, p), i) <=> Switches(s, i)
<1> DEFINE t == Append(s, p)
<1>1. /\ Len(s) \in Nat /\ DOMAIN s = 1..Len(s) /\ DOMAIN t = 1..(Len(s) + 1)
      /\ \A i \in 1..Len(s) : t[i] = s[i]
      /\ t[Len(s) + 1] = p
  BY Appended DEF Packets
<1>2. t \in Packets /\ Begins(s, t)
  BY DEF Packets, Begins
<1> HIDE DEF t
<1>3. \A i \in DOMAIN s : Switches(t, i) <=> Switches(s, i)
  BY <1>2, SwitchesKept
<1>4. ASSUME NEW i \in DOMAIN t, NEW j \in DOMAIN t, Switches(t, i), i < j
      PROVE  t[j].id > t[i].id
  <2>1. i \in DOMAIN s /\ Switches(s, i) /\ t[i] = s[i]
    BY <1>1, <1>3, <1>4
  <2>2. CASE j \in DOMAIN s
    BY <1>1, <1>4, <2>1, <2>2 DEF NothingOlderAfterSwitch
  <2>3. CASE j = Len(s) + 1
    BY <1>1, <2>1, <2>3 DEF SwitchedBefore
  <2> QED
    BY <1>1, <2>2, <2>3
<1> QED
  BY <1>2, <1>3, <1>4 DEF NothingOlderAfterSwitch, t

(* What adds no answer and revives no task keeps the barrier. *)
LEMMA BarredStill ==
  ASSUME NEW s, NEW L, NEW M, NEW a, NEW b, Barred(s, L, a), b \in {a, NO_SESSION},
         \A r \in M : SwitchedBefore(s, r)
  PROVE  Barred(s, M, b)
BY DEF Barred

(* An answer is added.  If it announces a session, that is the session in  *)
(* force: the same as before, or one that comes when no task is left.      *)
LEMMA BarredAppended ==
  ASSUME NEW s \in Packets, NEW L, NEW M, NEW a, NEW b, Barred(s, L, a),
         NEW p \in AgentPacket(GuestResponse),
         SwitchedBefore(s, p.id), \A r \in M : SwitchedBefore(s, r),
         IF p.content.type = "Initialized"
         THEN p.content = Initialized(b) /\ (M = {} \/ (b = a /\ a # NO_SESSION))
         ELSE b = a
  PROVE  Barred(Append(s, p), M, b)
<1> DEFINE t == Append(s, p)
<1>1. NothingOlderAfterSwitch(t) /\ \A i \in DOMAIN s : Switches(t, i) <=> Switches(s, i)
  BY BarrierGrows DEF Barred
<1>2. /\ Len(s) \in Nat /\ DOMAIN s = 1..Len(s) /\ DOMAIN t = 1..(Len(s) + 1)
      /\ \A i \in 1..Len(s) : t[i] = s[i]
      /\ t[Len(s) + 1] = p /\ Len(t) = Len(s) + 1
  BY Appended DEF Packets
<1> HIDE DEF t
<1>3. ASSUME NEW c, Announced(s, c),
             p.content.type = "Initialized" => p.content = Initialized(c)
      PROVE  Announced(t, c) /\ (p.content.type = "Initialized" => ~Switches(t, Len(s) + 1))
  <2>1. PICK k \in DOMAIN s :
          /\ s[k].content = Initialized(c)
          /\ \A m \in k..Len(s) : s[m].content.type = "Initialized" => s[m].content = Initialized(c)
    BY <1>3 DEF Announced
  <2>2. \A m \in k..(Len(s) + 1) : t[m].content.type = "Initialized" => t[m].content = Initialized(c)
    BY <1>2, <1>3, <2>1
  <2>3. k \in DOMAIN t /\ t[k].content = Initialized(c) /\ k \in 1..((Len(s) + 1) - 1)
    BY <1>2, <2>1
  <2>4. Announced(t, c)
    BY <1>2, <2>2, <2>3 DEF Announced
  <2>5. ASSUME p.content.type = "Initialized" PROVE ~Switches(t, Len(s) + 1)
    <3>1. t[Len(s) + 1].content = Initialized(c)
      BY <1>2, <1>3, <2>5
    <3> QED
      BY <2>2, <2>3, <3>1 DEF Switches
  <2> QED
    BY <2>4, <2>5
<1>4. ASSUME b # NO_SESSION PROVE Announced(t, b)
  <2>1. CASE b = a /\ (p.content.type = "Initialized" => p.content = Initialized(b))
    BY <1>3, <1>4, <2>1 DEF Barred
  <2>2. CASE p.content = Initialized(b)
    <3>1. Len(s) + 1 \in DOMAIN t /\ \A m \in (Len(s) + 1)..Len(t) : m = Len(s) + 1
      BY <1>2
    <3> QED
      BY <1>2, <2>2, <3>1 DEF Announced
  <2> QED
    BY <2>1, <2>2
<1>5. ASSUME NEW r \in M, NEW i \in DOMAIN t, Switches(t, i)
      PROVE  r > t[i].id
  <2>1. CASE i \in DOMAIN s
    <3>1. Switches(s, i) /\ t[i] = s[i]
      BY <1>1, <1>2, <1>5, <2>1
    <3> QED
      BY <2>1, <3>1 DEF SwitchedBefore
  <2>2. CASE i = Len(s) + 1
    <3>1. p.content.type = "Initialized"
      BY <1>2, <1>5, <2>2 DEF Switches
    <3>2. a # NO_SESSION /\ p.content = Initialized(a) /\ Announced(s, a)
      BY <1>5, <3>1 DEF Barred
    <3> QED
      BY <1>3, <1>5, <2>2, <3>1, <3>2
  <2> QED
    BY <1>2, <2>1, <2>2
<1> QED
  BY <1>1, <1>4, <1>5 DEF Barred, SwitchedBefore, t

(* The barrier after a step. *)
LEMMA BarrierIs ==
  ASSUME NEW t, Stream' = t, Barred(t, LiveIds', InForce')
  PROVE  BarrierInv'
<1>1. \A i : Switches(Stream, i)' <=> Switches(t, i)
  BY DEF Switches
<1>2. /\ NothingOlderAfterSwitch(Stream)' /\ (InForce' # NO_SESSION => Announced(Stream, InForce)')
      /\ \A r : SwitchedBefore(Stream, r)' <=> SwitchedBefore(t, r)
  BY <1>1 DEF Barred, NothingOlderAfterSwitch, SwitchedBefore, Announced
<1> QED
  BY <1>2 DEF BarrierInv, Barred

(* Who can still send after a step. *)
LEMMA LiveDropped ==
  ASSUME IInv, MapInv, DropMessages, UNCHANGED <<supervisor, via>>
  PROVE  \A r \in RequestId : ~Live(r)'
<1>1. ASSUME NEW r \in RequestId PROVE via'[r] # channel'
  <2>1. via[r] \in Nat /\ channel \in Nat /\ via[r] <= channel
    BY DEF IInv, Types, TypeOK, MapInv, MapFollowsTasks
  <2>2. via'[r] = via[r] /\ channel' = channel + 1
    BY DEF DropMessages
  <2> QED
    BY <2>1, <2>2
<1> QED
  BY <1>1 DEF Live

(* A task is live by its supervisor and by its incarnation. *)
LEMMA LiveSame ==
  ASSUME UNCHANGED <<supervisor, via, channel>>
  PROVE  \A r \in RequestId : Live(r)' <=> Live(r)
BY DEF Live, Started

(* CommandExec brings to life at most the task it spawns. *)
LEMMA LiveExecuted ==
  ASSUME IInv, CommandExec, Head(requests).id \in RequestId
  PROVE  \A r \in RequestId : Live(r)' => Live(r) \/ r = Head(requests).id
<1>1. \/ UNCHANGED <<supervisor, via, channel>>
      \/ Spawn(Head(requests).id, Head(requests).content.command) /\ UNCHANGED channel
  BY DEF CommandExec, superVars, spawnVars
<1>2. /\ supervisor \in [RequestId -> {"none", "drain", "report", "release", "done"}]
      /\ via \in [RequestId -> Nat]
  BY DEF IInv, Types, TypeOK
<1>3. CASE UNCHANGED <<supervisor, via, channel>>
  BY <1>3, LiveSame
<1>4. CASE Spawn(Head(requests).id, Head(requests).content.command) /\ UNCHANGED channel
  <2>1. ASSUME NEW r \in RequestId, r # Head(requests).id
        PROVE  supervisor'[r] = supervisor[r] /\ via'[r] = via[r] /\ channel' = channel
    BY <1>2, <1>4, <2>1 DEF Spawn
  <2> QED
    BY <2>1 DEF Live, Started
<1> QED
  BY <1>1, <1>3, <1>4

(* A step of a command leaves the same tasks live. *)
LEMMA LiveTask ==
  ASSUME IInv, MapInv, NEW r \in RequestId, TaskNext(r)
  PROVE  \A q \in RequestId : Live(q)' <=> Live(q)
<1>1. UNCHANGED <<via, channel>>
  BY DEF TaskNext, PumpNext, PumpStep, PumpReads, PumpEnds, PumpSends, SuperNext, Reap,
     ReportFinished, ReportTaskFinished, Report, KillNext, KernelNext, KillTerm, KillKill,
     LeaderExits, KidExits, WriteLine, spawnVars
<1> QED
  BY <1>1, TaskStarts DEF Live

(* What send_response waits with, and the answers behind those that the    *)
(* writer has taken, w.                                                    *)
Waits == IF orch = "send" /\ responsesOpen THEN <<held>> ELSE <<>>
Behind(w, q, h) == w \o q \o h

(* The orchestrator adds an answer when send_response gets it, and it      *)
(* stays when it is queued.                                                *)
LEMMA AnswersStep ==
  ASSUME IInv, OrchNext, NEW w \in Packets
  PROVE  /\ Behind(w, responses', Waits') =
              IF orch = "select" /\ orch' = "send" /\ responsesOpen
              THEN Append(Behind(w, responses, Waits), held') ELSE Behind(w, responses, Waits)
         /\ Behind(w, responses, Waits) \in Packets
<1> DEFINE s == Behind(w, responses, Waits)
           t == Behind(w, responses', Waits')
<1>1. responses \in Packets
  BY DEF IInv, Types, TypeOK, Packets
<1>2. orch = "send" => held \in AgentPacket(GuestResponse)
  BY DEF IInv, Types, HeldAnswer
<1>3. s \in Packets
  <2>1. Waits \in Packets
    BY <1>2 DEF Packets, Waits
  <2> QED
    BY <1>1, <2>1 DEF Packets, Behind
<1>4. CASE Send
  <2>1. s = w \o responses \o <<held>> /\ t = w \o Append(responses, held) \o <<>>
    BY <1>4 DEF Send, Waits, Behind
  <2>2. w \o Append(responses, held) \o <<>> = w \o responses \o <<held>>
    BY <1>1, <1>2, <1>4 DEF Send, Packets
  <2> QED
    BY <1>3, <1>4, <2>1, <2>2 DEF Send
<1>5. CASE Break
  <2>1. responses' = responses /\ Waits' = Waits /\ orch' = "done"
    BY <1>5 DEF Break, Waits
  <2> QED
    BY <1>3, <2>1
<1>6. CASE Handle /\ orch' = orch
  <2>1. orch = "select" /\ UNCHANGED <<responses, responsesOpen>>
    BY <1>6 DEF Handle, ReInitialize, Initialize, Ping, CommandExec, CommandKill, PassOn, RemoveTask,
       Request, Answer, ioVars
  <2> QED
    BY <1>3, <1>6, <2>1 DEF Waits
<1>7. CASE Handle /\ orch' # orch
  <2>1. orch = "select" /\ orch' = "send" /\ UNCHANGED <<responses, responsesOpen>>
    BY <1>7 DEF Handle, ReInitialize, Initialize, Ping, CommandExec, CommandKill, PassOn, RemoveTask,
       Request, Answer, ioVars
  <2>2. held' \in AgentPacket(GuestResponse)
    BY <2>1, HeldNext
  <2> DEFINE h == held'
             v == w \o responses
  <2>3. v \in Packets /\ s = v \o <<>> /\ t = v \o (IF responsesOpen THEN <<h>> ELSE <<>>)
    BY <1>1, <2>1 DEF Packets, Behind, Waits
  <2> HIDE DEF v
  <2>4. v \o <<>> = v /\ v \o <<h>> = Append(v, h)
    BY <2>2, <2>3 DEF Packets
  <2> QED
    BY <1>3, <2>1, <2>3, <2>4
<1> QED
  BY <1>3, <1>4, <1>5, <1>6, <1>7 DEF OrchNext

(* A request is newer than every switch; one that switches drops every     *)
(* task.  What else is answered comes from a task that is live.            *)
LEMMA BarredOrch ==
  ASSUME IInv, MapInv, OrchNext, NEW s \in Packets, Barred(s, LiveIds, InForce),
         requests # <<>> => SwitchedBefore(s, Head(requests).id),
         NEW t, t = IF orch = "select" /\ orch' = "send" /\ responsesOpen
                    THEN Append(s, held') ELSE s
  PROVE  Barred(t, LiveIds', InForce')
<1>1. \A r \in RequestId : Live(r) => SwitchedBefore(s, r)
  BY DEF Barred, LiveIds
<1>2. CASE ReInitialize \/ Initialize \/ Ping \/ CommandExec \/ CommandKill
  <2>1. /\ requests # <<>> /\ orch = "select" /\ orch' = "send" /\ responsesOpen' = responsesOpen
        /\ held' \in AgentPacket(GuestResponse) /\ SwitchedBefore(s, Head(requests).id)
    BY <1>2, DirectAnswered
  <2>2. PICK content :
          /\ held' = [id |-> Head(requests).id, content |-> content]
          /\ content.type \in {"Initialized", "GenericResult"}
          /\ content.type = "Initialized" => /\ ReInitialize \/ Initialize
                                             /\ content = Initialized(session')
    BY <1>2, DirectAnswered
  <2>3. Head(requests) \in AgentPacket(HostRequest) /\ Head(requests).id \in RequestId
    BY <2>1, QueueHead, RequestFields DEF IInv, Types, TypeOK
  <2>4. Initialize => \A r \in RequestId : ~Live(r)'
    BY LiveDropped DEF Initialize, spawnVars, superVars
  <2>5. \A r \in RequestId : Live(r)' => SwitchedBefore(s, r)
    <3>1. CASE ReInitialize \/ Ping \/ CommandKill
      BY <1>1, <3>1, LiveSame DEF ReInitialize, Ping, CommandKill, taskVars, spawnVars, superVars
    <3>2. CASE CommandExec
      BY <1>1, <2>1, <2>3, <3>2, LiveExecuted
    <3> QED
      BY <1>2, <2>4, <3>1, <3>2
  <2>6. ReInitialize => session' = session /\ session # NO_SESSION
    BY <2>3, RequestFields DEF ReInitialize, Request
  <2>7. Initialize \/ session' = session
    BY <1>2 DEF ReInitialize, Ping, CommandExec, CommandKill
  <2>8. CASE responsesOpen
    <3> DEFINE p == held'
               a == session
               b == session'
               L == LiveIds
               M == LiveIds'
    <3>1. p \in AgentPacket(GuestResponse) /\ t = Append(s, p) /\ SwitchedBefore(s, p.id)
      BY <2>1, <2>2, <2>8
    <3>2. (\A r \in M : SwitchedBefore(s, r)) /\ (Initialize => M = {})
      BY <2>4, <2>5 DEF LiveIds
    <3>3. IF p.content.type = "Initialized"
          THEN p.content = Initialized(b) /\ (M = {} \/ (b = a /\ a # NO_SESSION))
          ELSE b = a
      <4>1. p.content = content
        BY <2>2
      <4>2. Initialize => p.content = Initialized(b)
        BY DEF Initialize, Answer
      <4>3. Initialized(b).type = "Initialized"
        BY DEF Initialized
      <4> QED
        BY <2>2, <2>6, <2>7, <3>2, <4>1, <4>2, <4>3
    <3>4. Barred(s, L, a) /\ InForce' = b
      BY <2>1, <2>8 DEF InForce
    <3> HIDE DEF p, a, b, L, M
    <3>5. Barred(Append(s, p), M, b)
      BY <3>1, <3>2, <3>3, <3>4, BarredAppended
    <3> QED
      BY <3>1, <3>4, <3>5 DEF M
  <2>9. CASE ~responsesOpen
    <3>1. t = s /\ InForce' = NO_SESSION /\ \A r \in LiveIds' : SwitchedBefore(s, r)
      BY <2>1, <2>5, <2>9 DEF InForce, LiveIds
    <3> QED
      BY <3>1, BarredStill
  <2> QED
    BY <2>8, <2>9
<1>3. CASE PassOn
  <2>1. /\ UNCHANGED <<session, responsesOpen>> /\ InForce' = InForce
        /\ orch = "select" /\ orch' = "send"
        /\ \A r \in LiveIds' : SwitchedBefore(s, r)
    BY <1>1, <1>3, LiveSame DEF PassOn, Answer, ioVars, taskVars, spawnVars, superVars, InForce, LiveIds
  <2>2. CASE responsesOpen
    <3> DEFINE p == held'
    <3>1. /\ IsAnswer(messages[1]) /\ 1 \in DOMAIN messages /\ p = messages[1].response
          /\ ~IsDirect(p) /\ p \in AgentPacket(GuestResponse)
      BY <1>3, PassedOnPacket
    <3>2. OfTask(messages[1]) /\ p.id \in RequestId
      BY <3>1 DEF MapInv, MessagesOfTasks, AgentPacket
    <3>3. SwitchedBefore(s, p.id) /\ p.content.type # "Initialized" /\ t = Append(s, p)
      BY <1>1, <2>1, <2>2, <3>1, <3>2 DEF OfTask, Live, IsDirect
    <3> HIDE DEF p
    <3> QED
      BY <2>1, <3>1, <3>3, BarredAppended
  <2>3. CASE ~responsesOpen
    BY <2>1, <2>3, BarredStill
  <2> QED
    BY <2>2, <2>3
<1>4. CASE RemoveTask \/ Send
  <2>1. InForce' = InForce /\ t = s
    BY <1>4 DEF RemoveTask, Send, ioVars, InForce
  <2>2. \A r \in LiveIds' : SwitchedBefore(s, r)
    BY <1>1, <1>4, LiveSame DEF RemoveTask, Send, taskVars, spawnVars, superVars, LiveIds
  <2> QED
    BY <2>1, <2>2, BarredStill
<1>5. CASE Break
  <2>1. t = s /\ InForce' = NO_SESSION
    BY <1>5 DEF Break, InForce
  <2>2. \A r \in LiveIds' : SwitchedBefore(s, r)
    BY <1>5, LiveDropped DEF Break, spawnVars, superVars, LiveIds
  <2> QED
    BY <2>1, <2>2, BarredStill
<1> QED
  BY <1>2, <1>3, <1>4, <1>5 DEF OrchNext, Handle

(* Every switch is announced by an answer to a request taken before. *)
LEMMA SwitchesAreAsked ==
  ASSUME IInv, DirectInv, Waiting, requests # <<>>
  PROVE  SwitchedBefore(Stream, Head(requests).id)
<1>1. ASSUME NEW i \in DOMAIN Stream, Switches(Stream, i)
      PROVE  Head(requests).id > Stream[i].id
  <2>1. Stream[i].id \in Ids(Stream)
    BY <1>1 DEF Switches, Ids, Direct
  <2>2. Stream[i].id \in Nat /\ Stream[i].id <= Asked
    BY <2>1, StreamType, IdsAreNumbers DEF DirectInv
  <2>3. Head(requests).id = Asked + 1 /\ Asked \in Nat
    BY HeadIsNewest DEF Asked
  <2> QED
    BY <2>2, <2>3
<1> QED
  BY <1>1 DEF SwitchedBefore

(* The steps of the orchestrator keep the barrier. *)
LEMMA BarrierOrch ==
  ASSUME IInv, MapInv, Waiting, DirectInv, BarrierInv, OrchNext
  PROVE  BarrierInv'
<1>1. answered \in Packets /\ answered' = answered
  BY DEF IInv, Types, TypeOK, Packets, OrchNext, Handle, ReInitialize, Initialize, Ping, CommandExec,
     CommandKill, PassOn, RemoveTask, Send, Break, Request, histVars
<1>2. /\ Stream' = IF orch = "select" /\ orch' = "send" /\ responsesOpen
                   THEN Append(Stream, held') ELSE Stream
      /\ Stream \in Packets
  <2>1. Stream = Behind(answered, responses, Waits)
        /\ Stream' = Behind(answered, responses', Waits')
    BY <1>1 DEF Stream, Behind, Waits
  <2> QED
    BY <1>1, <2>1, AnswersStep
<1>3. Barred(Stream', LiveIds', InForce')
  BY <1>2, BarredOrch, SwitchesAreAsked DEF BarrierInv
<1> QED
  BY <1>3, BarrierIs

(* What leaves the answers and the session alone, and revives no task,     *)
(* keeps the barrier.                                                      *)
LEMMA BarrierStill ==
  ASSUME BarrierInv, Stream' = Stream, UNCHANGED <<responsesOpen, session>>,
         \A r \in RequestId : Live(r)' <=> Live(r)
  PROVE  BarrierInv'
<1>1. LiveIds' = LiveIds /\ InForce' = InForce
  BY DEF LiveIds, InForce
<1>2. Barred(Stream', LiveIds', InForce')
  BY <1>1 DEF BarrierInv
<1> QED
  BY <1>2, BarrierIs

(* The ends of the channels keep the barrier. *)
LEMMA BarrierPort ==
  ASSUME IInv, BarrierInv, PortNext
  PROVE  BarrierInv'
<1>1. \A r \in RequestId : Live(r)' <=> Live(r)
  <2>1. UNCHANGED <<supervisor, via, channel>>
    BY DEF PortNext, ReaderQueues, ReaderEnds, WriterTakes, WriterEnds, taskVars, spawnVars, superVars
  <2> QED
    BY <2>1, LiveSame
<1>2. CASE ReaderQueues \/ ReaderEnds \/ WriterTakes
  <2>1. Stream' = Stream /\ UNCHANGED <<session, responsesOpen>>
    BY <1>2, StreamSame, StreamKept DEF ReaderQueues, ReaderEnds, WriterTakes, orchVars, histVars
  <2> QED
    BY <1>1, <2>1, BarrierStill
<1>3. CASE WriterEnds
  <2>1. Stream' \in Packets /\ Begins(Stream', Stream) /\ Stream \in Packets
    BY <1>3, StreamCut, StreamType
  <2>2. LiveIds' = LiveIds /\ InForce' = NO_SESSION
    BY <1>1, <1>3 DEF WriterEnds, LiveIds, InForce
  <2>3. Barred(Stream', LiveIds', InForce')
    BY <2>1, <2>2, BarredCut DEF BarrierInv
  <2> QED
    BY <2>3, BarrierIs
<1> QED
  BY <1>2, <1>3 DEF PortNext

-----------------------------------------------------------------------------
(* The answers stay in order throughout every behaviour. *)
OrderInv == NumberedInv /\ DirectInv /\ BarrierInv

(* Nothing was answered when the port is opened. *)
LEMMA OrderInit == Init => OrderInv
<1> SUFFICES ASSUME Init PROVE DirectInv /\ BarrierInv
  BY NumberedInit DEF OrderInv
<1>1. Stream = <<>> /\ sent = 0 /\ requests = <<>> /\ session = NO_SESSION
  BY DEF Init, Stream
<1>2. DOMAIN Stream = {} /\ Len(requests) = 0
  BY <1>1
<1>3. Direct(Stream) = {} /\ Ids(Stream) = {}
  BY <1>2 DEF Direct, Ids
<1>4. DirectInv
  BY <1>1, <1>2, <1>3 DEF DirectInv, InOrder, Asked
<1>5. BarrierInv
  <2>1. InForce = NO_SESSION
    BY <1>1 DEF InForce
  <2>2. NothingOlderAfterSwitch(Stream) /\ \A r : SwitchedBefore(Stream, r)
    BY <1>2 DEF NothingOlderAfterSwitch, SwitchedBefore
  <2> QED
    BY <2>1, <2>2 DEF BarrierInv, Barred
<1> QED
  BY <1>4, <1>5

(* Every step keeps the answers in order. *)
LEMMA OrderStep == OrderInv /\ [Next]_vars => OrderInv'
<1> SUFFICES ASSUME OrderInv, [Next]_vars PROVE DirectInv' /\ BarrierInv'
  BY NumberedStep DEF OrderInv
<1> USE DEF OrderInv, NumberedInv
<1>1. CASE OrchNext
  BY <1>1, DirectOrch, BarrierOrch
<1>2. CASE PortNext
  BY <1>2, DirectPort, BarrierPort
<1>3. ASSUME NEW r \in RequestId, CommandNext(r)
      PROVE  DirectInv' /\ BarrierInv'
  <2>1. TaskNext(r) /\ UNCHANGED restVars
    BY <1>3 DEF CommandNext
  <2>2. Stream' = Stream /\ UNCHANGED <<sent, requests, responsesOpen, orch, session>>
    BY <2>1, StreamSame DEF restVars, orchVars, ioVars, histVars
  <2>3. \A q \in RequestId : Live(q)' <=> Live(q)
    BY <2>1, LiveTask
  <2> QED
    BY <2>2, <2>3, DirectStill, BarrierStill
<1>4. CASE UNCHANGED vars
  <2>1. Stream' = Stream /\ UNCHANGED <<sent, requests, responsesOpen, orch, session>>
    BY <1>4, StreamSame DEF vars, orchVars, ioVars, histVars
  <2>2. \A q \in RequestId : Live(q)' <=> Live(q)
    BY <1>4, LiveSame DEF vars, taskVars, spawnVars, superVars
  <2> QED
    BY <2>1, <2>2, DirectStill, BarrierStill
<1> QED
  BY <1>1, <1>2, <1>3, <1>4 DEF Next

(* The answers are in order in every state of the specification. *)
LEMMA OrderAlways == Spec => []OrderInv
BY OrderInit, OrderStep, PTL DEF Spec

(* Every request that was taken is answered once, in the order asked, and  *)
(* none is left out: handle_packet answers each in the step that takes it, *)
(* and the answers of tasks in between change nothing of that.             *)
THEOREM RequestsAnsweredInOrderHolds == Spec => []RequestsAnsweredInOrder
<1>1. OrderInv => RequestsAnsweredInOrder
  BY DirectIsAnswered DEF OrderInv, NumberedInv
<1> QED
  BY <1>1, OrderAlways, PTL

(* Nothing of a replaced session is heard after the new one is announced:  *)
(* handle_initialize leaves no task whose sends could still succeed.       *)
THEOREM FreshSessionBarrierHolds == Spec => []FreshSessionBarrier
<1>1. OrderInv => FreshSessionBarrier
  BY DEF OrderInv, BarrierInv, Barred, FreshSessionBarrier
<1> QED
  BY <1>1, OrderAlways, PTL

-----------------------------------------------------------------------------
(* What the host receives: every line of a command before its end          *)
(* (OutputComplete), and in all just what AgentProtocol promises           *)
(* (ImplementsProtocol).                                                   *)

IsLine(p) == p.content.type = "CommandOutput"
IsEnd(p) == p.content.type = "CommandFinished"

(* p is line n of stream x of the command of r. *)
IsLineOf(p, r, x, n) == IsLine(p) /\ p.id = r /\ p.content.stream = x /\ p.content.line = n

(* Lines of one stream of one command come in the order they were read. *)
Follows(p, q) ==
  IsLine(p) /\ IsLine(q) /\ p.id = q.id /\ p.content.stream = q.content.stream
    => p.content.line < q.content.line

(* So do those in the answers s and in the messages q waiting behind them. *)
LinesFollow(s, q) ==
  /\ \A i, j \in DOMAIN s : i < j => Follows(s[i], s[j])
  /\ \A i, j \in DOMAIN q :
       i < j /\ IsAnswer(q[i]) /\ IsAnswer(q[j]) => Follows(q[i].response, q[j].response)
  /\ \A i \in DOMAIN s, j \in DOMAIN q : IsAnswer(q[j]) => Follows(s[i], q[j].response)

(* Line n is among the answers s, or waits in q. *)
InAnswers(s, r, x, n) == \E i \in DOMAIN s : IsLineOf(s[i], r, x, n)
InQueue(q, r, x, n) == \E j \in DOMAIN q : IsAnswer(q[j]) /\ IsLineOf(q[j].response, r, x, n)
Carried(s, q, r, x, n) == InAnswers(s, r, x, n) \/ InQueue(q, r, x, n)

(* How many lines of a stream the pump has passed on. *)
Passed(r, x) == IF pump[r][x] = "send" THEN taken[r][x] - 1 ELSE taken[r][x]

(* These lines, and while nothing is lost all of them, are on their way.   *)
LinesWerePassed ==
  \A r \in RequestId, x \in CommandStream, n \in Nat :
    Carried(Stream, messages, r, x, n) => n \in 1..Passed(r, x)

NoLineMissing ==
  \A r \in RequestId, x \in CommandStream :
    Live(r) /\ responsesOpen =>
      \A n \in 1..Passed(r, x) : Carried(Stream, messages, r, x, n)

Drained(r) == supervisor[r] \in {"report", "release", "done"}
Reported(r) == supervisor[r] \in {"release", "done"}

(* A pump that is done has read all there is, if its channel is there; the *)
(* supervisor awaits the pumps.                                            *)
PumpsDrained ==
  \A r \in RequestId, x \in CommandStream :
    /\ taken[r][x] <= written[r][x]
    /\ pump[r][x] = "send" => taken[r][x] > 0
    /\ Drained(r) => pump[r][x] = "done"
    /\ pump[r][x] = "done" /\ Live(r) => taken[r][x] = written[r][x]

(* A CommandFinished is the last a task sends; what a reported command     *)
(* wrote comes before it.                                                  *)
EndsWait(q) ==
  \A j \in DOMAIN q : IsAnswer(q[j]) /\ IsEnd(q[j].response) =>
    /\ Reported(q[j].response.id)
    /\ \A k \in DOMAIN q : j < k /\ IsAnswer(q[k]) => q[k].response.id # q[j].response.id

EndsComeLast(s) ==
  \A i \in DOMAIN s : IsEnd(s[i]) =>
    /\ Reported(s[i].id)
    /\ \A x \in CommandStream : \A n \in 1..written[s[i].id][x] :
         \E j \in 1..(i - 1) : IsLineOf(s[j], s[i].id, x, n)

LineInv ==
  /\ PumpsDrained
  /\ LinesFollow(Stream, messages)
  /\ LinesWerePassed
  /\ NoLineMissing
  /\ EndsWait(messages)
  /\ EndsComeLast(Stream)

-----------------------------------------------------------------------------
(* The counters of a pump are numbers. *)
LEMMA Counts ==
  ASSUME IInv, NEW r \in RequestId, NEW x \in CommandStream
  PROVE  /\ written[r][x] \in Nat /\ taken[r][x] \in Nat
         /\ pump[r][x] \in {"none", "read", "send", "done"}
<1>1. /\ written \in [RequestId -> [CommandStream -> Nat]]
      /\ taken \in [RequestId -> [CommandStream -> Nat]]
      /\ pump \in [RequestId -> [CommandStream -> {"none", "read", "send", "done"}]]
  BY DEF IInv, Types, TypeOK
<1> QED
  BY <1>1

(* The invariant gives the property. *)
LEMMA LinesGiveOutput ==
  ASSUME IInv, LineInv
  PROVE  OutputComplete
<1> SUFFICES ASSUME NEW r \in RequestId, At(r, "CommandFinished") # {}, NEW s \in CommandStream
             PROVE  LET lines == {i \in At(r, "CommandOutput") : Stream[i].content.stream = s}
                    IN /\ {Stream[i].content.line : i \in lines} = 1..written[r][s]
                       /\ \A i, j \in lines : i < j => Stream[i].content.line < Stream[j].content.line
  BY DEF OutputComplete
<1> DEFINE lines == {i \in At(r, "CommandOutput") : Stream[i].content.stream = s}
<1>1. PICK e \in DOMAIN Stream : Stream[e].id = r /\ IsEnd(Stream[e])
  BY DEF At, IsEnd
<1>2. \A i : i \in lines <=> /\ i \in DOMAIN Stream /\ IsLine(Stream[i])
                             /\ Stream[i].id = r /\ Stream[i].content.stream = s
  BY DEF At, IsLine
<1>3. Stream \in Packets /\ written[r][s] \in Nat /\ taken[r][s] \in Nat
  BY StreamType, Counts
<1>4. \A i, j \in lines : i < j => Stream[i].content.line < Stream[j].content.line
  BY <1>2 DEF LineInv, LinesFollow, Follows
<1>5. ASSUME NEW i \in lines PROVE Stream[i].content.line \in 1..written[r][s]
  <2>1. Stream[i] \in AgentPacket(GuestResponse) /\ IsLine(Stream[i])
    BY <1>2, <1>3 DEF Packets
  <2>2. Stream[i].content.line \in Nat
    BY <2>1 DEF AgentPacket, GuestResponse, IsLine
  <2>3. Carried(Stream, messages, r, s, Stream[i].content.line)
    BY <1>2, <2>1 DEF Carried, InAnswers, IsLineOf
  <2>4. Stream[i].content.line \in 1..Passed(r, s)
    BY <2>2, <2>3 DEF LineInv, LinesWerePassed
  <2>5. taken[r][s] <= written[r][s]
    BY DEF LineInv, PumpsDrained
  <2> QED
    BY <1>3, <2>2, <2>4, <2>5 DEF Passed
<1>6. ASSUME NEW n \in 1..written[r][s] PROVE \E i \in lines : Stream[i].content.line = n
  <2>1. PICK j \in 1..(e - 1) : IsLineOf(Stream[j], r, s, n)
    BY <1>1 DEF LineInv, EndsComeLast
  <2>2. j \in DOMAIN Stream
    BY <1>1, <1>3, <2>1 DEF Packets
  <2> QED
    BY <1>2, <2>1, <2>2 DEF IsLineOf
<1> HIDE DEF lines
<1>7. {Stream[i].content.line : i \in lines} = 1..written[r][s]
  BY <1>5, <1>6
<1> QED
  BY <1>4, <1>7 DEF lines

-----------------------------------------------------------------------------
(* What the handlers do to the lines that are on their way. *)

Messages == Seq(OrchestratorMessage)

(* An answer that is no line is added. *)
LEMMA OtherAnswerAdded ==
  ASSUME NEW s \in Packets, NEW q \in Messages, NEW p \in AgentPacket(GuestResponse), ~IsLine(p),
         LinesFollow(s, q)
  PROVE  /\ LinesFollow(Append(s, p), q)
         /\ \A r, x, n : Carried(Append(s, p), q, r, x, n) <=> Carried(s, q, r, x, n)
<1> DEFINE t == Append(s, p)
<1>1. /\ Len(s) \in Nat /\ DOMAIN s = 1..Len(s) /\ DOMAIN t = 1..(Len(s) + 1)
      /\ \A i \in 1..Len(s) : t[i] = s[i]
      /\ t[Len(s) + 1] = p
  BY Appended DEF Packets
<1> HIDE DEF t
<1>2. \A i \in DOMAIN t : IsLine(t[i]) => i \in DOMAIN s /\ t[i] = s[i]
  BY <1>1
<1>3. \A i, j \in DOMAIN t : i < j => Follows(t[i], t[j])
  BY <1>2 DEF LinesFollow, Follows
<1>4. \A i \in DOMAIN t, j \in DOMAIN q : IsAnswer(q[j]) => Follows(t[i], q[j].response)
  BY <1>2 DEF LinesFollow, Follows
<1>5. LinesFollow(t, q)
  BY <1>3, <1>4 DEF LinesFollow
<1>6. \A r, x, n : InAnswers(t, r, x, n) <=> InAnswers(s, r, x, n)
  BY <1>1, <1>2 DEF InAnswers, IsLineOf
<1> QED
  BY <1>5, <1>6 DEF Carried, t

(* The first message leaves the queue, whether or not it is passed on. *)
LEMMA FirstTaken ==
  ASSUME NEW s \in Packets, NEW q \in Messages, q # <<>>, LinesFollow(s, q)
  PROVE  /\ LinesFollow(s, Tail(q))
         /\ \A r, x, n : Carried(s, Tail(q), r, x, n) => Carried(s, q, r, x, n)
         /\ ~IsAnswer(q[1]) =>
              \A r, x, n : Carried(s, q, r, x, n) => Carried(s, Tail(q), r, x, n)
<1> DEFINE u == Tail(q)
<1>1. /\ Len(q) \in Nat \ {0} /\ DOMAIN q = 1..Len(q) /\ DOMAIN u = 1..(Len(q) - 1)
      /\ \A i \in 1..(Len(q) - 1) : u[i] = q[i + 1]
  BY Taken DEF Messages
<1> HIDE DEF u
<1>2. \A i \in DOMAIN u : i \in Nat /\ i + 1 \in DOMAIN q /\ u[i] = q[i + 1]
  BY <1>1
<1>3. \A i, j \in DOMAIN u : i < j => i + 1 < j + 1
  BY <1>2
<1>4. LinesFollow(s, u)
  BY <1>2, <1>3 DEF LinesFollow
<1>5. \A r, x, n : InQueue(u, r, x, n) => InQueue(q, r, x, n)
  BY <1>2 DEF InQueue
<1>6. \A i \in DOMAIN q : i # 1 => i - 1 \in DOMAIN u /\ q[i] = u[i - 1]
  BY <1>1
<1>7. ~IsAnswer(q[1]) => \A r, x, n : InQueue(q, r, x, n) => InQueue(u, r, x, n)
  BY <1>6 DEF InQueue
<1> QED
  BY <1>4, <1>5, <1>7 DEF Carried, u

(* The first message, an answer, is passed on: its line stays on its way. *)
LEMMA FirstPassedOn ==
  ASSUME NEW s \in Packets, NEW q \in Messages, q # <<>>, IsAnswer(q[1]), LinesFollow(s, q)
  PROVE  /\ LinesFollow(Append(s, q[1].response), Tail(q))
         /\ \A r, x, n : Carried(Append(s, q[1].response), Tail(q), r, x, n)
                           <=> Carried(s, q, r, x, n)
<1> DEFINE u == Tail(q)
           p == q[1].response
           t == Append(s, p)
<1>1. /\ Len(q) \in Nat \ {0} /\ DOMAIN q = 1..Len(q) /\ DOMAIN u = 1..(Len(q) - 1)
      /\ \A i \in 1..(Len(q) - 1) : u[i] = q[i + 1]
  BY Taken DEF Messages
<1>2. /\ Len(s) \in Nat /\ DOMAIN s = 1..Len(s) /\ DOMAIN t = 1..(Len(s) + 1)
      /\ \A i \in 1..Len(s) : t[i] = s[i]
      /\ t[Len(s) + 1] = p
  BY Appended DEF Packets
<1> HIDE DEF u, t
<1>3. \A i \in DOMAIN u : i \in Nat /\ i + 1 \in DOMAIN q /\ u[i] = q[i + 1] /\ 1 < i + 1
  BY <1>1
<1>4. \A i, j \in DOMAIN u : i < j => i + 1 < j + 1
  BY <1>3
<1>5. 1 \in DOMAIN q
  BY <1>1
<1>6. \A i, j \in DOMAIN t : i < j => Follows(t[i], t[j])
  <2>1. ASSUME NEW i \in DOMAIN t, NEW j \in DOMAIN t, i < j PROVE Follows(t[i], t[j])
    <3>1. i \in DOMAIN s /\ t[i] = s[i]
      BY <1>2, <2>1
    <3>2. CASE j \in DOMAIN s
      BY <1>2, <2>1, <3>1, <3>2 DEF LinesFollow
    <3>3. CASE j = Len(s) + 1
      BY <1>2, <1>5, <3>1, <3>3 DEF LinesFollow
    <3> QED
      BY <1>2, <3>2, <3>3
  <2> QED
    BY <2>1
<1>7. \A i \in DOMAIN t, j \in DOMAIN u : IsAnswer(u[j]) => Follows(t[i], u[j].response)
  <2>1. ASSUME NEW i \in DOMAIN t, NEW j \in DOMAIN u, IsAnswer(u[j])
        PROVE  Follows(t[i], u[j].response)
    <3>1. CASE i \in DOMAIN s
      BY <1>2, <1>3, <2>1, <3>1 DEF LinesFollow
    <3>2. CASE i = Len(s) + 1
      BY <1>2, <1>3, <1>5, <2>1, <3>2 DEF LinesFollow
    <3> QED
      BY <1>2, <3>1, <3>2
  <2> QED
    BY <2>1
<1>8. LinesFollow(t, u)
  BY <1>3, <1>4, <1>6, <1>7 DEF LinesFollow
<1>9. ASSUME NEW r, NEW x, NEW n
      PROVE  Carried(t, u, r, x, n) <=> Carried(s, q, r, x, n)
  <2>1. InAnswers(t, r, x, n) <=> InAnswers(s, r, x, n) \/ IsLineOf(p, r, x, n)
    <3>1. \A i \in DOMAIN t : (i \in DOMAIN s /\ t[i] = s[i]) \/ t[i] = p
      BY <1>2
    <3>2. (\A i \in DOMAIN s : i \in DOMAIN t /\ t[i] = s[i]) /\ \E i \in DOMAIN t : t[i] = p
      <4>1. Len(s) + 1 \in DOMAIN t
        BY <1>2
      <4> QED
        BY <1>2, <4>1
    <3> QED
      BY <3>1, <3>2 DEF InAnswers
  <2>2. InQueue(q, r, x, n) <=> InQueue(u, r, x, n) \/ IsLineOf(p, r, x, n)
    <3>1. \A i \in DOMAIN q : i # 1 => i - 1 \in DOMAIN u /\ q[i] = u[i - 1]
      BY <1>1
    <3> QED
      BY <1>3, <1>5, <3>1 DEF InQueue
  <2> QED
    BY <2>1, <2>2 DEF Carried
<1> QED
  BY <1>8, <1>9 DEF t, u

(* The answers not written are lost, or the messages not passed on. *)
LEMMA AnswersCut ==
  ASSUME NEW s \in Packets, NEW t \in Packets, Begins(t, s), NEW q, LinesFollow(s, q)
  PROVE  /\ LinesFollow(t, q)
         /\ \A r, x, n : Carried(t, q, r, x, n) => Carried(s, q, r, x, n)
<1>1. \A i \in DOMAIN t : i \in DOMAIN s /\ t[i] = s[i]
  BY DEF Packets, Begins
<1>2. LinesFollow(t, q)
  BY <1>1 DEF LinesFollow
<1>3. \A r, x, n : InAnswers(t, r, x, n) => InAnswers(s, r, x, n)
  BY <1>1 DEF InAnswers
<1> QED
  BY <1>2, <1>3 DEF Carried

(* The message channel is dropped. *)
LEMMA MessagesDropped ==
  ASSUME NEW s \in Packets, NEW q, LinesFollow(s, q)
  PROVE  /\ LinesFollow(s, <<>>)
         /\ \A r, x, n : Carried(s, <<>>, r, x, n) => Carried(s, q, r, x, n)
<1>1. DOMAIN <<>> = {}
  OBVIOUS
<1> QED
  BY <1>1 DEF LinesFollow, Carried, InQueue

(* A task sends something. *)
LEMMA MessageSent ==
  ASSUME NEW s \in Packets, NEW q \in Messages, NEW m, LinesFollow(s, q),
         IsAnswer(m) => /\ \A i \in DOMAIN s : Follows(s[i], m.response)
                        /\ \A j \in DOMAIN q : IsAnswer(q[j]) => Follows(q[j].response, m.response)
  PROVE  /\ LinesFollow(s, Append(q, m))
         /\ \A r, x, n : Carried(s, Append(q, m), r, x, n)
                           <=> \/ Carried(s, q, r, x, n)
                               \/ IsAnswer(m) /\ IsLineOf(m.response, r, x, n)
<1> DEFINE u == Append(q, m)
<1>1. /\ Len(q) \in Nat /\ DOMAIN q = 1..Len(q) /\ DOMAIN u = 1..(Len(q) + 1)
      /\ \A i \in 1..Len(q) : u[i] = q[i]
      /\ u[Len(q) + 1] = m
  BY Appended DEF Messages
<1> HIDE DEF u
<1>2. ASSUME NEW i \in DOMAIN u, NEW j \in DOMAIN u, i < j, IsAnswer(u[i]), IsAnswer(u[j])
      PROVE  Follows(u[i].response, u[j].response)
  <2>1. i \in DOMAIN q /\ u[i] = q[i]
    BY <1>1, <1>2
  <2>2. CASE j \in DOMAIN q
    BY <1>1, <1>2, <2>1, <2>2 DEF LinesFollow
  <2>3. CASE j = Len(q) + 1
    BY <1>1, <1>2, <2>1, <2>3
  <2> QED
    BY <1>1, <2>2, <2>3
<1>3. ASSUME NEW i \in DOMAIN s, NEW j \in DOMAIN u, IsAnswer(u[j])
      PROVE  Follows(s[i], u[j].response)
  <2>1. CASE j \in DOMAIN q
    BY <1>1, <1>3, <2>1 DEF LinesFollow
  <2>2. CASE j = Len(q) + 1
    BY <1>1, <1>3, <2>2
  <2> QED
    BY <1>1, <2>1, <2>2
<1>4. LinesFollow(s, u)
  BY <1>2, <1>3 DEF LinesFollow
<1>5. ASSUME NEW r, NEW x, NEW n
      PROVE  Carried(s, u, r, x, n)
               <=> Carried(s, q, r, x, n) \/ (IsAnswer(m) /\ IsLineOf(m.response, r, x, n))
  <2>1. \A i \in DOMAIN u : (i \in DOMAIN q /\ u[i] = q[i]) \/ u[i] = m
    BY <1>1
  <2>2. (\A i \in DOMAIN q : i \in DOMAIN u /\ u[i] = q[i]) /\ \E i \in DOMAIN u : u[i] = m
    <3>1. Len(q) + 1 \in DOMAIN u
      BY <1>1
    <3> QED
      BY <1>1, <3>1
  <2>3. ASSUME InQueue(u, r, x, n)
        PROVE  InQueue(q, r, x, n) \/ (IsAnswer(m) /\ IsLineOf(m.response, r, x, n))
    <3>1. PICK j \in DOMAIN u : IsAnswer(u[j]) /\ IsLineOf(u[j].response, r, x, n)
      BY <2>3 DEF InQueue
    <3>2. CASE j \in DOMAIN q /\ u[j] = q[j]
      BY <3>1, <3>2 DEF InQueue, IsAnswer
    <3>3. CASE u[j] = m
      BY <3>1, <3>3 DEF IsAnswer, IsLineOf
    <3> QED
      BY <2>1, <3>2, <3>3
  <2>4. InQueue(q, r, x, n) => InQueue(u, r, x, n)
    BY <2>2 DEF InQueue
  <2>5. IsAnswer(m) /\ IsLineOf(m.response, r, x, n) => InQueue(u, r, x, n)
    BY <2>2 DEF InQueue
  <2> QED
    BY <2>3, <2>4, <2>5 DEF Carried
<1> QED
  BY <1>4, <1>5 DEF u

-----------------------------------------------------------------------------
(* What a reported command has written stays, and it stays reported. *)
ReportsStand ==
  \A r \in RequestId : Reported(r) =>
    /\ supervisor'[r] \in {"release", "done"}
    /\ \A x \in CommandStream : written'[r][x] = written[r][x]

(* Answers, sent or waiting, are to requests. *)
LEMMA PacketIds ==
  ASSUME IInv
  PROVE  /\ \A i \in DOMAIN Stream : Stream[i].id \in RequestId
         /\ \A j \in DOMAIN messages : IsAnswer(messages[j]) => messages[j].response.id \in RequestId
<1>1. \A i \in DOMAIN Stream : Stream[i] \in AgentPacket(GuestResponse)
  BY StreamType DEF Packets
<1>2. \A j \in DOMAIN messages : IsAnswer(messages[j]) => messages[j].response \in AgentPacket(GuestResponse)
  BY MessageFields DEF IInv, Types, TypeOK, IsAnswer
<1> QED
  BY <1>1, <1>2 DEF AgentPacket

(* An end already among the answers, or lost, or new. *)
LEMMA EndsStay ==
  ASSUME IInv, ReportsStand, EndsComeLast(Stream),
         \A i \in DOMAIN Stream' :
           \/ i \in DOMAIN Stream /\ \A j \in 1..i : Stream'[j] = Stream[j]
           \/ ~IsEnd(Stream'[i])
           \/ /\ Stream'[i].id \in RequestId /\ Reported(Stream'[i].id)
              /\ \A x \in CommandStream : \A n \in 1..written[Stream'[i].id][x] :
                   \E j \in 1..(i - 1) : IsLineOf(Stream'[j], Stream'[i].id, x, n)
  PROVE  EndsComeLast(Stream)'
<1> SUFFICES ASSUME NEW i \in DOMAIN Stream', IsEnd(Stream'[i])
             PROVE  /\ Reported(Stream[i].id)'
                    /\ \A x \in CommandStream : \A n \in 1..written'[Stream'[i].id][x] :
                         \E j \in 1..(i - 1) : IsLineOf(Stream'[j], Stream'[i].id, x, n)
  BY DEF EndsComeLast, IsEnd, IsLineOf, IsLine
<1> DEFINE r == Stream'[i].id
<1>1. /\ r \in RequestId /\ Reported(r)
      /\ \A x \in CommandStream : \A n \in 1..written[r][x] :
           \E j \in 1..(i - 1) : IsLineOf(Stream'[j], r, x, n)
  <2>1. CASE i \in DOMAIN Stream /\ \A j \in 1..i : Stream'[j] = Stream[j]
    <3>1. i \in 1..i /\ \A j \in 1..(i - 1) : j \in 1..i
      BY <2>1, StreamType DEF Packets
    <3>2. Stream'[i] = Stream[i] /\ \A j \in 1..(i - 1) : Stream'[j] = Stream[j]
      BY <2>1, <3>1
    <3>3. IsEnd(Stream[i]) /\ Stream[i].id \in RequestId /\ r = Stream[i].id
      BY <2>1, <3>2, PacketIds DEF IsEnd
    <3>4. /\ Reported(Stream[i].id)
          /\ \A x \in CommandStream : \A n \in 1..written[Stream[i].id][x] :
               \E j \in 1..(i - 1) : IsLineOf(Stream[j], Stream[i].id, x, n)
      BY <2>1, <3>3 DEF EndsComeLast
    <3> QED
      BY <3>2, <3>3, <3>4
  <2> QED
    BY <2>1
<1> HIDE DEF r
<1>2. /\ supervisor'[r] \in {"release", "done"}
      /\ \A x \in CommandStream : written'[r][x] = written[r][x]
  BY <1>1 DEF ReportsStand
<1> QED
  BY <1>1, <1>2 DEF r, Reported

(* The ends waiting in the queue, when messages are taken or lost. *)
LEMMA EndsWaiting ==
  ASSUME IInv, ReportsStand, EndsWait(messages),
         \/ messages' = messages
         \/ messages' = <<>>
         \/ messages # <<>> /\ messages' = Tail(messages)
  PROVE  EndsWait(messages)'
<1>1. \A j \in DOMAIN messages : IsAnswer(messages[j]) /\ IsEnd(messages[j].response) =>
        /\ supervisor'[messages[j].response.id] \in {"release", "done"}
        /\ \A k \in DOMAIN messages : j < k /\ IsAnswer(messages[k])
             => messages[k].response.id # messages[j].response.id
  BY PacketIds DEF EndsWait, ReportsStand
<1>2. CASE messages' = messages
  BY <1>1, <1>2 DEF EndsWait, Reported, IsAnswer, IsEnd
<1>3. CASE messages' = <<>>
  BY <1>3 DEF EndsWait
<1>4. CASE messages # <<>> /\ messages' = Tail(messages)
  <2>1. /\ DOMAIN messages' = 1..(Len(messages) - 1) /\ Len(messages) \in Nat
        /\ \A i \in 1..(Len(messages) - 1) : messages'[i] = messages[i + 1]
        /\ DOMAIN messages = 1..Len(messages)
    BY <1>4, Taken DEF IInv, Types, TypeOK
  <2>2. \A i \in DOMAIN messages' : i \in Nat /\ i + 1 \in DOMAIN messages /\ messages'[i] = messages[i + 1]
    BY <2>1
  <2>3. ASSUME NEW j \in DOMAIN messages', IsAnswer(messages'[j]), IsEnd(messages'[j].response)
        PROVE  /\ Reported(messages[j].response.id)'
               /\ \A k \in DOMAIN messages' : j < k /\ IsAnswer(messages'[k])
                    => messages'[k].response.id # messages'[j].response.id
    <3>1. \A k \in DOMAIN messages' : j < k => j + 1 < k + 1
      BY <2>2
    <3>2. supervisor'[messages[j + 1].response.id] \in {"release", "done"}
      BY <1>1, <2>2, <2>3
    <3> QED
      BY <1>1, <2>2, <2>3, <3>1, <3>2 DEF Reported
  <2> QED
    BY <2>3 DEF EndsWait, IsAnswer, IsEnd
<1> QED
  BY <1>2, <1>3, <1>4

(* A message is sent: an end is then the last of its task. *)
LEMMA EndsSent ==
  ASSUME IInv, ReportsStand, EndsWait(messages), NEW m, messages' = Append(messages, m),
         IsAnswer(m) => /\ m.response.id \in RequestId
                        /\ ~Reported(m.response.id)
                        /\ IsEnd(m.response) => supervisor'[m.response.id] \in {"release", "done"}
  PROVE  EndsWait(messages)'
<1>1. /\ DOMAIN messages' = 1..(Len(messages) + 1) /\ Len(messages) \in Nat
      /\ \A i \in 1..Len(messages) : messages'[i] = messages[i]
      /\ DOMAIN messages = 1..Len(messages) /\ messages'[Len(messages) + 1] = m
  BY Appended DEF IInv, Types, TypeOK
<1>2. ASSUME NEW j \in DOMAIN messages', IsAnswer(messages'[j]), IsEnd(messages'[j].response)
      PROVE  /\ Reported(messages[j].response.id)'
             /\ \A k \in DOMAIN messages' : j < k /\ IsAnswer(messages'[k])
                  => messages'[k].response.id # messages'[j].response.id
  <2>1. CASE j \in DOMAIN messages
    <3>1. /\ messages'[j] = messages[j] /\ Reported(messages[j].response.id)
          /\ messages[j].response.id \in RequestId
          /\ \A k \in DOMAIN messages : j < k /\ IsAnswer(messages[k])
               => messages[k].response.id # messages[j].response.id
      BY <1>1, <1>2, <2>1, PacketIds DEF EndsWait
    <3>2. Reported(messages'[j].response.id)
      BY <3>1
    <3>3. supervisor'[messages'[j].response.id] \in {"release", "done"}
      BY <3>1, <3>2 DEF ReportsStand, Reported
    <3>4. ASSUME NEW k \in DOMAIN messages', j < k, IsAnswer(messages'[k])
          PROVE  messages'[k].response.id # messages'[j].response.id
      <4>1. CASE k \in DOMAIN messages
        BY <1>1, <3>1, <3>4, <4>1
      <4>2. CASE k = Len(messages) + 1
        BY <1>1, <3>2, <3>4, <4>2
      <4> QED
        BY <1>1, <4>1, <4>2
    <3> QED
      BY <3>3, <3>4 DEF Reported
  <2>2. CASE j = Len(messages) + 1
    <3>1. \A k \in DOMAIN messages' : ~(j < k)
      BY <1>1, <2>2
    <3>2. messages'[j] = m
      BY <1>1, <2>2
    <3>3. supervisor'[m.response.id] \in {"release", "done"}
      BY <1>2, <3>2 DEF Reported
    <3> QED
      BY <3>1, <3>2, <3>3 DEF Reported
  <2> QED
    BY <1>1, <2>1, <2>2
<1> QED
  BY <1>2 DEF EndsWait, IsAnswer, IsEnd

(* No line is passed on, and no channel comes back. *)
LEMMA LinesStay ==
  ASSUME LinesWerePassed, NoLineMissing,
         \A r \in RequestId, x \in CommandStream : Passed(r, x)' = Passed(r, x),
         \A r \in RequestId, x \in CommandStream, n \in Nat :
           Carried(Stream', messages', r, x, n) => Carried(Stream, messages, r, x, n),
         \A r \in RequestId, x \in CommandStream : Live(r)' /\ responsesOpen' =>
           \/ Passed(r, x) = 0
           \/ /\ Live(r) /\ responsesOpen
              /\ \A n \in Nat : Carried(Stream, messages, r, x, n)
                                  => Carried(Stream', messages', r, x, n)
  PROVE  LinesWerePassed' /\ NoLineMissing'
<1>1. \A r, x, n : Carried(Stream, messages, r, x, n)' <=> Carried(Stream', messages', r, x, n)
  BY DEF Carried, InAnswers, InQueue, IsLineOf, IsLine, IsAnswer
<1>2. LinesWerePassed'
  <2>1. ASSUME NEW r \in RequestId, NEW x \in CommandStream, NEW n \in Nat,
               Carried(Stream', messages', r, x, n)
        PROVE  n \in 1..Passed(r, x)'
    BY <2>1 DEF LinesWerePassed
  <2> QED
    BY <1>1, <2>1 DEF LinesWerePassed
<1>3. NoLineMissing'
  <2>1. ASSUME NEW r \in RequestId, NEW x \in CommandStream, Live(r)', responsesOpen',
               NEW n \in 1..Passed(r, x)'
        PROVE  Carried(Stream', messages', r, x, n)
    <3>1. n \in 1..Passed(r, x) /\ Passed(r, x) # 0 /\ n \in Nat
      BY <2>1
    <3> QED
      BY <2>1, <3>1 DEF NoLineMissing
  <2> QED
    BY <1>1, <2>1 DEF NoLineMissing
<1> QED
  BY <1>2, <1>3

-----------------------------------------------------------------------------
(* The tasks as far as LineInv is about them. *)
lineVars == <<written, taken, pump, supervisor>>

(* The pumps stay drained when no task is revived. *)
LEMMA PumpsUntouched ==
  ASSUME PumpsDrained, UNCHANGED lineVars, \A r \in RequestId : Live(r)' => Live(r)
  PROVE  PumpsDrained'
BY DEF PumpsDrained, lineVars, Drained

(* What the orchestrator does to tasks: it drops all, or starts one.       *)
LEMMA PumpsOrch ==
  ASSUME IInv, MapInv, Waiting, PumpsDrained, OrchNext
  PROVE  /\ PumpsDrained' /\ ReportsStand
         /\ \A r \in RequestId, x \in CommandStream : Passed(r, x)' = Passed(r, x)
         /\ \A r \in RequestId, x \in CommandStream : Live(r)' => Live(r) \/ Passed(r, x) = 0
<1> USE DEF superVars, outputVars, spawnVars, processVars
<1>1. ASSUME UNCHANGED lineVars, \A r \in RequestId : Live(r)' => Live(r)
      PROVE  /\ PumpsDrained' /\ ReportsStand
             /\ \A r \in RequestId, x \in CommandStream : Passed(r, x)' = Passed(r, x)
             /\ \A r \in RequestId, x \in CommandStream : Live(r)' => Live(r) \/ Passed(r, x) = 0
  BY <1>1, PumpsUntouched DEF ReportsStand, Reported, Passed, lineVars
<1>2. CASE ReInitialize \/ Ping \/ CommandKill \/ PassOn \/ RemoveTask \/ Send
  <2>1. UNCHANGED <<lineVars, via, channel>>
    BY <1>2 DEF ReInitialize, Ping, CommandKill, PassOn, RemoveTask, Send, taskVars, lineVars
  <2> QED
    BY <1>1, <2>1, LiveSame DEF lineVars
<1>3. CASE Initialize \/ Break
  <2>1. UNCHANGED <<lineVars, via>> /\ DropMessages
    BY <1>3 DEF Initialize, Break, lineVars
  <2> QED
    BY <1>1, <2>1, LiveDropped DEF lineVars
<1>4. CASE CommandExec
  <2> DEFINE r == Head(requests).id
             c == Head(requests).content.command
  <2>1. requests # <<>> /\ requests \in Seq(AgentPacket(HostRequest))
    BY <1>4 DEF CommandExec, Request, IInv, Types, TypeOK
  <2>2. r \in RequestId /\ Newest(r)
    BY <2>1, HeadIsNewest
  <2>3. c \in CommandId
    BY <1>4, <2>1, QueueHead, RequestFields DEF CommandExec, Request
  <2>4. Spawn(r, c) \/ UNCHANGED <<lineVars, via, channel>>
    BY <1>4 DEF CommandExec, lineVars
  <2>5. \A q \in RequestId : Live(q)' => Live(q) \/ q = r
    BY <1>4, <2>2, LiveExecuted
  <2> HIDE DEF r, c
  <2>6. CASE UNCHANGED <<lineVars, via, channel>>
    BY <1>1, <2>6, LiveSame DEF lineVars
  <2>7. CASE Spawn(r, c)
    <3>1. /\ \A q \in RequestId : q # r => supervisor'[q] = supervisor[q] /\ pump'[q] = pump[q]
          /\ supervisor'[r] = "drain"
          /\ \A x \in CommandStream : pump'[r][x] = "read"
          /\ written' = written /\ taken' = taken
      BY <2>2, <2>3, <2>7, SpawnEffect DEF IInv
    <3>2. ~Started(r)
      BY <2>2 DEF Newest
    <3>3. \A x \in CommandStream : pump[r][x] = "none" /\ written[r][x] = 0 /\ taken[r][x] = 0
      BY <2>2, <3>2 DEF MapInv, Unstarted
    <3>4. ~Reported(r) /\ \A x \in CommandStream : Passed(r, x) = 0
      BY <3>2, <3>3 DEF Started, Reported, Passed
    <3>5. ReportsStand
      BY <3>1, <3>4 DEF ReportsStand, Reported
    <3>6. ASSUME NEW q \in RequestId, NEW x \in CommandStream
          PROVE  /\ taken'[q][x] <= written'[q][x]
                 /\ pump'[q][x] = "send" => taken'[q][x] > 0
                 /\ Drained(q)' => pump'[q][x] = "done"
                 /\ pump'[q][x] = "done" /\ Live(q)' => taken'[q][x] = written'[q][x]
                 /\ Passed(q, x)' = Passed(q, x)
      <4>1. CASE q = r
        <5>1. 0 <= 0
          OBVIOUS
        <5> QED
          BY <3>1, <3>3, <3>4, <4>1, <5>1 DEF Drained, Passed
      <4>2. CASE q # r
        BY <2>5, <3>1, <4>2 DEF PumpsDrained, Drained, Passed
      <4> QED
        BY <4>1, <4>2
    <3>7. PumpsDrained'
      BY <3>6 DEF PumpsDrained
    <3> QED
      BY <2>5, <3>4, <3>5, <3>6, <3>7
  <2> QED
    BY <2>4, <2>6, <2>7
<1> QED
  BY <1>2, <1>3, <1>4 DEF OrchNext, Handle

(* The lines stay in order and complete when the answers and the messages  *)
(* change as the handlers change them.                                     *)
AnswersStand ==
  \A i \in DOMAIN Stream' :
    \/ i \in DOMAIN Stream /\ \A j \in 1..i : Stream'[j] = Stream[j]
    \/ ~IsEnd(Stream'[i])
    \/ /\ Stream'[i].id \in RequestId /\ Reported(Stream'[i].id)
       /\ \A x \in CommandStream : \A n \in 1..written[Stream'[i].id][x] :
            \E j \in 1..(i - 1) : IsLineOf(Stream'[j], Stream'[i].id, x, n)

(* Lines stay in order and complete when the answers and the messages      *)
(* change in step.                                                         *)
LEMMA LinesMoved ==
  ASSUME IInv, LineInv, PumpsDrained', ReportsStand,
         \A r \in RequestId, x \in CommandStream : Passed(r, x)' = Passed(r, x),
         \A r \in RequestId, x \in CommandStream : Live(r)' => Live(r) \/ Passed(r, x) = 0,
         LinesFollow(Stream', messages'),
         \A r, x, n : Carried(Stream', messages', r, x, n) => Carried(Stream, messages, r, x, n),
         \/ \A r, x, n : Carried(Stream, messages, r, x, n) => Carried(Stream', messages', r, x, n)
         \/ ~responsesOpen'
         \/ \A r \in RequestId : ~Live(r)',
         responsesOpen' => responsesOpen,
         AnswersStand,
         \/ messages' = messages
         \/ messages' = <<>>
         \/ messages # <<>> /\ messages' = Tail(messages)
  PROVE  LineInv'
<1>1. LinesFollow(Stream, messages)'
  BY DEF LinesFollow, Follows, IsAnswer, IsLine
<1>2. LinesWerePassed' /\ NoLineMissing'
  <2>1. LinesWerePassed /\ NoLineMissing
    BY DEF LineInv
  <2>2. ASSUME NEW r \in RequestId, NEW x \in CommandStream, Live(r)', responsesOpen'
        PROVE  \/ Passed(r, x) = 0
               \/ /\ Live(r) /\ responsesOpen
                  /\ \A n \in Nat : Carried(Stream, messages, r, x, n)
                                      => Carried(Stream', messages', r, x, n)
    BY <2>2
  <2> QED
    BY <2>1, <2>2, LinesStay
<1>3. EndsComeLast(Stream)'
  BY EndsStay DEF LineInv, AnswersStand
<1>4. EndsWait(messages)'
  BY EndsWaiting DEF LineInv
<1> QED
  BY <1>1, <1>2, <1>3, <1>4 DEF LineInv

(* The lines passed on are counted from 0. *)
LEMMA PassedIsNat ==
  ASSUME IInv, LineInv
  PROVE  \A r \in RequestId, x \in CommandStream : Passed(r, x) \in Nat
<1> SUFFICES ASSUME NEW r \in RequestId, NEW x \in CommandStream PROVE Passed(r, x) \in Nat
  OBVIOUS
<1>1. taken[r][x] \in Nat /\ (pump[r][x] = "send" => taken[r][x] > 0)
  BY Counts DEF LineInv, PumpsDrained
<1> QED
  BY <1>1 DEF Passed

(* Answers that stay the same stand. *)
LEMMA AnswersStandSame ==
  ASSUME IInv, Stream' = Stream
  PROVE  AnswersStand
BY DEF AnswersStand

(* So they do when one is added that is no end, or an end that is          *)
(* prepared.                                                               *)
LEMMA AnswersStandAdded ==
  ASSUME IInv, NEW p \in AgentPacket(GuestResponse), Stream' = Append(Stream, p),
         \/ ~IsEnd(p)
         \/ /\ Reported(p.id)
            /\ \A x \in CommandStream : \A n \in 1..written[p.id][x] : InAnswers(Stream, p.id, x, n)
  PROVE  AnswersStand
<1>1. /\ Len(Stream) \in Nat /\ DOMAIN Stream = 1..Len(Stream) /\ DOMAIN Stream' = 1..(Len(Stream) + 1)
      /\ \A i \in 1..Len(Stream) : Stream'[i] = Stream[i]
      /\ Stream'[Len(Stream) + 1] = p
  BY Appended, StreamType DEF Packets
<1>2. ASSUME NEW i \in 1..Len(Stream)
      PROVE  i \in DOMAIN Stream /\ \A j \in 1..i : Stream'[j] = Stream[j]
  BY <1>1
<1>3. ASSUME IsEnd(p)
      PROVE  /\ p.id \in RequestId /\ Reported(p.id)
             /\ \A x \in CommandStream : \A n \in 1..written[p.id][x] :
                  \E j \in 1..((Len(Stream) + 1) - 1) : IsLineOf(Stream'[j], p.id, x, n)
  <2>1. p.id \in RequestId /\ Reported(p.id)
    BY <1>3 DEF AgentPacket
  <2>2. ASSUME NEW x \in CommandStream, NEW n \in 1..written[p.id][x]
        PROVE  \E j \in 1..((Len(Stream) + 1) - 1) : IsLineOf(Stream'[j], p.id, x, n)
    <3>1. PICK j \in DOMAIN Stream : IsLineOf(Stream[j], p.id, x, n)
      BY <1>3, <2>2 DEF InAnswers
    <3>2. j \in 1..((Len(Stream) + 1) - 1) /\ Stream'[j] = Stream[j]
      BY <1>1
    <3> QED
      BY <3>1, <3>2
  <2> QED
    BY <2>1, <2>2
<1>4. \A i \in DOMAIN Stream' : i \in 1..Len(Stream) \/ i = Len(Stream) + 1
  BY <1>1
<1> QED
  BY <1>1, <1>2, <1>3, <1>4 DEF AnswersStand

(* The end of a command is passed on: its lines were passed on before.     *)
LEMMA EndIsPrepared ==
  ASSUME IInv, MapInv, LineInv, responsesOpen, NEW p \in AgentPacket(GuestResponse),
         1 \in DOMAIN messages, IsAnswer(messages[1]), p = messages[1].response, IsEnd(p)
  PROVE  /\ Reported(p.id)
         /\ \A x \in CommandStream : \A n \in 1..written[p.id][x] : InAnswers(Stream, p.id, x, n)
<1>1. /\ Reported(p.id) /\ p.id \in RequestId
      /\ \A k \in DOMAIN messages : 1 < k /\ IsAnswer(messages[k]) => messages[k].response.id # p.id
  BY DEF LineInv, EndsWait, AgentPacket
<1>2. Live(p.id)
  BY DEF MapInv, MessagesOfTasks, OfTask, Live
<1>3. \A k \in DOMAIN messages : k = 1 \/ 1 < k
  BY DEF IInv, Types, TypeOK
<1>4. ASSUME NEW x \in CommandStream, NEW n \in 1..written[p.id][x]
      PROVE  InAnswers(Stream, p.id, x, n)
  <2>1. Passed(p.id, x) = written[p.id][x]
    BY <1>1, <1>2 DEF LineInv, PumpsDrained, Passed, Drained, Reported
  <2>2. Carried(Stream, messages, p.id, x, n)
    BY <1>1, <1>2, <2>1 DEF LineInv, NoLineMissing
  <2>3. ASSUME NEW j \in DOMAIN messages, IsAnswer(messages[j]), IsLineOf(messages[j].response, p.id, x, n)
        PROVE  FALSE
    <3>1. j = 1
      BY <1>1, <1>3, <2>3 DEF IsLineOf
    <3> QED
      BY <2>3, <3>1 DEF IsLineOf, IsLine, IsEnd
  <2> QED
    BY <2>2, <2>3 DEF Carried, InQueue
<1> QED
  BY <1>1, <1>4

(* The handlers of requests and messages. *)
LEMMA LinesOrch ==
  ASSUME IInv, MapInv, Waiting, LineInv, OrchNext
  PROVE  LineInv'
<1>1. /\ PumpsDrained' /\ ReportsStand
      /\ \A r \in RequestId, x \in CommandStream : Passed(r, x)' = Passed(r, x)
      /\ \A r \in RequestId, x \in CommandStream : Live(r)' => Live(r) \/ Passed(r, x) = 0
  BY PumpsOrch DEF LineInv
<1>2. Stream \in Packets /\ messages \in Messages /\ LinesFollow(Stream, messages)
  BY StreamType DEF IInv, Types, TypeOK, Messages, LineInv
<1>3. CASE ReInitialize \/ Initialize \/ Ping \/ CommandExec \/ CommandKill
  <2> DEFINE p == held'
             t == Stream'
  <2>1. /\ p \in AgentPacket(GuestResponse) /\ responsesOpen' = responsesOpen
        /\ t = IF responsesOpen THEN Append(Stream, p) ELSE Stream
    BY <1>3, DirectAnswered, StreamGrows
  <2>2. ~IsLine(p) /\ ~IsEnd(p)
    BY <1>3, DirectAnswered DEF IsLine, IsEnd
  <2>3. AnswersStand
    BY <2>1, <2>2, AnswersStandSame, AnswersStandAdded
  <2>4. /\ LinesFollow(t, messages) /\ t \in Packets
        /\ \A r, x, n : Carried(t, messages, r, x, n) <=> Carried(Stream, messages, r, x, n)
    <3>1. CASE responsesOpen
      <4>1. t = Append(Stream, p) /\ Append(Stream, p) \in Packets
        BY <1>2, <2>1, <3>1 DEF Packets
      <4> QED
        BY <1>2, <2>1, <2>2, <4>1, OtherAnswerAdded
    <3>2. CASE ~responsesOpen
      <4>1. t = Stream
        BY <2>1, <3>2
      <4> QED
        BY <1>2, <4>1
    <3> QED
      BY <3>1, <3>2
  <2> HIDE DEF p, t
  <2>5. CASE Initialize
    <3>1. messages' = <<>> /\ \A r \in RequestId : ~Live(r)'
      BY <2>5, LiveDropped DEF Initialize, DropMessages, spawnVars, superVars
    <3>2. /\ LinesFollow(t, <<>>)
          /\ \A r, x, n : Carried(t, <<>>, r, x, n) => Carried(t, messages, r, x, n)
      BY <2>4, MessagesDropped
    <3> QED
      BY <1>1, <2>1, <2>3, <2>4, <3>1, <3>2, LinesMoved DEF t
  <2>6. CASE ~Initialize
    <3>1. messages' = messages
      BY <1>3, <2>6 DEF ReInitialize, Ping, CommandExec, CommandKill
    <3> QED
      BY <1>1, <2>1, <2>3, <2>4, <3>1, LinesMoved DEF t
  <2> QED
    BY <2>5, <2>6
<1>4. CASE PassOn
  <2> DEFINE p == held'
             t == Stream'
  <2>1. /\ IsAnswer(messages[1]) /\ 1 \in DOMAIN messages /\ p = messages[1].response
        /\ p \in AgentPacket(GuestResponse)
        /\ t = IF responsesOpen THEN Append(Stream, p) ELSE Stream
        /\ responsesOpen' = responsesOpen
        /\ messages # <<>> /\ messages' = Tail(messages)
    BY <1>4, PassedOnPacket DEF PassOn, ioVars
  <2>2. CASE responsesOpen
    <3>1. AnswersStand
      BY <2>1, <2>2, EndIsPrepared, AnswersStandAdded
    <3>2. /\ LinesFollow(t, messages')
          /\ \A r, x, n : Carried(t, messages', r, x, n) <=> Carried(Stream, messages, r, x, n)
      <4>1. t = Append(Stream, messages[1].response)
        BY <2>1, <2>2
      <4> QED
        BY <1>2, <2>1, <4>1, FirstPassedOn
    <3> QED
      BY <1>1, <2>1, <3>1, <3>2, LinesMoved
  <2>3. CASE ~responsesOpen
    <3>1. t = Stream
      BY <2>1, <2>3
    <3>2. AnswersStand
      BY <3>1, AnswersStandSame
    <3>3. /\ LinesFollow(Stream, messages')
          /\ \A r, x, n : Carried(Stream, messages', r, x, n) => Carried(Stream, messages, r, x, n)
      BY <1>2, <2>1, FirstTaken
    <3> QED
      BY <1>1, <2>1, <2>3, <3>1, <3>2, <3>3, LinesMoved
  <2> QED
    BY <2>2, <2>3
<1>5. CASE RemoveTask
  <2>1. /\ messages # <<>> /\ messages' = Tail(messages) /\ Stream' = Stream
        /\ responsesOpen' = responsesOpen /\ Head(messages).type = "TaskFinished"
    BY <1>5, StreamSame DEF RemoveTask, ioVars, histVars
  <2>2. ~IsAnswer(messages[1])
    BY <1>2, <2>1 DEF IsAnswer, Messages
  <2>3. AnswersStand
    BY <2>1, AnswersStandSame
  <2>4. /\ LinesFollow(Stream, messages')
        /\ \A r, x, n : Carried(Stream, messages', r, x, n) <=> Carried(Stream, messages, r, x, n)
    BY <1>2, <2>1, <2>2, FirstTaken
  <2> QED
    BY <1>1, <2>1, <2>3, <2>4, LinesMoved
<1>6. CASE Send
  <2>1. Stream' = Stream /\ UNCHANGED <<messages, responsesOpen>>
    BY <1>6, StreamKept DEF Send
  <2>2. AnswersStand
    BY <2>1, AnswersStandSame
  <2> QED
    BY <1>1, <1>2, <2>1, <2>2, LinesMoved
<1>7. CASE Break
  <2>1. /\ Stream' = Stream /\ messages' = <<>> /\ responsesOpen' = responsesOpen
        /\ \A r \in RequestId : ~Live(r)'
    BY <1>7, StreamKept, LiveDropped DEF Break, DropMessages, spawnVars, superVars
  <2>2. AnswersStand
    BY <2>1, AnswersStandSame
  <2>3. /\ LinesFollow(Stream, <<>>)
        /\ \A r, x, n : Carried(Stream, <<>>, r, x, n) => Carried(Stream, messages, r, x, n)
    BY <1>2, MessagesDropped
  <2> QED
    BY <1>1, <2>1, <2>2, <2>3, LinesMoved
<1> QED
  BY <1>3, <1>4, <1>5, <1>6, <1>7 DEF OrchNext, Handle

(* The ends of the channels. *)
LEMMA LinesPort ==
  ASSUME IInv, LineInv, PortNext
  PROVE  LineInv'
<1>1. UNCHANGED <<lineVars, via, channel, messages>>
  BY DEF PortNext, ReaderQueues, ReaderEnds, WriterTakes, WriterEnds, taskVars, spawnVars,
     superVars, outputVars, lineVars
<1>2. \A r \in RequestId : Live(r)' <=> Live(r)
  BY <1>1, LiveSame DEF lineVars
<1>3. /\ PumpsDrained' /\ ReportsStand
      /\ \A r \in RequestId, x \in CommandStream : Passed(r, x)' = Passed(r, x)
  BY <1>1, <1>2, PumpsUntouched DEF LineInv, ReportsStand, Reported, Passed, lineVars
<1>4. Stream \in Packets /\ LinesFollow(Stream, messages)
  BY StreamType DEF LineInv
<1>5. CASE ReaderQueues \/ ReaderEnds \/ WriterTakes
  <2>1. Stream' = Stream /\ responsesOpen' = responsesOpen
    BY <1>5, StreamSame, StreamKept DEF ReaderQueues, ReaderEnds, WriterTakes, orchVars, histVars
  <2>2. AnswersStand
    BY <2>1, AnswersStandSame
  <2> QED
    BY <1>1, <1>2, <1>3, <1>4, <2>1, <2>2, LinesMoved
<1>6. CASE WriterEnds
  <2>1. Stream' \in Packets /\ Begins(Stream', Stream) /\ ~responsesOpen'
    BY <1>6, StreamCut DEF WriterEnds
  <2>2. /\ LinesFollow(Stream', messages)
        /\ \A r, x, n : Carried(Stream', messages, r, x, n) => Carried(Stream, messages, r, x, n)
    BY <1>4, <2>1, AnswersCut
  <2>3. \A i \in DOMAIN Stream' : i \in DOMAIN Stream /\ \A j \in 1..i : Stream'[j] = Stream[j]
    BY <1>4, <2>1 DEF Packets, Begins
  <2>4. AnswersStand
    BY <2>3 DEF AnswersStand
  <2> QED
    BY <1>1, <1>2, <1>3, <2>1, <2>2, <2>4, LinesMoved
<1> QED
  BY <1>5, <1>6 DEF PortNext

-----------------------------------------------------------------------------
(* The steps of a task that send nothing. *)
LEMMA LinesUnsent ==
  ASSUME IInv, LineInv, PumpsDrained', ReportsStand, Stream' = Stream,
         UNCHANGED <<messages, responsesOpen>>,
         \A r \in RequestId : Live(r)' => Live(r),
         \A r \in RequestId, x \in CommandStream : Passed(r, x)' = Passed(r, x)
  PROVE  LineInv'
<1>1. AnswersStand /\ LinesFollow(Stream, messages)
  BY AnswersStandSame DEF LineInv
<1> QED
  BY <1>1, LinesMoved

(* A pump that gives up: its channel is gone, so that nothing is awaited. *)
LEMMA LinesGivenUp ==
  ASSUME IInv, LineInv, PumpsDrained', ReportsStand, Stream' = Stream,
         UNCHANGED <<messages, responsesOpen>>,
         \A r \in RequestId : Live(r)' => Live(r),
         \A r \in RequestId, x \in CommandStream :
           \/ Passed(r, x)' = Passed(r, x)
           \/ Passed(r, x)' = Passed(r, x) + 1 /\ ~Live(r)
  PROVE  LineInv'
<1>1. \A r, x, n : Carried(Stream, messages, r, x, n)' <=> Carried(Stream, messages, r, x, n)
  BY DEF Carried, InAnswers, InQueue, IsLineOf, IsLine, IsAnswer
<1>2. LinesWerePassed'
  <2>1. ASSUME NEW r \in RequestId, NEW x \in CommandStream, NEW n \in Nat,
               Carried(Stream, messages, r, x, n)
        PROVE  n \in 1..Passed(r, x)'
    <3>1. n \in 1..Passed(r, x)
      BY <2>1 DEF LineInv, LinesWerePassed
    <3>2. Passed(r, x) \in Nat
      BY PassedIsNat
    <3> QED
      BY <3>1, <3>2
  <2> QED
    BY <1>1, <2>1 DEF LinesWerePassed
<1>3. NoLineMissing'
  <2>1. ASSUME NEW r \in RequestId, NEW x \in CommandStream, Live(r)', responsesOpen',
               NEW n \in 1..Passed(r, x)'
        PROVE  Carried(Stream, messages, r, x, n)
    BY <2>1 DEF LineInv, NoLineMissing
  <2> QED
    BY <1>1, <2>1 DEF NoLineMissing
<1>4. AnswersStand /\ LinesFollow(Stream, messages)
  BY AnswersStandSame DEF LineInv
<1>5. LinesFollow(Stream, messages)'
  BY <1>4 DEF LinesFollow, Follows, IsAnswer, IsLine
<1>6. EndsComeLast(Stream)' /\ EndsWait(messages)'
  BY <1>4, EndsStay, EndsWaiting DEF LineInv, AnswersStand
<1> QED
  BY <1>2, <1>3, <1>5, <1>6 DEF LineInv

(* A task sends m: a line passed on just now, or the end, or TaskFinished. *)
LEMMA LinesSent ==
  ASSUME IInv, LineInv, PumpsDrained', ReportsStand, Stream' = Stream, UNCHANGED responsesOpen,
         NEW m, messages' = Append(messages, m),
         NEW r \in RequestId, IsAnswer(m) => m.response.id = r /\ ~Reported(r),
         IsAnswer(m) /\ IsEnd(m.response) => supervisor'[r] \in {"release", "done"},
         \A q \in RequestId : Live(q)' => Live(q),
         IsAnswer(m) /\ IsLine(m.response) =>
           /\ m.response.content.stream \in CommandStream
           /\ m.response.content.line = Passed(r, m.response.content.stream) + 1,
         \A q \in RequestId, x \in CommandStream :
           Passed(q, x)' = IF /\ IsAnswer(m) /\ IsLine(m.response)
                              /\ q = r /\ x = m.response.content.stream
                           THEN Passed(q, x) + 1 ELSE Passed(q, x)
  PROVE  LineInv'
<1>1. Stream \in Packets /\ messages \in Messages /\ LinesFollow(Stream, messages)
  BY StreamType DEF LineInv, IInv, Types, TypeOK, Messages
<1>2. \A q \in RequestId, x \in CommandStream : Passed(q, x) \in Nat
  BY PassedIsNat
<1>3. ASSUME IsAnswer(m), NEW p \in AgentPacket(GuestResponse),
             IsLine(p) => Carried(Stream, messages, p.id, p.content.stream, p.content.line)
      PROVE  Follows(p, m.response)
  <2> SUFFICES ASSUME IsLine(p), IsLine(m.response), p.id = r,
                      p.content.stream = m.response.content.stream
               PROVE  p.content.line < m.response.content.line
    BY <1>3 DEF Follows
  <2>1. p.content.line \in Nat /\ p.content.stream \in CommandStream
    BY DEF IsLine, AgentPacket, GuestResponse
  <2>2. p.content.line \in 1..Passed(r, p.content.stream)
    BY <1>3, <2>1 DEF LineInv, LinesWerePassed
  <2>3. m.response.content.line = Passed(r, p.content.stream) + 1 /\ Passed(r, p.content.stream) \in Nat
    BY <1>2, <1>3, <2>1
  <2> QED
    BY <2>1, <2>2, <2>3
<1>4. ASSUME IsAnswer(m), NEW i \in DOMAIN Stream PROVE Follows(Stream[i], m.response)
  <2>1. Stream[i] \in AgentPacket(GuestResponse)
    BY <1>1 DEF Packets
  <2>2. IsLine(Stream[i]) =>
          Carried(Stream, messages, Stream[i].id, Stream[i].content.stream, Stream[i].content.line)
    BY DEF Carried, InAnswers, IsLineOf
  <2> QED
    BY <1>3, <1>4, <2>1, <2>2
<1>5. ASSUME IsAnswer(m), NEW j \in DOMAIN messages, IsAnswer(messages[j])
      PROVE  Follows(messages[j].response, m.response)
  <2> DEFINE p == messages[j].response
  <2>1. p \in AgentPacket(GuestResponse)
    BY <1>1, <1>5, MessageFields DEF Messages, IsAnswer
  <2>2. IsLine(p) => Carried(Stream, messages, p.id, p.content.stream, p.content.line)
    BY <1>5 DEF Carried, InQueue, IsLineOf
  <2> QED
    BY <1>3, <1>5, <2>1, <2>2
<1>6. /\ LinesFollow(Stream, messages')
      /\ \A q, x, n : Carried(Stream, messages', q, x, n)
                        <=> \/ Carried(Stream, messages, q, x, n)
                            \/ IsAnswer(m) /\ IsLineOf(m.response, q, x, n)
  BY <1>1, <1>4, <1>5, MessageSent
<1>7. \A q, x, n : Carried(Stream, messages, q, x, n)' <=> Carried(Stream, messages', q, x, n)
  BY DEF Carried, InAnswers, InQueue, IsLineOf, IsLine, IsAnswer
<1>8. LinesFollow(Stream, messages)'
  BY <1>6 DEF LinesFollow, Follows, IsAnswer, IsLine
<1>9. ASSUME NEW q \in RequestId, NEW x \in CommandStream, NEW n \in Nat,
             Carried(Stream, messages', q, x, n)
      PROVE  n \in 1..Passed(q, x)'
  <2>1. CASE Carried(Stream, messages, q, x, n)
    <3>1. n \in 1..Passed(q, x)
      BY <2>1 DEF LineInv, LinesWerePassed
    <3> QED
      BY <1>2, <3>1
  <2>2. CASE IsAnswer(m) /\ IsLineOf(m.response, q, x, n)
    <3>1. /\ IsAnswer(m) /\ IsLine(m.response) /\ q = r /\ x = m.response.content.stream
          /\ n = m.response.content.line
      BY <2>2 DEF IsLineOf
    <3>2. n = Passed(q, x) + 1 /\ Passed(q, x)' = Passed(q, x) + 1 /\ Passed(q, x) \in Nat
      BY <1>2, <3>1
    <3> QED
      BY <3>2
  <2> QED
    BY <1>6, <1>9, <2>1, <2>2
<1>10. ASSUME NEW q \in RequestId, NEW x \in CommandStream, Live(q)', responsesOpen',
              NEW n \in 1..Passed(q, x)'
       PROVE  Carried(Stream, messages', q, x, n)
  <2>1. CASE n \in 1..Passed(q, x)
    BY <1>6, <1>10, <2>1 DEF LineInv, NoLineMissing
  <2>2. CASE n \notin 1..Passed(q, x)
    <3>1. IsAnswer(m) /\ IsLine(m.response) /\ q = r /\ x = m.response.content.stream
      BY <1>10, <2>2
    <3>2. Passed(q, x)' = Passed(q, x) + 1 /\ Passed(q, x) \in Nat
      BY <1>2, <3>1
    <3>3. n \in 1..(Passed(q, x) + 1)
      BY <1>10, <3>2
    <3>4. n = Passed(q, x) + 1
      BY <2>2, <3>2, <3>3
    <3>5. n = m.response.content.line
      BY <3>1, <3>4
    <3>6. IsLineOf(m.response, q, x, n)
      BY <3>1, <3>5 DEF IsLineOf
    <3> QED
      BY <1>6, <3>1, <3>6
  <2> QED
    BY <2>1, <2>2
<1>11. LinesWerePassed' /\ NoLineMissing'
  BY <1>7, <1>9, <1>10 DEF LinesWerePassed, NoLineMissing
<1>12. EndsWait(messages)'
  BY EndsSent DEF LineInv
<1>13. EndsComeLast(Stream)'
  BY AnswersStandSame, EndsStay DEF LineInv, AnswersStand
<1> QED
  BY <1>8, <1>11, <1>12, <1>13 DEF LineInv

(* One pump moves. *)
LEMMA PumpMoved ==
  ASSUME IInv, LineInv, NEW r \in RequestId, NEW s \in CommandStream,
         UNCHANGED <<written, supervisor>>, \A q \in RequestId : Live(q)' <=> Live(q),
         \A q \in RequestId, x \in CommandStream : q # r \/ x # s =>
           taken'[q][x] = taken[q][x] /\ pump'[q][x] = pump[q][x],
         taken'[r][s] <= written[r][s],
         pump'[r][s] = "send" => taken'[r][s] > 0,
         pump[r][s] # "done",
         pump'[r][s] = "done" /\ Live(r) => taken'[r][s] = written[r][s]
  PROVE  PumpsDrained' /\ ReportsStand
<1>1. ReportsStand
  BY DEF ReportsStand, Reported
<1>2. ASSUME NEW q \in RequestId, NEW x \in CommandStream
      PROVE  /\ taken'[q][x] <= written'[q][x]
             /\ pump'[q][x] = "send" => taken'[q][x] > 0
             /\ Drained(q)' => pump'[q][x] = "done"
             /\ pump'[q][x] = "done" /\ Live(q)' => taken'[q][x] = written'[q][x]
  <2>1. CASE q = r /\ x = s
    BY <2>1 DEF LineInv, PumpsDrained, Drained
  <2>2. CASE q # r \/ x # s
    BY <2>2 DEF LineInv, PumpsDrained, Drained
  <2> QED
    BY <2>1, <2>2
<1> QED
  BY <1>1, <1>2 DEF PumpsDrained

(* The pumps of a command. *)
LEMMA LinesPump ==
  ASSUME IInv, MapInv, LineInv, NEW r \in RequestId, NEW s \in CommandStream, PumpStep(r, s),
         Stream' = Stream, UNCHANGED responsesOpen
  PROVE  LineInv'
<1>1. \A q \in RequestId : Live(q)' <=> Live(q)
  BY LiveTask DEF TaskNext, PumpNext
<1>2. UNCHANGED <<written, supervisor>>
  BY DEF PumpStep, PumpReads, PumpEnds, PumpSends, superVars
<1>3. /\ taken[r][s] \in Nat /\ written[r][s] \in Nat /\ taken[r][s] <= written[r][s]
      /\ pump[r][s] = "send" => taken[r][s] > 0
      /\ taken \in [RequestId -> [CommandStream -> Nat]]
      /\ pump \in [RequestId -> [CommandStream -> {"none", "read", "send", "done"}]]
  BY Counts DEF LineInv, PumpsDrained, IInv, Types, TypeOK
<1>4. CASE PumpReads(r, s)
  <2>1. /\ taken'[r][s] = taken[r][s] + 1 /\ pump[r][s] = "read" /\ pump'[r][s] = "send"
        /\ taken[r][s] < written[r][s]
        /\ \A q \in RequestId, x \in CommandStream : q # r \/ x # s =>
             taken'[q][x] = taken[q][x] /\ pump'[q][x] = pump[q][x]
    BY <1>3, <1>4 DEF PumpReads
  <2>2. taken'[r][s] <= written[r][s] /\ taken'[r][s] > 0
    BY <1>3, <2>1
  <2>3. PumpsDrained' /\ ReportsStand
    BY <1>1, <1>2, <2>1, <2>2, PumpMoved
  <2>4. ASSUME NEW q \in RequestId, NEW x \in CommandStream PROVE Passed(q, x)' = Passed(q, x)
    <3>1. CASE q = r /\ x = s
      <4>1. taken'[r][s] - 1 = taken[r][s]
        BY <1>3, <2>1
      <4> QED
        BY <1>3, <2>1, <3>1, <4>1 DEF Passed
    <3>2. CASE q # r \/ x # s
      BY <2>1, <3>2 DEF Passed
    <3> QED
      BY <3>1, <3>2
  <2>5. UNCHANGED messages
    BY <1>4 DEF PumpReads
  <2> QED
    BY <1>1, <2>3, <2>4, <2>5, LinesUnsent
<1>5. CASE PumpEnds(r, s)
  <2>1. /\ taken' = taken /\ pump[r][s] = "read" /\ pump'[r][s] = "done"
        /\ taken[r][s] = written[r][s] /\ UNCHANGED messages
        /\ \A q \in RequestId, x \in CommandStream : q # r \/ x # s => pump'[q][x] = pump[q][x]
    BY <1>3, <1>5 DEF PumpEnds
  <2>2. PumpsDrained' /\ ReportsStand
    BY <1>1, <1>2, <1>3, <2>1, PumpMoved
  <2>3. ASSUME NEW q \in RequestId, NEW x \in CommandStream PROVE Passed(q, x)' = Passed(q, x)
    BY <2>1 DEF Passed
  <2> QED
    BY <1>1, <2>1, <2>2, <2>3, LinesUnsent
<1>6. CASE PumpSends(r, s) /\ SendFails(r)
  <2>1. /\ taken' = taken /\ pump[r][s] = "send" /\ pump'[r][s] = "done" /\ UNCHANGED messages
        /\ \A q \in RequestId, x \in CommandStream : q # r \/ x # s => pump'[q][x] = pump[q][x]
        /\ ~Live(r)
    <3>1. /\ taken' = taken /\ pump[r][s] = "send" /\ UNCHANGED messages
          /\ pump' = [pump EXCEPT ![r][s] = "done"] /\ via[r] # channel
      BY <1>6 DEF PumpSends, CanSend, SendFails, outputVars
    <3> QED
      BY <1>3, <3>1 DEF Live
  <2>2. PumpsDrained' /\ ReportsStand
    BY <1>1, <1>2, <1>3, <2>1, PumpMoved
  <2>3. ASSUME NEW q \in RequestId, NEW x \in CommandStream
        PROVE  \/ Passed(q, x)' = Passed(q, x)
               \/ Passed(q, x)' = Passed(q, x) + 1 /\ ~Live(q)
    BY <1>3, <2>1 DEF Passed
  <2> QED
    BY <1>1, <2>1, <2>2, <2>3, LinesGivenUp
<1>7. CASE PumpSends(r, s) /\ CanSend(r)
  <2> DEFINE p == Output(r, s, taken[r][s])
             m == GuestResponseMessage(p)
  <2>1. /\ taken' = taken /\ pump[r][s] = "send" /\ pump'[r][s] = "read"
        /\ messages' = Append(messages, m)
        /\ \A q \in RequestId, x \in CommandStream : q # r \/ x # s => pump'[q][x] = pump[q][x]
    <3>1. /\ taken' = taken /\ pump[r][s] = "send" /\ messages' = Append(messages, m)
          /\ pump' = [pump EXCEPT ![r][s] = "read"]
      BY <1>7 DEF PumpSends, CanSend, SendFails
    <3> QED
      BY <1>3, <3>1
  <2>2. PumpsDrained' /\ ReportsStand
    <3>1. pump[r][s] # "done" /\ pump'[r][s] # "done" /\ pump'[r][s] # "send"
      BY <2>1
    <3>2. /\ taken'[r][s] <= written[r][s]
          /\ \A q \in RequestId, x \in CommandStream : q # r \/ x # s =>
               taken'[q][x] = taken[q][x] /\ pump'[q][x] = pump[q][x]
      BY <1>3, <2>1
    <3> QED
      BY <1>1, <1>2, <3>1, <3>2, PumpMoved
  <2>3. /\ IsAnswer(m) /\ m.response = p /\ p.id = r /\ IsLine(p) /\ ~IsEnd(p)
        /\ p.content.stream = s /\ p.content.line = taken[r][s]
    BY DEF IsAnswer, IsLine, IsEnd, GuestResponseMessage, Output
  <2>4. ~Reported(r)
    BY <2>1 DEF LineInv, PumpsDrained, Reported, Drained
  <2>5. taken[r][s] = Passed(r, s) + 1
    BY <1>3, <2>1 DEF Passed
  <2> HIDE DEF p, m
  <2>6. ASSUME NEW q \in RequestId, NEW x \in CommandStream
        PROVE  Passed(q, x)' = IF q = r /\ x = s THEN Passed(q, x) + 1 ELSE Passed(q, x)
    <3>1. CASE q = r /\ x = s
      <4>1. (taken[r][s] - 1) + 1 = taken[r][s] /\ taken'[r][s] = taken[r][s]
        BY <1>3, <2>1
      <4> QED
        BY <1>3, <2>1, <3>1, <4>1 DEF Passed
    <3>2. CASE q # r \/ x # s
      BY <2>1, <3>2 DEF Passed
    <3> QED
      BY <3>1, <3>2
  <2>7. \A q \in RequestId, x \in CommandStream :
          Passed(q, x)' = IF /\ IsAnswer(m) /\ IsLine(m.response)
                             /\ q = r /\ x = m.response.content.stream
                          THEN Passed(q, x) + 1 ELSE Passed(q, x)
    BY <2>3, <2>6
  <2> QED
    BY <1>1, <2>1, <2>2, <2>3, <2>4, <2>5, <2>7, LinesSent
<1> QED
  BY <1>4, <1>5, <1>6, <1>7 DEF PumpStep, PumpSends

(* The supervisor of a command. *)
LEMMA LinesSuper ==
  ASSUME IInv, MapInv, LineInv, NEW r \in RequestId, SuperNext(r),
         Stream' = Stream, UNCHANGED responsesOpen
  PROVE  LineInv'
<1>1. \A q \in RequestId : Live(q)' <=> Live(q)
  BY LiveTask DEF TaskNext
<1>2. supervisor \in [RequestId -> {"none", "drain", "report", "release", "done"}]
  BY DEF IInv, Types, TypeOK
<1>3. /\ UNCHANGED <<written, taken, pump>>
      /\ \A q \in RequestId : q # r => supervisor'[q] = supervisor[q]
      /\ supervisor'[r] \in {"report", "release", "done"}
      /\ \/ supervisor[r] = "drain" /\ \A x \in CommandStream : pump[r][x] = "done"
         \/ supervisor[r] = "report" /\ supervisor'[r] \in {"release", "done"}
         \/ supervisor[r] = "release" /\ supervisor'[r] = "done"
  BY <1>2 DEF SuperNext, Reap, ReportFinished, ReportTaskFinished, Report, outputVars
<1>4. PumpsDrained' /\ ReportsStand
  <2>1. ASSUME NEW q \in RequestId, NEW x \in CommandStream
        PROVE  /\ taken'[q][x] <= written'[q][x]
               /\ pump'[q][x] = "send" => taken'[q][x] > 0
               /\ Drained(q)' => pump'[q][x] = "done"
               /\ pump'[q][x] = "done" /\ Live(q)' => taken'[q][x] = written'[q][x]
    <3>1. Drained(q) => pump[q][x] = "done"
      BY DEF LineInv, PumpsDrained
    <3>2. CASE q = r
      BY <1>1, <1>3, <3>1, <3>2 DEF LineInv, PumpsDrained, Drained
    <3>3. CASE q # r
      <4>1. supervisor'[q] = supervisor[q]
        BY <1>3, <3>3
      <4> QED
        BY <1>1, <1>3, <3>1, <4>1 DEF LineInv, PumpsDrained, Drained
    <3> QED
      BY <3>2, <3>3
  <2>2. ReportsStand
    BY <1>3 DEF ReportsStand, Reported
  <2> QED
    BY <2>1, <2>2 DEF PumpsDrained
<1>5. \A q \in RequestId, x \in CommandStream : Passed(q, x)' = Passed(q, x)
  BY <1>3 DEF Passed
<1>6. CASE UNCHANGED messages
  BY <1>1, <1>4, <1>5, <1>6, LinesUnsent
<1>7. CASE messages' = Append(messages, GuestResponseMessage(Finished(r))) /\ ~Reported(r)
           /\ supervisor'[r] \in {"release", "done"}
  <2> DEFINE m == GuestResponseMessage(Finished(r))
  <2>1. m.response.id = r /\ ~IsLine(m.response)
    BY DEF GuestResponseMessage, Finished, IsLine
  <2>2. messages' = Append(messages, m)
    BY <1>7
  <2> HIDE DEF m
  <2> QED
    BY <1>1, <1>4, <1>5, <1>7, <2>1, <2>2, LinesSent
<1>8. CASE messages' = Append(messages, TaskFinishedMessage(command[r]))
  <2> DEFINE m == TaskFinishedMessage(command[r])
  <2>1. ~IsAnswer(m)
    BY DEF TaskFinishedMessage, IsAnswer
  <2>2. messages' = Append(messages, m)
    BY <1>8
  <2> HIDE DEF m
  <2> QED
    BY <1>1, <1>4, <1>5, <2>1, <2>2, LinesSent
<1> QED
  <2>1. CASE Reap(r)
    BY <1>6, <2>1 DEF Reap
  <2>2. CASE ReportFinished(r)
    <3>1. \/ UNCHANGED messages
          \/ /\ messages' = Append(messages, GuestResponseMessage(Finished(r)))
             /\ supervisor[r] = "report" /\ supervisor' = [supervisor EXCEPT ![r] = "release"]
      BY <2>2 DEF ReportFinished, Report
    <3> QED
      BY <1>2, <1>6, <1>7, <3>1 DEF Reported
  <2>3. CASE ReportTaskFinished(r)
    BY <1>6, <1>8, <2>3 DEF ReportTaskFinished, Report
  <2> QED
    BY <2>1, <2>2, <2>3 DEF SuperNext

(* The kill tasks and the processes: a line is written only where a pump   *)
(* is there to read it, which is never so once the command is reported.    *)
LEMMA LinesKillKernel ==
  ASSUME IInv, MapInv, LineInv, NEW r \in RequestId, KillNext(r) \/ KernelNext(r),
         Stream' = Stream, UNCHANGED responsesOpen
  PROVE  LineInv'
<1>1. \A q \in RequestId : Live(q)' <=> Live(q)
  BY LiveTask DEF TaskNext
<1>2. UNCHANGED <<messages, taken, pump, supervisor>>
  BY DEF KillNext, KernelNext, KillTerm, KillKill, LeaderExits, KidExits, WriteLine,
     outputVars, superVars
<1>3. ASSUME NEW q \in RequestId, NEW x \in CommandStream
      PROVE  /\ written'[q][x] \in Nat /\ written[q][x] \in Nat /\ written[q][x] <= written'[q][x]
             /\ pump[q][x] = "done" => written'[q][x] = written[q][x]
  <2>1. written[q][x] \in Nat /\ written \in [RequestId -> [CommandStream -> Nat]]
    BY DEF IInv, Types, TypeOK
  <2>2. \/ UNCHANGED written
        \/ \E s \in CommandStream : WriteLine(r, s)
    BY DEF KillNext, KernelNext, KillTerm, KillKill, LeaderExits, KidExits, outputVars
  <2>3. ASSUME NEW s \in CommandStream, WriteLine(r, s)
        PROVE  /\ written'[q][x] \in Nat /\ written[q][x] <= written'[q][x]
               /\ pump[q][x] = "done" => written'[q][x] = written[q][x]
    BY <2>1, <2>3 DEF WriteLine
  <2> QED
    BY <2>1, <2>2, <2>3
<1>4. PumpsDrained'
  <2>1. ASSUME NEW q \in RequestId, NEW x \in CommandStream
        PROVE  /\ taken'[q][x] <= written'[q][x]
               /\ pump'[q][x] = "send" => taken'[q][x] > 0
               /\ Drained(q)' => pump'[q][x] = "done"
               /\ pump'[q][x] = "done" /\ Live(q)' => taken'[q][x] = written'[q][x]
    <3>1. taken[q][x] \in Nat /\ taken[q][x] <= written[q][x]
      BY Counts DEF LineInv, PumpsDrained
    <3>2. /\ written'[q][x] \in Nat /\ written[q][x] \in Nat /\ written[q][x] <= written'[q][x]
          /\ pump[q][x] = "done" => written'[q][x] = written[q][x]
      BY <1>3
    <3>3. taken[q][x] <= written'[q][x]
      BY <3>1, <3>2
    <3>4. /\ pump[q][x] = "send" => taken[q][x] > 0
          /\ Drained(q) => pump[q][x] = "done"
          /\ pump[q][x] = "done" /\ Live(q) => taken[q][x] = written[q][x]
      BY DEF LineInv, PumpsDrained
    <3> QED
      BY <1>1, <1>2, <3>2, <3>3, <3>4 DEF Drained
  <2> QED
    BY <2>1 DEF PumpsDrained
<1>5. ReportsStand
  BY <1>2, <1>3 DEF ReportsStand, Reported, Drained, LineInv, PumpsDrained
<1>6. \A q \in RequestId, x \in CommandStream : Passed(q, x)' = Passed(q, x)
  BY <1>2 DEF Passed
<1> QED
  BY <1>1, <1>2, <1>4, <1>5, <1>6, LinesUnsent

-----------------------------------------------------------------------------
(* The lines stay in order and complete throughout every behaviour. *)
OutputInv == NumberedInv /\ LineInv

(* No line was written when the port is opened. *)
LEMMA OutputInit == Init => OutputInv
<1> SUFFICES ASSUME Init PROVE LineInv
  BY NumberedInit DEF OutputInv
<1>1. /\ Stream = <<>> /\ messages = <<>>
      /\ \A r \in RequestId :
           /\ supervisor[r] = "none"
           /\ \A x \in CommandStream : written[r][x] = 0 /\ taken[r][x] = 0 /\ pump[r][x] = "none"
  BY DEF Init, TaskInit, Stream
<1>2. DOMAIN Stream = {} /\ DOMAIN messages = {}
  BY <1>1
<1>3. PumpsDrained
  <2>1. 0 <= 0
    OBVIOUS
  <2> QED
    BY <1>1, <2>1 DEF PumpsDrained, Drained
<1>4. LinesFollow(Stream, messages) /\ LinesWerePassed
  BY <1>2 DEF LinesFollow, LinesWerePassed, Carried, InAnswers, InQueue
<1>5. NoLineMissing
  <2>1. \A r \in RequestId, x \in CommandStream : Passed(r, x) = 0
    BY <1>1 DEF Passed
  <2>2. 1..0 = {}
    OBVIOUS
  <2> QED
    BY <2>1, <2>2 DEF NoLineMissing
<1>6. EndsWait(messages) /\ EndsComeLast(Stream)
  BY <1>2 DEF EndsWait, EndsComeLast
<1> QED
  BY <1>3, <1>4, <1>5, <1>6 DEF LineInv

(* Every step keeps the lines in order and complete. *)
LEMMA OutputStep == OutputInv /\ [Next]_vars => OutputInv'
<1> SUFFICES ASSUME OutputInv, [Next]_vars PROVE LineInv'
  BY NumberedStep DEF OutputInv
<1> USE DEF OutputInv, NumberedInv
<1>1. CASE OrchNext
  BY <1>1, LinesOrch
<1>2. CASE PortNext
  BY <1>2, LinesPort
<1>3. ASSUME NEW r \in RequestId, CommandNext(r)
      PROVE  LineInv'
  <2>1. TaskNext(r) /\ Stream' = Stream /\ UNCHANGED responsesOpen
    BY <1>3, StreamSame DEF CommandNext, restVars, orchVars, ioVars, histVars
  <2> QED
    BY <2>1, LinesPump, LinesSuper, LinesKillKernel DEF TaskNext, PumpNext
<1>4. CASE UNCHANGED vars
  <2>1. /\ Stream' = Stream /\ UNCHANGED <<messages, responsesOpen, lineVars>>
        /\ \A q \in RequestId : Live(q)' <=> Live(q)
    BY <1>4, StreamSame, LiveSame
    DEF vars, orchVars, ioVars, histVars, taskVars, spawnVars, superVars, outputVars, lineVars
  <2>2. PumpsDrained' /\ ReportsStand
    BY <2>1, PumpsUntouched DEF LineInv, ReportsStand, Reported, lineVars
  <2>3. \A q \in RequestId, x \in CommandStream : Passed(q, x)' = Passed(q, x)
    BY <2>1 DEF Passed, lineVars
  <2> QED
    BY <2>1, <2>2, <2>3, LinesUnsent
<1> QED
  BY <1>1, <1>2, <1>3, <1>4 DEF Next

(* The lines are in order and complete in every state of the               *)
(* specification.                                                          *)
LEMMA OutputAlways == Spec => []OutputInv
BY OutputInit, OutputStep, PTL DEF Spec

(* CommandFinished reaches the host only after every line the command and  *)
(* its descendants wrote, each stream in the order it was written: the     *)
(* supervisor awaits the pumps, and nobody can write once a pump is gone.  *)
THEOREM OutputCompleteHolds == Spec => []OutputComplete
<1>1. OutputInv => OutputComplete
  BY LinesGiveOutput DEF OutputInv, NumberedInv
<1> QED
  BY <1>1, OutputAlways, PTL

-----------------------------------------------------------------------------
(* What the host hears of commands, in the answers s and the messages q.   *)

IsResult(p) == p.content.type = "GenericResult"

(* The host is told that a command runs before it hears of it. *)
ToldOf(s, n, r) == \E i \in 1..n : s[i].id = r /\ IsResult(s[i])
ToldFirst(s) == \A j \in DOMAIN s : ~IsDirect(s[j]) => ToldOf(s, j - 1, s[j].id)

(* It hears of lines without a gap, and of nothing after the end. *)
NoGap(s) ==
  \A j \in DOMAIN s : IsLine(s[j]) =>
    \A m \in 1..(s[j].content.line - 1) :
      \E i \in 1..(j - 1) : IsLineOf(s[i], s[j].id, s[j].content.stream, m)
EndIsLast(s) ==
  \A i, j \in DOMAIN s : i < j /\ IsEnd(s[i]) /\ ~IsDirect(s[j]) => s[j].id # s[i].id
NoneEnded(s, q) ==
  \A i \in DOMAIN s, k \in DOMAIN q :
    IsEnd(s[i]) /\ IsAnswer(q[k]) => q[k].response.id # s[i].id

(* A request that was refused is none of the started, S; a command is. *)
ResultsTell(s, S) ==
  \A i \in DOMAIN s :
    /\ s[i].content = GenericResult(FALSE) => s[i].id \notin S
    /\ ~IsDirect(s[i]) => s[i].id \in S

Heard(s, S) == ToldFirst(s) /\ NoGap(s) /\ EndIsLast(s) /\ ResultsTell(s, S)

(* The commands of which the host will hear more were told to it. *)
Hears == IF responsesOpen THEN LiveIds ELSE {}
StartedIds == {r \in RequestId : Started(r)}

HeardInv ==
  /\ StartedIds \subseteq Spawned
  /\ Heard(Stream, StartedIds)
  /\ NoneEnded(Stream, messages)
  /\ \A r \in Hears : ToldOf(Stream, Len(Stream), r)

(* The latest switch is the session of all announcements since. *)
Latest(w) ==
  (\E k \in DOMAIN w : w[k].content.type = "Initialized") =>
    \E j \in DOMAIN w :
      /\ Switches(w, j)
      /\ \A k \in j..Len(w) : w[k].content.type = "Initialized" => w[k].content = w[j].content

-----------------------------------------------------------------------------
(* What was told stays told when answers are added. *)
LEMMA ToldLater ==
  ASSUME NEW s \in Packets, NEW t \in Packets, Begins(t, s), NEW n \in Nat, n <= Len(t), NEW r
  PROVE  ToldOf(t, n, r) <=> ToldOf(s, n, r)
<1>1. \A i \in 1..n : t[i] = s[i]
  BY DEF Packets, Begins
<1> QED
  BY <1>1 DEF ToldOf

(* A beginning of what is heard. *)
LEMMA HeardCut ==
  ASSUME NEW s \in Packets, NEW t \in Packets, Begins(t, s), NEW S, Heard(s, S)
  PROVE  Heard(t, S)
<1>1. \A i \in DOMAIN t : i \in DOMAIN s /\ t[i] = s[i] /\ i - 1 \in Nat /\ i - 1 <= Len(t)
  BY DEF Packets, Begins
<1>2. ToldFirst(t)
  <2>1. ASSUME NEW j \in DOMAIN t, ~IsDirect(t[j])
        PROVE  ToldOf(t, j - 1, t[j].id)
    BY <1>1, <2>1, ToldLater DEF Heard, ToldFirst
  <2> QED
    BY <2>1 DEF ToldFirst
<1>3. NoGap(t)
  <2>1. ASSUME NEW j \in DOMAIN t, IsLine(t[j]), NEW m \in 1..(t[j].content.line - 1)
        PROVE  \E i \in 1..(j - 1) : IsLineOf(t[i], t[j].id, t[j].content.stream, m)
    <3>1. PICK i \in 1..(j - 1) : IsLineOf(s[i], s[j].id, s[j].content.stream, m)
      BY <1>1, <2>1 DEF Heard, NoGap
    <3>2. t[i] = s[i]
      BY <1>1 DEF Packets
    <3> QED
      BY <1>1, <3>1, <3>2
  <2> QED
    BY <2>1 DEF NoGap
<1>4. EndIsLast(t) /\ ResultsTell(t, S)
  BY <1>1 DEF Heard, EndIsLast, ResultsTell
<1> QED
  BY <1>2, <1>3, <1>4 DEF Heard

(* An answer is added. *)
LEMMA HeardAppended ==
  ASSUME NEW s \in Packets, NEW p \in AgentPacket(GuestResponse), NEW S, NEW T, Heard(s, S),
         S \subseteq T,
         \A i \in DOMAIN s : s[i].content = GenericResult(FALSE) => s[i].id \notin T,
         p.content = GenericResult(FALSE) => p.id \notin T,
         ~IsDirect(p) => /\ p.id \in T /\ ToldOf(s, Len(s), p.id)
                         /\ \A i \in DOMAIN s : IsEnd(s[i]) => s[i].id # p.id,
         IsLine(p) => \A m \in 1..(p.content.line - 1) : InAnswers(s, p.id, p.content.stream, m)
  PROVE  Heard(Append(s, p), T)
<1> DEFINE t == Append(s, p)
<1>1. /\ Len(s) \in Nat /\ DOMAIN s = 1..Len(s) /\ DOMAIN t = 1..(Len(s) + 1)
      /\ \A i \in 1..Len(s) : t[i] = s[i]
      /\ t[Len(s) + 1] = p
  BY Appended DEF Packets
<1>2. t \in Packets /\ Begins(s, t)
  BY DEF Packets, Begins
<1> HIDE DEF t
<1>3. \A j \in DOMAIN t : \/ j \in DOMAIN s /\ t[j] = s[j] /\ j - 1 \in Nat /\ j - 1 <= Len(s)
                          \/ j = Len(s) + 1 /\ t[j] = p /\ j - 1 = Len(s)
  BY <1>1
<1>4. ToldFirst(t)
  <2>1. ASSUME NEW j \in DOMAIN t, ~IsDirect(t[j])
        PROVE  ToldOf(t, j - 1, t[j].id)
    <3>1. ToldOf(s, j - 1, t[j].id)
      BY <1>3, <2>1 DEF Heard, ToldFirst
    <3>2. j - 1 \in Nat /\ j - 1 <= Len(s)
      BY <1>1, <1>3
    <3> QED
      BY <1>2, <3>1, <3>2, ToldLater
  <2> QED
    BY <2>1 DEF ToldFirst
<1>5. NoGap(t)
  <2>1. ASSUME NEW j \in DOMAIN t, IsLine(t[j]), NEW m \in 1..(t[j].content.line - 1)
        PROVE  \E i \in 1..(j - 1) : IsLineOf(t[i], t[j].id, t[j].content.stream, m)
    <3>1. PICK i \in 1..(j - 1) : IsLineOf(s[i], t[j].id, t[j].content.stream, m)
      <4>1. CASE j \in DOMAIN s
        BY <1>1, <2>1, <4>1 DEF Heard, NoGap
      <4>2. CASE j = Len(s) + 1
        <5>1. t[j] = p /\ 1..(j - 1) = DOMAIN s
          BY <1>1, <4>2
        <5> QED
          BY <2>1, <5>1 DEF InAnswers
      <4> QED
        BY <1>3, <4>1, <4>2
    <3>2. t[i] = s[i]
      BY <1>1, <1>3
    <3> QED
      BY <3>1, <3>2
  <2> QED
    BY <2>1 DEF NoGap
<1>6. EndIsLast(t)
  <2>1. ASSUME NEW i \in DOMAIN t, NEW j \in DOMAIN t, i < j, IsEnd(t[i]), ~IsDirect(t[j])
        PROVE  t[j].id # t[i].id
    <3>1. i \in DOMAIN s /\ t[i] = s[i]
      BY <1>1, <2>1
    <3>2. CASE j \in DOMAIN s
      BY <1>1, <2>1, <3>1, <3>2 DEF Heard, EndIsLast
    <3>3. CASE j = Len(s) + 1
      BY <1>1, <2>1, <3>1, <3>3
    <3> QED
      BY <1>3, <3>2, <3>3
  <2> QED
    BY <2>1 DEF EndIsLast
<1>7. ResultsTell(t, T)
  BY <1>3 DEF Heard, ResultsTell
<1> QED
  BY <1>4, <1>5, <1>6, <1>7 DEF Heard, t

-----------------------------------------------------------------------------
(* What the steps do to what the host hears. *)

(* The invariant after a step. *)
LEMMA HeardIs ==
  ASSUME NEW t, Stream' = t, Heard(t, StartedIds'), NoneEnded(t, messages'),
         StartedIds' \subseteq Spawned', \A r \in Hears' : ToldOf(t, Len(t), r)
  PROVE  HeardInv'
<1>1. (ToldFirst(Stream)' <=> ToldFirst(t)) /\ \A r : ToldOf(Stream, Len(Stream), r)' <=> ToldOf(t, Len(t), r)
  BY DEF ToldFirst, ToldOf, IsDirect, IsResult
<1>2. /\ NoGap(Stream)' <=> NoGap(t)
      /\ EndIsLast(Stream)' <=> EndIsLast(t)
      /\ NoneEnded(Stream, messages)' <=> NoneEnded(t, messages')
      /\ ResultsTell(Stream, StartedIds)' <=> ResultsTell(t, StartedIds')
  BY DEF NoGap, EndIsLast, NoneEnded, ResultsTell, IsLine, IsLineOf, IsEnd, IsDirect, IsAnswer,
         GenericResult
<1> QED
  BY <1>1, <1>2 DEF HeardInv, Heard

(* No answer is added, nobody is started, and of what waits for the        *)
(* orchestrator nothing comes from a command whose end was told.           *)
LEMMA HeardStill ==
  ASSUME IInv, HeardInv, Stream' = Stream, StartedIds' = StartedIds, UNCHANGED pid,
         Hears' \subseteq Hears, NoneEnded(Stream, messages')
  PROVE  HeardInv'
BY HeardIs DEF HeardInv, Spawned

(* Messages that are dropped, taken or kept. *)
LEMMA FewerMessages ==
  ASSUME IInv, NEW s, NoneEnded(s, messages),
         \/ messages' = messages \/ messages' = <<>>
         \/ messages # <<>> /\ messages' = Tail(messages)
  PROVE  NoneEnded(s, messages')
<1>1. messages \in Seq(OrchestratorMessage)
  BY DEF IInv, Types, TypeOK
<1>2. \A k \in DOMAIN messages' : \E j \in DOMAIN messages : messages'[k] = messages[j]
  <2>1. CASE messages # <<>> /\ messages' = Tail(messages)
    <3>1. \A k \in DOMAIN messages' : k + 1 \in DOMAIN messages /\ messages'[k] = messages[k + 1]
      BY <1>1, <2>1, Taken
    <3> QED
      BY <3>1
  <2>2. CASE messages' = <<>>
    BY <2>2
  <2> QED
    BY <2>1, <2>2
<1> QED
  BY <1>2 DEF NoneEnded

(* A task sends something: it has not reported its end. *)
LEMMA MoreMessages ==
  ASSUME IInv, LineInv, HeardInv, NEW m, messages' = Append(messages, m),
         NEW r \in RequestId, IsAnswer(m) => m.response.id = r /\ ~Reported(r)
  PROVE  NoneEnded(Stream, messages')
<1>1. messages \in Seq(OrchestratorMessage)
  BY DEF IInv, Types, TypeOK
<1>2. \A k \in DOMAIN messages' : \/ k \in DOMAIN messages /\ messages'[k] = messages[k]
                                  \/ messages'[k] = m
  BY <1>1, Appended
<1>3. \A i \in DOMAIN Stream : IsEnd(Stream[i]) => Reported(Stream[i].id)
  BY DEF LineInv, EndsComeLast
<1>4. NoneEnded(Stream, messages)
  BY DEF HeardInv
<1> HIDE DEF HeardInv, LineInv, IInv
<1>5. ASSUME NEW i \in DOMAIN Stream, NEW k \in DOMAIN messages', IsEnd(Stream[i]), IsAnswer(messages'[k])
      PROVE  messages'[k].response.id # Stream[i].id
  <2>1. CASE k \in DOMAIN messages /\ messages'[k] = messages[k]
    BY <1>4, <1>5, <2>1 DEF NoneEnded
  <2>2. CASE messages'[k] = m
    BY <1>3, <1>5, <2>2
  <2> QED
    BY <1>2, <2>1, <2>2
<1> QED
  BY <1>5 DEF NoneEnded

(* What the handler of a request does besides answering it: it starts at   *)
(* most its own command, and then says so.                                 *)
LEMMA RequestEffect ==
  ASSUME IInv, MapInv, Waiting, HeardInv,
         ReInitialize \/ Initialize \/ Ping \/ CommandExec \/ CommandKill,
         NEW n, n = Head(requests).id
  PROVE  /\ StartedIds \subseteq StartedIds' /\ StartedIds' \subseteq StartedIds \union {n}
         /\ n \notin StartedIds /\ n \in RequestId
         /\ held'.content = GenericResult(FALSE) => n \notin StartedIds'
         /\ LiveIds' \subseteq LiveIds \union {n} /\ (n \in LiveIds' => IsResult(held'))
         /\ StartedIds' \subseteq Spawned'
         /\ messages' = messages \/ messages' = <<>>
<1>1. requests # <<>>
  BY DirectAnswered
<1>2. n \in RequestId /\ Newest(n)
  BY <1>1, HeadIsNewest
<1>3. n \notin StartedIds /\ n \notin LiveIds
  <2>1. n \in Nat /\ ~(n < n)
    BY <1>2
  <2> QED
    BY <1>2, <2>1 DEF Newest, StartedIds, LiveIds, Live
<1>4. ASSUME UNCHANGED <<supervisor, via, channel, pid>>
      PROVE  StartedIds' = StartedIds /\ LiveIds' = LiveIds /\ Spawned' = Spawned
  BY <1>4 DEF StartedIds, Started, LiveIds, Live, Spawned
<1>5. StartedIds \subseteq Spawned
  BY DEF HeardInv
<1>6. CASE ReInitialize \/ Ping \/ CommandKill
  <2>1. UNCHANGED <<supervisor, via, channel, pid, messages>>
    BY <1>6 DEF ReInitialize, Ping, CommandKill, taskVars, spawnVars, superVars
  <2> QED
    BY <1>2, <1>3, <1>4, <1>5, <2>1
<1>7. CASE Initialize
  <2>1. UNCHANGED <<supervisor, via, pid>> /\ DropMessages /\ messages' = <<>>
    BY <1>7 DEF Initialize, DropMessages, spawnVars, superVars
  <2>2. LiveIds' = {}
    BY <2>1, LiveDropped DEF LiveIds
  <2>3. StartedIds' = StartedIds /\ Spawned' = Spawned
    BY <2>1 DEF StartedIds, Started, Spawned
  <2> QED
    BY <1>2, <1>3, <1>5, <2>1, <2>2, <2>3
<1>8. CASE CommandExec
  <2> DEFINE c == Head(requests).content.command
  <2>1. requests \in Seq(AgentPacket(HostRequest))
    BY DEF IInv, Types, TypeOK
  <2>2. c \in CommandId
    BY <1>1, <1>8, <2>1, QueueHead, RequestFields DEF CommandExec, Request
  <2>3. /\ messages' = messages
        /\ \/ Spawn(n, c) /\ held' = [id |-> n, content |-> GenericResult(TRUE)] /\ UNCHANGED channel
           \/ UNCHANGED <<supervisor, via, channel, pid>>
    BY <1>8 DEF CommandExec, Answer, spawnVars, superVars
  <2> HIDE DEF c
  <2>4. CASE UNCHANGED <<supervisor, via, channel, pid>>
    BY <1>2, <1>3, <1>4, <1>5, <2>3, <2>4
  <2>5. CASE Spawn(n, c) /\ held' = [id |-> n, content |-> GenericResult(TRUE)] /\ UNCHANGED channel
    <3>1. /\ \A q \in RequestId : q # n =>
               supervisor'[q] = supervisor[q] /\ via'[q] = via[q] /\ pid'[q] = pid[q]
          /\ supervisor'[n] = "drain"
      BY <1>2, <2>2, <2>5, SpawnEffect DEF IInv
    <3>2. pid'[n] # NO_GROUP
      <4>1. pid \in [RequestId -> Pid \union {NO_GROUP}] /\ \E p \in Pid : pid' = [pid EXCEPT ![n] = p]
        BY <2>5 DEF Spawn, IInv, Types, TypeOK
      <4> QED
        BY <1>2, <4>1
    <3>3. StartedIds' = StartedIds \union {n}
      BY <1>2, <3>1 DEF StartedIds, Started
    <3>4. LiveIds' \subseteq LiveIds \union {n}
      BY <2>5, <3>1 DEF LiveIds, Live, Started
    <3>5. StartedIds' \subseteq Spawned'
      BY <1>2, <1>5, <3>1, <3>2, <3>3 DEF Spawned
    <3>6. IsResult(held') /\ held'.content # GenericResult(FALSE)
      BY <2>5 DEF IsResult, GenericResult
    <3> QED
      BY <1>2, <1>3, <2>3, <3>3, <3>4, <3>5, <3>6
  <2> QED
    BY <2>3, <2>4, <2>5
<1> QED
  BY <1>6, <1>7, <1>8

(* The answer to a request. *)
LEMMA HeardAnswered ==
  ASSUME IInv, MapInv, Waiting, DirectInv, HeardInv,
         ReInitialize \/ Initialize \/ Ping \/ CommandExec \/ CommandKill
  PROVE  HeardInv'
<1> DEFINE p == held'
           n == Head(requests).id
           S == StartedIds
           T == StartedIds'
<1>1. /\ requests # <<>> /\ orch = "select" /\ orch' = "send"
      /\ UNCHANGED <<answered, responses, responsesOpen>>
      /\ p \in AgentPacket(GuestResponse) /\ p.id = n /\ IsDirect(p)
  <2>1. PICK content : /\ p = [id |-> n, content |-> content]
                       /\ content.type \in {"Initialized", "GenericResult"}
    BY DirectAnswered
  <2> QED
    BY <2>1, DirectAnswered DEF IsDirect
<1>2. Stream \in Packets /\ Stream' = IF responsesOpen THEN Append(Stream, p) ELSE Stream
  BY <1>1, StreamType, StreamGrows
<1>3. /\ S \subseteq T /\ T \subseteq S \union {n} /\ n \notin S /\ T \subseteq Spawned'
      /\ p.content = GenericResult(FALSE) => n \notin T
      /\ LiveIds' \subseteq LiveIds \union {n} /\ (n \in LiveIds' => IsResult(p))
      /\ messages' = messages \/ messages' = <<>>
  BY RequestEffect
<1>4. Heard(Stream, S) /\ NoneEnded(Stream, messages')
  BY <1>3, FewerMessages DEF HeardInv
<1>5. \A i \in DOMAIN Stream : Stream[i].content = GenericResult(FALSE) => Stream[i].id \notin T
  <2>1. ASSUME NEW i \in DOMAIN Stream, Stream[i].content = GenericResult(FALSE)
        PROVE  Stream[i].id # n
    <3>1. Stream[i].id \in Ids(Stream)
      BY <2>1 DEF Ids, Direct, GenericResult
    <3>2. Stream[i].id \in Nat /\ Stream[i].id <= Asked
      BY <1>2, <3>1, IdsAreNumbers DEF DirectInv
    <3>3. n = Asked + 1 /\ Asked \in Nat
      BY <1>1, HeadIsNewest DEF Asked
    <3> QED
      BY <3>2, <3>3
  <2> QED
    BY <1>3, <1>4, <2>1 DEF Heard, ResultsTell
<1>6. ~IsLine(p) /\ ~IsEnd(p)
  BY <1>1 DEF IsDirect, IsLine, IsEnd
<1> HIDE DEF p, n, S, T
<1>7. CASE responsesOpen
  <2> DEFINE t == Append(Stream, p)
  <2>1. Heard(t, T)
    BY <1>1, <1>2, <1>3, <1>4, <1>5, <1>6, HeardAppended
  <2>2. /\ Len(Stream) \in Nat /\ DOMAIN Stream = 1..Len(Stream) /\ Len(t) = Len(Stream) + 1
        /\ DOMAIN t = 1..(Len(Stream) + 1)
        /\ \A i \in 1..Len(Stream) : t[i] = Stream[i]
        /\ t[Len(Stream) + 1] = p
    BY <1>1, <1>2, Appended DEF Packets
  <2> HIDE DEF t
  <2>3. NoneEnded(t, messages')
    <3>1. \A i \in DOMAIN t : IsEnd(t[i]) => i \in DOMAIN Stream /\ t[i] = Stream[i]
      BY <1>6, <2>2
    <3> QED
      BY <1>4, <3>1 DEF NoneEnded
  <2>4. ASSUME NEW r \in Hears' PROVE ToldOf(t, Len(t), r)
    <3>1. CASE r \in LiveIds
      <4>1. ToldOf(Stream, Len(Stream), r)
        BY <1>7, <3>1 DEF HeardInv, Hears
      <4> QED
        BY <2>2, <4>1 DEF ToldOf
    <3>2. CASE r = n /\ IsResult(p)
      <4>1. Len(Stream) + 1 \in 1..Len(t)
        BY <2>2
      <4> QED
        BY <1>1, <2>2, <3>2, <4>1 DEF ToldOf
    <3> QED
      BY <1>3, <3>1, <3>2 DEF Hears
  <2>5. Stream' = t
    BY <1>2, <1>7 DEF t
  <2> QED
    BY <1>3, <2>1, <2>3, <2>4, <2>5, HeardIs DEF T
<1>8. CASE ~responsesOpen
  <2>1. Hears' = {} /\ Stream' = Stream
    BY <1>1, <1>2, <1>8 DEF Hears
  <2>2. Heard(Stream, T)
    BY <1>3, <1>4, <1>5 DEF Heard, ResultsTell
  <2> QED
    BY <1>3, <1>4, <2>1, <2>2, HeardIs DEF T
<1> QED
  BY <1>7, <1>8

(* Lines that come before one that is passed on were passed on.            *)
LEMMA LinesBeforeHead ==
  ASSUME IInv, MapInv, LineInv, responsesOpen, NEW p \in AgentPacket(GuestResponse),
         1 \in DOMAIN messages, IsAnswer(messages[1]), p = messages[1].response, IsLine(p),
         NEW m \in 1..(p.content.line - 1)
  PROVE  InAnswers(Stream, p.id, p.content.stream, m)
<1> DEFINE r == p.id
           x == p.content.stream
           n == p.content.line
<1>1. r \in RequestId /\ x \in CommandStream /\ n \in Nat
  BY DEF IsLine, AgentPacket, GuestResponse
<1>2. Live(r)
  BY DEF MapInv, MessagesOfTasks, OfTask, Live
<1>3. IsLineOf(p, r, x, n)
  BY DEF IsLineOf
<1> HIDE DEF r, x, n
<1>4. n \in 1..Passed(r, x) /\ Passed(r, x) \in Nat
  <2>1. Carried(Stream, messages, r, x, n)
    BY <1>3 DEF Carried, InQueue
  <2> QED
    BY <1>1, <2>1, PassedIsNat DEF LineInv, LinesWerePassed
<1>5. m \in 1..Passed(r, x) /\ m < n
  BY <1>1, <1>4 DEF n
<1>6. Carried(Stream, messages, r, x, m)
  BY <1>1, <1>2, <1>5 DEF LineInv, NoLineMissing
<1>7. ASSUME NEW j \in DOMAIN messages, IsAnswer(messages[j]), IsLineOf(messages[j].response, r, x, m)
      PROVE  FALSE
  <2>1. j = 1 \/ 1 < j
    BY DEF IInv, Types, TypeOK
  <2>2. CASE j = 1
    BY <1>1, <1>3, <1>5, <1>7, <2>2 DEF IsLineOf
  <2>3. CASE 1 < j
    <3>1. Follows(p, messages[j].response)
      BY <1>7, <2>3 DEF LineInv, LinesFollow
    <3>2. n < m
      BY <1>3, <1>7, <3>1 DEF Follows, IsLineOf
    <3> QED
      BY <1>1, <1>5, <3>2
  <2> QED
    BY <2>1, <2>2, <2>3
<1> QED
  BY <1>6, <1>7 DEF Carried, InQueue, r, x

(* A line or an end is passed on. *)
LEMMA HeardPassedOn ==
  ASSUME IInv, MapInv, LineInv, HeardInv, PassOn
  PROVE  HeardInv'
<1> DEFINE p == held'
<1>1. /\ IsAnswer(messages[1]) /\ 1 \in DOMAIN messages /\ p = messages[1].response
      /\ ~IsDirect(p) /\ p \in AgentPacket(GuestResponse)
      /\ Stream' = IF responsesOpen THEN Append(Stream, p) ELSE Stream
  BY PassedOnPacket
<1>2. /\ UNCHANGED <<supervisor, via, channel, pid, responsesOpen>>
      /\ messages # <<>> /\ messages' = Tail(messages)
  BY DEF PassOn, taskVars, spawnVars, superVars, ioVars
<1>3. StartedIds' = StartedIds /\ LiveIds' = LiveIds /\ Spawned' = Spawned /\ Hears' = Hears
  BY <1>2 DEF StartedIds, Started, LiveIds, Live, Spawned, Hears
<1>4. p.id \in LiveIds /\ p.id \in StartedIds
  BY <1>1 DEF MapInv, MessagesOfTasks, OfTask, LiveIds, Live, StartedIds, AgentPacket
<1>5. NoneEnded(Stream, messages') /\ Stream \in Packets /\ messages \in Messages
  BY <1>2, FewerMessages, StreamType DEF HeardInv, IInv, Types, TypeOK, Messages
<1> HIDE DEF p
<1>6. CASE responsesOpen
  <2> DEFINE t == Append(Stream, p)
  <2>1. /\ ToldOf(Stream, Len(Stream), p.id)
        /\ \A i \in DOMAIN Stream : IsEnd(Stream[i]) => Stream[i].id # p.id
    BY <1>1, <1>4, <1>6 DEF HeardInv, Hears, NoneEnded
  <2>2. IsLine(p) => \A m \in 1..(p.content.line - 1) : InAnswers(Stream, p.id, p.content.stream, m)
    BY <1>1, <1>6, LinesBeforeHead
  <2>3. Heard(Stream, StartedIds) /\ p.content # GenericResult(FALSE)
    BY <1>1 DEF HeardInv, IsDirect, GenericResult
  <2>4. \A i \in DOMAIN Stream : Stream[i].content = GenericResult(FALSE) => Stream[i].id \notin StartedIds
    BY <2>3 DEF Heard, ResultsTell
  <2>5. Heard(t, StartedIds)
    BY <1>1, <1>4, <1>5, <2>1, <2>2, <2>3, <2>4, HeardAppended
  <2>6. /\ Len(Stream) \in Nat /\ DOMAIN Stream = 1..Len(Stream) /\ Len(t) = Len(Stream) + 1
        /\ DOMAIN t = 1..(Len(Stream) + 1)
        /\ \A i \in 1..Len(Stream) : t[i] = Stream[i]
        /\ t[Len(Stream) + 1] = p
    BY <1>1, <1>5, Appended DEF Packets
  <2> HIDE DEF t
  <2>7. NoneEnded(t, messages')
    <3>1. ASSUME IsEnd(p), NEW k \in DOMAIN messages', IsAnswer(messages'[k])
          PROVE  messages'[k].response.id # p.id
      <4>1. k + 1 \in DOMAIN messages /\ 1 < k + 1 /\ messages'[k] = messages[k + 1]
        BY <1>2, <1>5, <3>1, Taken DEF Messages
      <4> QED
        BY <1>1, <3>1, <4>1 DEF LineInv, EndsWait
    <3>2. \A i \in DOMAIN t : (i \in DOMAIN Stream /\ t[i] = Stream[i]) \/ t[i] = p
      BY <2>6
    <3> QED
      BY <1>5, <3>1, <3>2 DEF NoneEnded
  <2>8. ASSUME NEW r \in Hears PROVE ToldOf(t, Len(t), r)
    <3>1. ToldOf(Stream, Len(Stream), r)
      BY DEF HeardInv
    <3> QED
      BY <2>6, <3>1 DEF ToldOf
  <2>9. Stream' = t
    BY <1>1, <1>6 DEF t
  <2> QED
    BY <1>3, <2>5, <2>7, <2>8, <2>9, HeardIs DEF HeardInv
<1>7. CASE ~responsesOpen
  BY <1>1, <1>2, <1>3, <1>5, <1>7, HeardStill
<1> QED
  BY <1>6, <1>7

(* The steps of the orchestrator. *)
LEMMA HeardOrch ==
  ASSUME IInv, MapInv, Waiting, DirectInv, LineInv, HeardInv, OrchNext
  PROVE  HeardInv'
<1>1. CASE ReInitialize \/ Initialize \/ Ping \/ CommandExec \/ CommandKill
  BY <1>1, HeardAnswered
<1>2. CASE PassOn
  BY <1>2, HeardPassedOn
<1>3. CASE RemoveTask \/ Send
  <2>1. /\ Stream' = Stream /\ UNCHANGED <<supervisor, via, channel, pid, responsesOpen>>
        /\ messages' = messages \/ (messages # <<>> /\ messages' = Tail(messages))
    BY <1>3, StreamSame, StreamKept
    DEF RemoveTask, Send, ioVars, histVars, taskVars, spawnVars, superVars
  <2>2. StartedIds' = StartedIds /\ Hears' = Hears
    BY <2>1 DEF StartedIds, Started, LiveIds, Live, Hears
  <2>3. NoneEnded(Stream, messages')
    BY <2>1, FewerMessages DEF HeardInv
  <2> QED
    BY <2>1, <2>2, <2>3, HeardStill
<1>4. CASE Break
  <2>1. Stream' = Stream /\ UNCHANGED <<supervisor, via, pid>> /\ DropMessages /\ messages' = <<>>
    BY <1>4, StreamKept DEF Break, DropMessages, spawnVars, superVars
  <2>2. StartedIds' = StartedIds /\ LiveIds' = {}
    BY <2>1, LiveDropped DEF StartedIds, Started, LiveIds
  <2>3. Hears' \subseteq Hears
    BY <2>2 DEF Hears
  <2>4. NoneEnded(Stream, messages')
    BY <2>1, FewerMessages DEF HeardInv
  <2> QED
    BY <2>1, <2>2, <2>3, <2>4, HeardStill
<1> QED
  BY <1>1, <1>2, <1>3, <1>4 DEF OrchNext, Handle

(* The ends of the channels. *)
LEMMA HeardPort ==
  ASSUME IInv, HeardInv, PortNext
  PROVE  HeardInv'
<1>1. UNCHANGED <<supervisor, via, channel, pid, messages>>
  BY DEF PortNext, ReaderQueues, ReaderEnds, WriterTakes, WriterEnds, taskVars, spawnVars, superVars
<1>2. StartedIds' = StartedIds /\ LiveIds' = LiveIds /\ Spawned' = Spawned
  BY <1>1 DEF StartedIds, Started, LiveIds, Live, Spawned
<1>3. CASE ReaderQueues \/ ReaderEnds \/ WriterTakes
  <2>1. Stream' = Stream /\ UNCHANGED responsesOpen
    BY <1>3, StreamSame, StreamKept DEF ReaderQueues, ReaderEnds, WriterTakes, orchVars, histVars
  <2>2. Hears' \subseteq Hears /\ NoneEnded(Stream, messages')
    BY <1>1, <1>2, <2>1 DEF Hears, HeardInv
  <2> QED
    BY <1>1, <1>2, <2>1, <2>2, HeardStill
<1>4. CASE WriterEnds
  <2> DEFINE t == Stream'
  <2>1. t \in Packets /\ Begins(t, Stream) /\ Stream \in Packets
    BY <1>4, StreamCut, StreamType
  <2>2. Hears' = {}
    BY <1>4 DEF WriterEnds, Hears
  <2> HIDE DEF t
  <2>3. Heard(t, StartedIds)
    BY <2>1, HeardCut DEF HeardInv
  <2>4. NoneEnded(t, messages')
    <3>1. \A i \in DOMAIN t : i \in DOMAIN Stream /\ t[i] = Stream[i]
      BY <2>1 DEF Packets, Begins
    <3> QED
      BY <1>1, <3>1 DEF HeardInv, NoneEnded
  <2> QED
    BY <1>2, <2>2, <2>3, <2>4, HeardIs DEF HeardInv, t
<1> QED
  BY <1>3, <1>4 DEF PortNext

(* The steps of a command. *)
LEMMA HeardTask ==
  ASSUME IInv, MapInv, LineInv, HeardInv, NEW r \in RequestId, TaskNext(r), UNCHANGED restVars
  PROVE  HeardInv'
<1>1. Stream' = Stream /\ UNCHANGED responsesOpen
  BY StreamSame DEF restVars, ioVars, orchVars, histVars
<1>2. UNCHANGED pid
  BY DEF TaskNext, PumpNext, PumpStep, PumpReads, PumpEnds, PumpSends, SuperNext, Reap,
     ReportFinished, ReportTaskFinished, Report, KillNext, KernelNext, KillTerm, KillKill,
     LeaderExits, KidExits, WriteLine, spawnVars
<1>3. StartedIds' = StartedIds /\ Hears' = Hears
  BY <1>1, TaskStarts, LiveTask DEF StartedIds, LiveIds, Hears
<1>4. NoneEnded(Stream, messages')
  <2>1. CASE messages' = messages
    BY <2>1 DEF HeardInv
  <2>2. ASSUME NEW x \in CommandStream, PumpSends(r, x) PROVE NoneEnded(Stream, messages')
    <3> DEFINE m == GuestResponseMessage(Output(r, x, taken[r][x]))
    <3>1. m.response.id = r
      BY DEF GuestResponseMessage, Output
    <3>2. ~Reported(r)
      <4>1. pump[r][x] # "done"
        BY <2>2 DEF PumpSends
      <4> QED
        BY <4>1 DEF LineInv, PumpsDrained, Drained, Reported
    <3>3. messages' = messages \/ messages' = Append(messages, m)
      BY <2>2 DEF PumpSends
    <3> HIDE DEF m
    <3> QED
      BY <2>1, <3>1, <3>2, <3>3, MoreMessages
  <2>3. CASE ReportFinished(r)
    <3> DEFINE m == GuestResponseMessage(Finished(r))
    <3>1. m.response.id = r
      BY DEF GuestResponseMessage, Finished
    <3>2. /\ ~Reported(r)
          /\ messages' = messages \/ messages' = Append(messages, m)
      BY <2>3 DEF ReportFinished, Report, Reported
    <3> HIDE DEF m
    <3> QED
      BY <2>1, <3>1, <3>2, MoreMessages
  <2>4. CASE ReportTaskFinished(r)
    <3> DEFINE m == TaskFinishedMessage(command[r])
    <3>1. ~IsAnswer(m)
      BY DEF TaskFinishedMessage, IsAnswer
    <3>2. messages' = messages \/ messages' = Append(messages, m)
      BY <2>4 DEF ReportTaskFinished, Report
    <3> HIDE DEF m
    <3> QED
      BY <2>1, <3>1, <3>2, MoreMessages
  <2>5. CASE Reap(r) \/ KillNext(r) \/ KernelNext(r)
             \/ \E x \in CommandStream : PumpReads(r, x) \/ PumpEnds(r, x)
    <3>1. messages' = messages
      BY <2>5 DEF Reap, KillNext, KernelNext, KillTerm, KillKill, LeaderExits, KidExits, WriteLine,
         PumpReads, PumpEnds
    <3> QED
      BY <2>1, <3>1
  <2> QED
    BY <2>2, <2>3, <2>4, <2>5 DEF TaskNext, PumpNext, PumpStep, SuperNext
<1> QED
  BY <1>1, <1>2, <1>3, <1>4, HeardStill

-----------------------------------------------------------------------------
(* The invariant behind what the host is promised. *)
WireInv == OrderInv /\ OutputInv /\ HeardInv

(* Nothing was heard when the port is opened. *)
LEMMA WireInit == Init => WireInv
<1> SUFFICES ASSUME Init PROVE HeardInv
  BY OrderInit, OutputInit DEF WireInv
<1>1. Stream = <<>> /\ messages = <<>>
  BY DEF Init, TaskInit, Stream
<1>2. StartedIds = {} /\ Hears = {}
  BY DEF Init, TaskInit, StartedIds, Started, Hears, LiveIds, Live
<1>3. DOMAIN Stream = {}
  BY <1>1
<1> QED
  BY <1>2, <1>3 DEF HeardInv, Heard, ToldFirst, NoGap, EndIsLast, NoneEnded, ResultsTell

(* Every step keeps it. *)
LEMMA WireStep == WireInv /\ [Next]_vars => WireInv'
<1> SUFFICES ASSUME WireInv, [Next]_vars PROVE HeardInv'
  BY OrderStep, OutputStep DEF WireInv
<1> USE DEF WireInv, OrderInv, OutputInv, NumberedInv
<1>1. CASE OrchNext
  BY <1>1, HeardOrch
<1>2. CASE PortNext
  BY <1>2, HeardPort
<1>3. ASSUME NEW r \in RequestId, CommandNext(r)
      PROVE  HeardInv'
  BY <1>3, HeardTask DEF CommandNext
<1>4. CASE UNCHANGED vars
  <2>1. /\ Stream' = Stream
        /\ UNCHANGED <<supervisor, via, channel, pid, messages, responsesOpen>>
    BY <1>4, StreamSame DEF vars, orchVars, ioVars, histVars, taskVars, spawnVars, superVars
  <2>2. StartedIds' = StartedIds /\ Hears' = Hears /\ NoneEnded(Stream, messages')
    BY <2>1 DEF StartedIds, Started, LiveIds, Live, Hears, HeardInv
  <2> QED
    BY <2>1, <2>2, HeardStill
<1> QED
  BY <1>1, <1>2, <1>3, <1>4 DEF Next

-----------------------------------------------------------------------------
(* The wire: what was written, and what an answer more does to it. *)

IsAnnouncement(p) == p.content.type = "Initialized"

LinesRise(w) ==
  /\ \A i \in DOMAIN w : IsLine(w[i]) => w[i].content.line > 0
  /\ \A i, j \in DOMAIN w : i < j => Follows(w[i], w[j])

GoodWire(w, S) == InOrder(w) /\ NothingOlderAfterSwitch(w) /\ Heard(w, S) /\ LinesRise(w)

(* What is written is a beginning of what is decided. *)
LEMMA WireIsGood ==
  ASSUME WireInv, NEW w \in Packets, Begins(w, Stream)
  PROVE  GoodWire(w, Spawned)
<1> USE DEF WireInv, OrderInv, OutputInv, NumberedInv
<1>1. Stream \in Packets /\ StartedIds = Spawned
  <2>1. Spawned \subseteq StartedIds
    BY DEF MapInv, Unstarted, Spawned, StartedIds
  <2> QED
    BY <2>1, StreamType DEF HeardInv
<1>2. InOrder(w)
  BY <1>1, InOrderCut DEF DirectInv
<1>3. NothingOlderAfterSwitch(w)
  BY <1>1, BarredCut DEF BarrierInv, Barred
<1>4. Heard(w, Spawned)
  BY <1>1, HeardCut DEF HeardInv
<1>5. LinesRise(w)
  <2>1. \A i \in DOMAIN w : i \in DOMAIN Stream /\ w[i] = Stream[i]
    BY <1>1 DEF Packets, Begins
  <2>2. ASSUME NEW i \in DOMAIN Stream, IsLine(Stream[i])
        PROVE  Stream[i].content.line > 0
    <3> DEFINE r == Stream[i].id
               x == Stream[i].content.stream
               n == Stream[i].content.line
    <3>1. r \in RequestId /\ x \in CommandStream /\ n \in Nat
      <4>1. Stream[i] \in AgentPacket(GuestResponse)
        BY <1>1 DEF Packets
      <4> QED
        BY <2>2, <4>1 DEF IsLine, AgentPacket, GuestResponse
    <3>2. Carried(Stream, messages, r, x, n)
      BY <2>2 DEF Carried, InAnswers, IsLineOf
    <3> HIDE DEF r, x
    <3>3. n \in 1..Passed(r, x)
      BY <3>1, <3>2 DEF LineInv, LinesWerePassed
    <3> QED
      BY <3>3, <3>1
  <2> QED
    BY <2>1, <2>2 DEF LinesRise, LineInv, LinesFollow
<1> QED
  BY <1>2, <1>3, <1>4, <1>5 DEF GoodWire

(* An answer and whom it is for. *)
LEMMA AnsweredBy ==
  ASSUME NEW w \in Packets
  PROVE  \A i \in DOMAIN w : /\ w[i] \in AgentPacket(GuestResponse) /\ w[i].content \in GuestResponse
                             /\ w[i].id \in RequestId /\ w[i].id \in Nat \ {0}
<1> SUFFICES ASSUME NEW i \in DOMAIN w
             PROVE  /\ w[i] \in AgentPacket(GuestResponse) /\ w[i].content \in GuestResponse
                    /\ w[i].id \in RequestId /\ w[i].id \in Nat \ {0}
  OBVIOUS
<1>1. w[i] \in AgentPacket(GuestResponse)
  BY DEF Packets
<1>2. w[i].id \in RequestId /\ w[i].content \in GuestResponse
  BY <1>1 DEF AgentPacket
<1> QED
  BY <1>1, <1>2 DEF TaskAssumption

(* The wire t is w with p at its end. *)
OneMore(w, p, t) ==
  /\ Len(w) \in Nat /\ Len(t) = Len(w) + 1 /\ DOMAIN w = 1..Len(w) /\ DOMAIN t = 1..(Len(w) + 1)
  /\ \A i \in DOMAIN w : i \in DOMAIN t /\ t[i] = w[i] /\ i < Len(t)
  /\ Len(t) \in DOMAIN t /\ t[Len(t)] = p
  /\ t \in Packets /\ Begins(w, t)

(* What Append does, in the terms of a wire. *)
LEMMA GrowsByOne ==
  ASSUME NEW w \in Packets, NEW p \in AgentPacket(GuestResponse), NEW t, t = Append(w, p)
  PROVE  OneMore(w, p, t)
<1>1. /\ Len(w) \in Nat /\ DOMAIN w = 1..Len(w) /\ DOMAIN t = 1..(Len(w) + 1)
      /\ \A i \in 1..Len(w) : t[i] = w[i]
      /\ t[Len(w) + 1] = p
  BY Appended DEF Packets
<1>2. t \in Packets /\ Begins(w, t) /\ Len(t) = Len(w) + 1
  BY DEF Packets, Begins
<1> QED
  BY <1>1, <1>2 DEF OneMore

(* One more answer is received by whom it is for. *)
ReceivesOne(w, p, t) ==
  \A r, type :
    /\ p.id = r /\ p.content.type = type => Received(t, r, type) = Received(w, r, type) \union {Len(t)}
    /\ ~(p.id = r /\ p.content.type = type) => Received(t, r, type) = Received(w, r, type)

(* Nobody else receives anything. *)
LEMMA ReceivedGrows ==
  ASSUME NEW w \in Packets, NEW p \in AgentPacket(GuestResponse), NEW t, t = Append(w, p)
  PROVE  ReceivesOne(w, p, t)
<1>1. \A i : i \in DOMAIN t <=> i \in DOMAIN w \/ i = Len(t)
  BY GrowsByOne DEF OneMore
<1>2. (\A i \in DOMAIN w : t[i] = w[i]) /\ t[Len(t)] = p
  BY GrowsByOne DEF OneMore
<1>3. Len(t) \notin DOMAIN w
  BY GrowsByOne DEF OneMore
<1>4. ASSUME NEW r, NEW type
      PROVE  /\ p.id = r /\ p.content.type = type => Received(t, r, type) = Received(w, r, type) \union {Len(t)}
             /\ ~(p.id = r /\ p.content.type = type) => Received(t, r, type) = Received(w, r, type)
  BY <1>1, <1>2, <1>3 DEF Received
<1> QED
  BY <1>4 DEF ReceivesOne

(* One more announcement, if it is one of a new session. *)
LEMMA AnnouncedGrows ==
  ASSUME NEW w \in Packets, NEW p \in AgentPacket(GuestResponse), NEW t, t = Append(w, p)
  PROVE  AnnouncedBy(t) = IF Switches(t, Len(t)) THEN AnnouncedBy(w) \union {p.id} ELSE AnnouncedBy(w)
<1>1. \A i : i \in DOMAIN t <=> i \in DOMAIN w \/ i = Len(t)
  BY GrowsByOne DEF OneMore
<1>2. (\A i \in DOMAIN w : t[i] = w[i]) /\ t[Len(t)] = p
  BY GrowsByOne DEF OneMore
<1>3. \A i \in DOMAIN w : Switches(w, i) <=> Switches(t, i)
  BY GrowsByOne, SwitchesKept DEF OneMore
<1> QED
  BY <1>1, <1>2, <1>3 DEF AnnouncedBy

(* The greatest of a set of numbers. *)
LEMMA GreatestIs ==
  ASSUME NEW S \in SUBSET Nat, NEW m \in S, \A n \in S : n <= m
  PROVE  (CHOOSE id \in S : \A other \in S : other <= id) = m
<1> DEFINE c == CHOOSE id \in S : \A other \in S : other <= id
<1>1. c \in S /\ \A other \in S : other <= c
  OBVIOUS
<1> HIDE DEF c
<1>2. c \in Nat /\ m \in Nat /\ c <= m /\ m <= c
  BY <1>1
<1>3. c = m
  BY <1>2
<1> QED
  BY <1>3 DEF c

(* The barrier is the latest switch, if there was one. *)
LEMMA BarrierIsLatest ==
  ASSUME NEW w \in Packets, InOrder(w), Latest(w)
  PROVE  \/ /\ \A k \in DOMAIN w : ~IsAnnouncement(w[k])
            /\ AnnouncedBy(w) = {} /\ BarrierOn(w) = 0
         \/ \E j \in DOMAIN w :
              /\ Switches(w, j) /\ BarrierOn(w) = w[j].id /\ w[j].id \in Nat \ {0}
              /\ AnnouncedBy(w) # {} /\ \A n \in AnnouncedBy(w) : n \in Nat /\ n <= w[j].id
              /\ \A k \in j..Len(w) : IsAnnouncement(w[k]) => w[k].content = w[j].content
<1>1. CASE \A k \in DOMAIN w : ~IsAnnouncement(w[k])
  BY <1>1 DEF AnnouncedBy, Switches, BarrierOn, IsAnnouncement
<1>2. CASE \E k \in DOMAIN w : IsAnnouncement(w[k])
  <2>1. PICK j \in DOMAIN w :
          /\ Switches(w, j)
          /\ \A k \in j..Len(w) : IsAnnouncement(w[k]) => w[k].content = w[j].content
    BY <1>2 DEF Latest, IsAnnouncement
  <2>2. Len(w) \in Nat /\ DOMAIN w = 1..Len(w)
    BY DEF Packets
  <2>3. ASSUME NEW i \in DOMAIN w, Switches(w, i) PROVE w[i].id \in Nat /\ w[i].id <= w[j].id
    <3>1. w[i].id \in Nat /\ w[j].id \in Nat
      BY AnsweredBy
    <3>2. ASSUME j < i PROVE FALSE
      <4>1. j \in 1..(i - 1) /\ i \in j..Len(w) /\ \A m \in j..i : m \in j..Len(w)
        BY <2>2, <3>2
      <4>2. w[i].content = w[j].content
        BY <2>1, <2>3, <4>1 DEF Switches, IsAnnouncement
      <4>3. \A m \in j..i : w[m].content.type = "Initialized" => w[m].content = w[i].content
        BY <2>1, <4>1, <4>2 DEF IsAnnouncement
      <4> QED
        BY <2>3, <4>1, <4>2, <4>3 DEF Switches
    <3>3. CASE i = j
      BY <3>1, <3>3
    <3>4. CASE i < j
      <4>1. i \in Direct(w) /\ j \in Direct(w)
        BY <2>1, <2>3 DEF Switches, Direct
      <4>2. w[i].id < w[j].id
        BY <3>4, <4>1 DEF InOrder
      <4> QED
        BY <3>1, <4>2
    <3> QED
      BY <2>2, <3>2, <3>3, <3>4
  <2>4. w[j].id \in AnnouncedBy(w) /\ \A n \in AnnouncedBy(w) : n \in Nat /\ n <= w[j].id
    BY <2>1, <2>3 DEF AnnouncedBy
  <2>5. BarrierOn(w) = w[j].id
    <3>1. AnnouncedBy(w) \in SUBSET Nat
      BY <2>4
    <3> QED
      BY <2>4, <3>1, GreatestIs DEF BarrierOn
  <2>6. w[j].id \in Nat \ {0}
    BY AnsweredBy
  <2> QED
    BY <2>1, <2>4, <2>5, <2>6
<1> QED
  BY <1>1, <1>2

(* The latest switch stays known. *)
LEMMA LatestGrows ==
  ASSUME NEW w \in Packets, NEW p \in AgentPacket(GuestResponse), NEW t, t = Append(w, p), Latest(w)
  PROVE  Latest(t)
<1>1. /\ Len(w) \in Nat /\ Len(t) = Len(w) + 1 /\ DOMAIN w = 1..Len(w) /\ DOMAIN t = 1..(Len(w) + 1)
      /\ \A i \in DOMAIN w : i \in DOMAIN t /\ t[i] = w[i] /\ (Switches(w, i) <=> Switches(t, i))
      /\ Len(t) \in DOMAIN t /\ t[Len(t)] = p
  <2>1. \A i \in DOMAIN w : Switches(w, i) <=> Switches(t, i)
    BY GrowsByOne, SwitchesKept DEF OneMore
  <2> QED
    BY GrowsByOne, <2>1 DEF OneMore
<1>2. CASE ~IsAnnouncement(p)
  <2>1. ASSUME NEW k \in DOMAIN t, IsAnnouncement(t[k]) PROVE k \in DOMAIN w /\ IsAnnouncement(w[k])
    <3>1. k \in DOMAIN w \/ k = Len(t)
      BY <1>1
    <3> QED
      BY <1>1, <1>2, <2>1, <3>1
  <2>2. ASSUME NEW k \in DOMAIN t, IsAnnouncement(t[k])
        PROVE  \E j \in DOMAIN t :
                 /\ Switches(t, j)
                 /\ \A i \in j..Len(t) : IsAnnouncement(t[i]) => t[i].content = t[j].content
    <3>1. PICK j \in DOMAIN w :
            /\ Switches(w, j)
            /\ \A i \in j..Len(w) : IsAnnouncement(w[i]) => w[i].content = w[j].content
      BY <2>1, <2>2 DEF Latest, IsAnnouncement
    <3>2. ASSUME NEW i \in j..Len(t), IsAnnouncement(t[i]) PROVE t[i].content = t[j].content
      <4>1. i \in DOMAIN w /\ i \in j..Len(w)
        <5>1. i \in DOMAIN t
          BY <1>1, <3>1
        <5> QED
          BY <1>1, <2>1, <3>2, <5>1
      <4> QED
        BY <1>1, <3>1, <3>2, <4>1
    <3> QED
      BY <1>1, <3>1, <3>2
  <2> QED
    BY <2>2 DEF Latest, IsAnnouncement
<1>3. CASE Switches(t, Len(t))
  <2>1. \A k \in Len(t)..Len(t) : t[k].content = t[Len(t)].content
    BY <1>1
  <2> QED
    BY <1>1, <1>3, <2>1 DEF Latest
<1>4. CASE IsAnnouncement(p) /\ ~Switches(t, Len(t))
  <2>1. PICK k \in 1..(Len(t) - 1) :
          /\ t[k].content = p.content
          /\ \A m \in k..Len(t) : IsAnnouncement(t[m]) => t[m].content = p.content
    <3>1. p.content.type = "Initialized" /\ t[Len(t)].content = p.content
      BY <1>1, <1>4 DEF IsAnnouncement
    <3>2. PICK k \in 1..(Len(t) - 1) :
            /\ t[k].content = t[Len(t)].content
            /\ \A m \in k..Len(t) : t[m].content.type = "Initialized" => t[m].content = t[Len(t)].content
      BY <1>4, <3>1 DEF Switches
    <3> QED
      BY <3>1, <3>2 DEF IsAnnouncement
  <2>2. k \in DOMAIN w /\ IsAnnouncement(w[k])
    BY <1>1, <1>4, <2>1 DEF IsAnnouncement
  <2>3. PICK j \in DOMAIN w :
          /\ Switches(w, j)
          /\ \A i \in j..Len(w) : IsAnnouncement(w[i]) => w[i].content = w[j].content
    BY <2>2 DEF Latest, IsAnnouncement
  <2>4. t[j].content = p.content
    <3>1. CASE j <= k
      <4>1. k \in j..Len(w)
        BY <1>1, <2>2, <3>1
      <4> QED
        BY <1>1, <2>1, <2>2, <2>3, <4>1
    <3>2. CASE k < j
      <4>1. j \in k..Len(t) /\ IsAnnouncement(t[j])
        BY <1>1, <2>2, <2>3, <3>2 DEF Switches, IsAnnouncement
      <4> QED
        BY <2>1, <4>1
    <3> QED
      BY <1>1, <2>2, <3>1, <3>2
  <2>5. ASSUME NEW i \in j..Len(t), IsAnnouncement(t[i]) PROVE t[i].content = t[j].content
    <3>1. i = Len(t) \/ (i \in j..Len(w) /\ i \in DOMAIN w)
      BY <1>1
    <3> QED
      BY <1>1, <2>3, <2>4, <2>5, <3>1
  <2> QED
    BY <1>1, <2>3, <2>5 DEF Latest, IsAnnouncement
<1> QED
  BY <1>2, <1>3, <1>4

(* What is no line leaves the lines. *)
LEMMA LinesSame ==
  ASSUME NEW w \in Packets, NEW p \in AgentPacket(GuestResponse), NEW t, t = Append(w, p), ~IsLine(p)
  PROVE  LinesOn(t) = LinesOn(w)
<1>1. ASSUME NEW r \in RequestId, NEW s \in CommandStream
      PROVE  {i \in Received(t, r, "CommandOutput") : t[i].content.stream = s}
               = {i \in Received(w, r, "CommandOutput") : w[i].content.stream = s}
  <2>1. p.content.type # "CommandOutput"
    BY DEF IsLine
  <2>2. Received(t, r, "CommandOutput") = Received(w, r, "CommandOutput")
    <3>1. ReceivesOne(w, p, t)
      BY ReceivedGrows
    <3> QED
      BY <2>1, <3>1 DEF ReceivesOne
  <2>3. \A i \in Received(w, r, "CommandOutput") : i \in DOMAIN w
    BY DEF Received
  <2>4. \A i \in DOMAIN w : t[i] = w[i]
    BY GrowsByOne DEF OneMore
  <2> QED
    BY <2>2, <2>3, <2>4
<1> QED
  BY <1>1 DEF LinesOn

(* Without a switch the barrier stays. *)
LEMMA BarrierStays ==
  ASSUME NEW w \in Packets, NEW p \in AgentPacket(GuestResponse), NEW t, t = Append(w, p),
         ~Switches(t, Len(t))
  PROVE  BarrierOn(t) = BarrierOn(w)
<1>1. AnnouncedBy(t) = AnnouncedBy(w)
  BY AnnouncedGrows
<1> QED
  BY <1>1 DEF BarrierOn

(* A session is announced. *)
Announces(w, p, t, P) ==
  /\ LinesOn(t) = LinesOn(w)
  /\ \/ BarrierOn(t) = p.id /\ LiveOn(t, P) = {}
     \/ /\ BarrierOn(w) # 0
        /\ \E i \in DOMAIN w : w[i].id = BarrierOn(w) /\ w[i].content = p.content
        /\ BarrierOn(t) = BarrierOn(w) /\ LiveOn(t, P) = LiveOn(w, P)

(* An announcement does that: the barrier is the latest switch. *)
LEMMA AnnounceOnWire ==
  ASSUME NEW w \in Packets, NEW p \in AgentPacket(GuestResponse), NEW t, t = Append(w, p),
         NEW P \in SUBSET RequestId, GoodWire(t, P), Latest(w), IsAnnouncement(p)
  PROVE  Announces(w, p, t, P)
<1>1. LinesOn(t) = LinesOn(w)
  BY LinesSame DEF IsLine, IsAnnouncement
<1>2. /\ Len(w) \in Nat /\ Len(t) = Len(w) + 1 /\ DOMAIN w = 1..Len(w) /\ DOMAIN t = 1..(Len(w) + 1)
      /\ \A i \in DOMAIN w : i \in DOMAIN t /\ t[i] = w[i]
      /\ Len(t) \in DOMAIN t /\ t[Len(t)] = p /\ t \in Packets /\ Begins(w, t)
  <2>1. OneMore(w, p, t)
    BY GrowsByOne
  <2> QED
    BY <2>1 DEF OneMore
<1>3. InOrder(t) /\ InOrder(w)
  BY <1>2, InOrderCut DEF GoodWire
<1>4. CASE Switches(t, Len(t))
  <2>1. Latest(t) /\ p.id \in AnnouncedBy(t)
    BY <1>2, <1>4, LatestGrows DEF AnnouncedBy
  <2>2. PICK j \in DOMAIN t :
          /\ Switches(t, j) /\ BarrierOn(t) = t[j].id /\ t[j].id \in Nat \ {0}
          /\ \A n \in AnnouncedBy(t) : n \in Nat /\ n <= t[j].id
    BY <1>2, <1>3, <2>1, BarrierIsLatest
  <2>3. p.id <= BarrierOn(t) /\ p.id \in Nat /\ BarrierOn(t) \in Nat
    BY <2>1, <2>2
  <2>4. ASSUME j # Len(t) PROVE FALSE
    <3>1. j \in Direct(t) /\ Len(t) \in Direct(t) /\ j < Len(t)
      BY <1>2, <1>4, <2>2, <2>4 DEF Direct, Switches
    <3>2. t[j].id < p.id
      BY <1>2, <1>3, <3>1 DEF InOrder
    <3> QED
      BY <2>2, <2>3, <3>2
  <2>5. BarrierOn(t) = p.id
    BY <1>2, <2>2, <2>4
  <2>6. ASSUME NEW r \in LiveOn(t, P) PROVE FALSE
    <3>1. r \in Nat /\ r > p.id /\ Received(t, r, "GenericResult") # {}
      BY <2>5 DEF LiveOn, TaskAssumption
    <3>2. PICK i \in DOMAIN t : t[i].id = r /\ t[i].content.type = "GenericResult"
      BY <3>1 DEF Received
    <3>3. i # Len(t)
      BY <1>2, <3>2 DEF IsAnnouncement
    <3>4. i \in Direct(t) /\ Len(t) \in Direct(t) /\ i < Len(t)
      BY <1>2, <1>4, <3>2, <3>3 DEF Direct, Switches
    <3>5. r < p.id
      BY <1>2, <1>3, <3>2, <3>4 DEF InOrder
    <3> QED
      BY <2>3, <3>1, <3>5
  <2> QED
    BY <1>1, <2>5, <2>6 DEF Announces
<1>5. CASE ~Switches(t, Len(t))
  <2>1. BarrierOn(t) = BarrierOn(w)
    BY <1>5, BarrierStays
  <2>2. \A r : /\ Received(t, r, "GenericResult") = Received(w, r, "GenericResult")
               /\ Received(t, r, "CommandFinished") = Received(w, r, "CommandFinished")
    <3>1. p.content.type \notin {"GenericResult", "CommandFinished"}
      BY DEF IsAnnouncement
    <3>2. ReceivesOne(w, p, t)
      BY ReceivedGrows
    <3> QED
      BY <3>1, <3>2 DEF ReceivesOne
  <2>3. LiveOn(t, P) = LiveOn(w, P)
    BY <2>1, <2>2 DEF LiveOn
  <2>4. PICK k \in 1..(Len(t) - 1) :
          /\ t[k].content = p.content
          /\ \A m \in k..Len(t) : IsAnnouncement(t[m]) => t[m].content = p.content
    BY <1>2, <1>5 DEF Switches, IsAnnouncement
  <2>5. k \in DOMAIN w /\ w[k].content = p.content /\ IsAnnouncement(w[k])
    BY <1>2, <2>4 DEF IsAnnouncement
  <2>6. PICK j \in DOMAIN w :
          /\ Switches(w, j) /\ BarrierOn(w) = w[j].id /\ w[j].id \in Nat \ {0}
          /\ \A i \in j..Len(w) : IsAnnouncement(w[i]) => w[i].content = w[j].content
    BY <1>3, <2>5, BarrierIsLatest
  <2>7. w[j].content = p.content
    <3>1. CASE j <= k
      <4>1. k \in j..Len(w)
        BY <1>2, <2>5, <3>1
      <4> QED
        BY <2>5, <2>6, <4>1
    <3>2. CASE k < j
      <4>1. j \in k..Len(t) /\ IsAnnouncement(t[j]) /\ t[j] = w[j]
        BY <1>2, <2>5, <2>6, <3>2 DEF Switches, IsAnnouncement
      <4> QED
        BY <2>4, <4>1
    <3> QED
      BY <1>2, <2>5, <3>1, <3>2
  <2> QED
    BY <1>1, <2>1, <2>3, <2>6, <2>7 DEF Announces
<1> QED
  BY <1>4, <1>5

(* The answer to a request leaves the barrier and the lines, and starts at *)
(* most the command that the request asked for.                            *)
AnswersTo(w, p, t, P) ==
  /\ BarrierOn(t) = BarrierOn(w) /\ LinesOn(t) = LinesOn(w)
  /\ \/ LiveOn(t, P) = LiveOn(w, P)
     \/ LiveOn(t, P) = LiveOn(w, P) \union {p.id} /\ p.content # GenericResult(FALSE)

(* A request that was refused has started nothing, so it adds nothing. *)
LEMMA ResultOnWire ==
  ASSUME NEW w \in Packets, NEW p \in AgentPacket(GuestResponse), NEW t, t = Append(w, p),
         NEW P \in SUBSET RequestId, GoodWire(t, P), IsResult(p)
  PROVE  AnswersTo(w, p, t, P)
<1>1. OneMore(w, p, t)
  BY GrowsByOne
<1>2. LinesOn(t) = LinesOn(w)
  BY LinesSame DEF IsLine, IsResult
<1>3. BarrierOn(t) = BarrierOn(w)
  <2>1. ~Switches(t, Len(t))
    BY <1>1 DEF OneMore, Switches, IsResult
  <2> QED
    BY <2>1, BarrierStays
<1>4. ReceivesOne(w, p, t)
  BY ReceivedGrows
<1>5. LiveOn(w, P) \subseteq LiveOn(t, P) /\ LiveOn(t, P) \subseteq LiveOn(w, P) \union {p.id}
  <2>1. \A r : Received(t, r, "CommandFinished") = Received(w, r, "CommandFinished")
    BY <1>4 DEF ReceivesOne, IsResult
  <2>2. \A r : Received(w, r, "GenericResult") \subseteq Received(t, r, "GenericResult")
    BY <1>4 DEF ReceivesOne
  <2>3. \A r : r # p.id => Received(w, r, "GenericResult") = Received(t, r, "GenericResult")
    BY <1>4 DEF ReceivesOne
  <2> QED
    BY <1>3, <2>1, <2>2, <2>3 DEF LiveOn
<1>6. p.content = GenericResult(FALSE) => p.id \notin LiveOn(t, P)
  BY <1>1 DEF OneMore, GoodWire, Heard, ResultsTell, LiveOn
<1> QED
  BY <1>2, <1>3, <1>5, <1>6 DEF AnswersTo

(* What is said of a command is said while it is live. *)
LEMMA CommandIsLive ==
  ASSUME NEW w \in Packets, NEW p \in AgentPacket(GuestResponse), NEW t, t = Append(w, p),
         NEW P \in SUBSET RequestId, GoodWire(t, P), Latest(w), ~IsDirect(p)
  PROVE  p.id \in LiveOn(w, P)
<1>1. OneMore(w, p, t)
  BY GrowsByOne
<1>2. p.id \in P
  BY <1>1 DEF OneMore, GoodWire, Heard, ResultsTell
<1>3. Received(w, p.id, "GenericResult") # {}
  <2>1. ToldOf(t, Len(t) - 1, p.id)
    BY <1>1 DEF OneMore, GoodWire, Heard, ToldFirst
  <2>2. PICK i \in 1..(Len(t) - 1) : t[i].id = p.id /\ IsResult(t[i])
    BY <2>1 DEF ToldOf
  <2>3. i \in DOMAIN w /\ w[i] = t[i]
    BY <1>1 DEF OneMore
  <2> QED
    BY <2>2, <2>3 DEF Received, IsResult
<1>4. Received(w, p.id, "CommandFinished") = {}
  <2>1. ASSUME NEW i \in Received(w, p.id, "CommandFinished") PROVE FALSE
    <3>1. i \in DOMAIN w /\ w[i].id = p.id /\ IsEnd(w[i])
      BY DEF Received, IsEnd
    <3>2. i \in DOMAIN t /\ t[i] = w[i] /\ i < Len(t) /\ Len(t) \in DOMAIN t /\ t[Len(t)] = p
      BY <1>1, <3>1 DEF OneMore
    <3>3. EndIsLast(t)
      BY DEF GoodWire, Heard
    <3> QED
      BY <3>1, <3>2, <3>3 DEF EndIsLast
  <2> QED
    BY <2>1
<1>5. p.id > BarrierOn(w)
  <2>1. p.id \in Nat \ {0}
    <3>1. t \in Packets /\ Len(t) \in DOMAIN t /\ t[Len(t)] = p
      BY <1>1 DEF OneMore
    <3> QED
      BY <3>1, AnsweredBy
  <2>2. t \in Packets /\ Begins(w, t) /\ InOrder(t)
    BY <1>1 DEF OneMore, GoodWire
  <2>3. InOrder(w)
    BY <2>2, InOrderCut
  <2>4. CASE BarrierOn(w) = 0
    BY <2>1, <2>4
  <2>5. ASSUME NEW j \in DOMAIN w, Switches(w, j), BarrierOn(w) = w[j].id
        PROVE  p.id > BarrierOn(w)
    <3>1. j \in DOMAIN t /\ t[j] = w[j] /\ j < Len(t) /\ Len(t) \in DOMAIN t /\ t[Len(t)] = p
      BY <1>1 DEF OneMore
    <3>2. Switches(t, j)
      BY <2>2, <2>5, SwitchesKept
    <3>3. NothingOlderAfterSwitch(t)
      BY DEF GoodWire
    <3> QED
      BY <2>5, <3>1, <3>2, <3>3 DEF NothingOlderAfterSwitch
  <2> QED
    BY <2>3, <2>4, <2>5, BarrierIsLatest
<1> QED
  BY <1>2, <1>3, <1>4, <1>5 DEF LiveOn

(* The end of a command leaves the barrier and the lines. *)
EndsOne(w, p, t, P) ==
  /\ BarrierOn(t) = BarrierOn(w) /\ LinesOn(t) = LinesOn(w)
  /\ LiveOn(t, P) = LiveOn(w, P) \ {p.id}

(* The end does that, to nobody but its own command. *)
LEMMA EndOnWire ==
  ASSUME NEW w \in Packets, NEW p \in AgentPacket(GuestResponse), NEW t, t = Append(w, p),
         NEW P \in SUBSET RequestId, IsEnd(p)
  PROVE  EndsOne(w, p, t, P)
<1>1. OneMore(w, p, t)
  BY GrowsByOne
<1>2. LinesOn(t) = LinesOn(w)
  BY LinesSame DEF IsLine, IsEnd
<1>3. BarrierOn(t) = BarrierOn(w)
  <2>1. ~Switches(t, Len(t))
    BY <1>1 DEF OneMore, Switches, IsEnd
  <2> QED
    BY <2>1, BarrierStays
<1>4. ReceivesOne(w, p, t)
  BY ReceivedGrows
<1>5. \A r : Received(t, r, "GenericResult") = Received(w, r, "GenericResult")
  BY <1>4 DEF ReceivesOne, IsEnd
<1>6. \A r : r # p.id => Received(t, r, "CommandFinished") = Received(w, r, "CommandFinished")
  BY <1>4 DEF ReceivesOne
<1>7. Received(t, p.id, "CommandFinished") # {}
  <2>1. Received(t, p.id, "CommandFinished") = Received(w, p.id, "CommandFinished") \union {Len(t)}
    BY <1>4 DEF ReceivesOne, IsEnd
  <2> QED
    BY <2>1
<1> QED
  BY <1>2, <1>3, <1>5, <1>6, <1>7 DEF LiveOn, EndsOne

(* The positions of the lines of one stream of one command. *)
LinesAt(w, r, x) == {i \in Received(w, r, "CommandOutput") : w[i].content.stream = x}

(* A line on the wire: those before it are all that have lower numbers. *)
LEMMA LinesBefore ==
  ASSUME NEW w \in Packets, NEW p \in AgentPacket(GuestResponse), NEW t, t = Append(w, p),
         NEW P, GoodWire(t, P), IsLine(p), p.content.line \in Nat
  PROVE  /\ IsFiniteSet(LinesAt(w, p.id, p.content.stream))
         /\ Cardinality(LinesAt(w, p.id, p.content.stream)) = p.content.line - 1
<1> DEFINE r == p.id
           x == p.content.stream
           n == p.content.line
           A == LinesAt(w, r, x)
           f == [i \in A |-> w[i].content.line]
<1>1. OneMore(w, p, t)
  BY GrowsByOne
<1>2. \A i \in DOMAIN w : i \in DOMAIN t /\ t[i] = w[i] /\ i < Len(t) /\ i \in Nat
  BY <1>1 DEF OneMore
<1>3. Len(t) \in DOMAIN t /\ t[Len(t)] = p
  BY <1>1 DEF OneMore
<1>4. n > 0 /\ n \in Nat
  <2>1. LinesRise(t) /\ IsLine(t[Len(t)])
    BY <1>3 DEF GoodWire
  <2>2. t[Len(t)].content.line > 0
    BY <1>3, <2>1 DEF LinesRise
  <2> QED
    BY <1>3, <2>2
<1>5. \A i \in A : /\ i \in DOMAIN w /\ IsLine(w[i]) /\ w[i].id = r /\ w[i].content.stream = x
                   /\ w[i].content.line \in Nat
  <2>1. \A i \in A : i \in DOMAIN w /\ IsLine(w[i]) /\ w[i].id = r /\ w[i].content.stream = x
    BY DEF LinesAt, Received, IsLine
  <2>2. \A i \in DOMAIN w : IsLine(w[i]) => w[i].content.line \in Nat
    <3>1. ASSUME NEW i \in DOMAIN w, IsLine(w[i]) PROVE w[i].content.line \in Nat
      <4>1. w[i].content \in GuestResponse
        BY AnsweredBy
      <4> QED
        BY <3>1, <4>1 DEF IsLine, GuestResponse
    <3> QED
      BY <3>1
  <2> QED
    BY <2>1, <2>2
<1>6. LinesRise(t) /\ NoGap(t)
  BY DEF GoodWire, Heard
<1>7. \A i \in A : w[i].content.line > 0 /\ w[i].content.line < n
  <2>1. ASSUME NEW i \in A PROVE w[i].content.line > 0 /\ w[i].content.line < n
    <3>1. t[i] = w[i] /\ i \in DOMAIN t /\ i < Len(t)
      BY <1>2, <1>5
    <3>2. Follows(t[i], t[Len(t)]) /\ t[i].content.line > 0
      BY <1>3, <1>5, <1>6, <3>1 DEF LinesRise
    <3> QED
      BY <1>3, <1>5, <3>1, <3>2 DEF Follows
  <2> QED
    BY <2>1
<1>8. \A i, j \in A : i # j => w[i].content.line # w[j].content.line
  <2>1. ASSUME NEW i \in A, NEW j \in A, i < j PROVE w[i].content.line < w[j].content.line
    <3>1. t[i] = w[i] /\ i \in DOMAIN t /\ t[j] = w[j] /\ j \in DOMAIN t
      BY <1>2, <1>5
    <3>2. Follows(t[i], t[j])
      BY <1>6, <2>1, <3>1 DEF LinesRise
    <3> QED
      BY <1>5, <3>1, <3>2 DEF Follows
  <2>2. ASSUME NEW i \in A, NEW j \in A, i # j PROVE w[i].content.line # w[j].content.line
    <3>1. i \in Nat /\ j \in Nat
      BY <1>2, <1>5
    <3>2. w[i].content.line \in Nat /\ w[j].content.line \in Nat
      BY <1>5
    <3>3. i < j \/ j < i
      BY <2>2, <3>1
    <3>4. w[i].content.line < w[j].content.line \/ w[j].content.line < w[i].content.line
      BY <2>1, <3>3
    <3> QED
      BY <3>2, <3>4
  <2> QED
    BY <2>2
<1>9. \A m \in 1..(n - 1) : \E i \in A : w[i].content.line = m
  <2>1. ASSUME NEW m \in 1..(n - 1) PROVE \E i \in A : w[i].content.line = m
    <3>1. PICK i \in 1..(Len(t) - 1) : IsLineOf(t[i], r, x, m)
      BY <1>3, <1>6, <2>1 DEF NoGap
    <3>2. i \in DOMAIN w /\ w[i] = t[i]
      BY <1>1 DEF OneMore
    <3>3. i \in A /\ w[i].content.line = m
      BY <3>1, <3>2 DEF IsLineOf, IsLine, LinesAt, Received
    <3> QED
      BY <3>3
  <2> QED
    BY <2>1
<1> HIDE DEF A, n
<1>10. f \in [A -> 1..(n - 1)] /\ \A i \in A : f[i] = w[i].content.line
  BY <1>4, <1>5, <1>7
<1>11. f \in Injection(A, 1..(n - 1)) /\ f \in Surjection(A, 1..(n - 1))
  <2>1. \A i, j \in A : f[i] = f[j] => i = j
    BY <1>8, <1>10
  <2>2. \A m \in 1..(n - 1) : \E i \in A : f[i] = m
    BY <1>9, <1>10
  <2> HIDE DEF f
  <2> QED
    BY <1>10, <2>1, <2>2 DEF Injection, Surjection, IsInjective
<1>12. IsFiniteSet(1..(n - 1)) /\ Cardinality(1..(n - 1)) = n - 1
  <2>1. 1 \in Int /\ n - 1 \in Int /\ (1 > n - 1 => n - 1 = 0)
    BY <1>4
  <2> DEFINE b == n - 1
  <2> HIDE DEF b
  <2>2. IsFiniteSet(1..b) /\ Cardinality(1..b) = IF 1 > b THEN 0 ELSE b - 1 + 1
    BY <2>1, FS_Interval DEF b
  <2>3. b \in Int /\ (1 > b => b = 0)
    BY <2>1 DEF b
  <2>4. Cardinality(1..b) = b
    BY <2>2, <2>3
  <2> QED
    BY <2>2, <2>4 DEF b
<1>13. IsFiniteSet(A) /\ Cardinality(A) = n - 1
  BY <1>11, <1>12, FS_Injection
<1> QED
  BY <1>13 DEF A, n

(* The lines are counted. *)
LEMMA LinesType ==
  ASSUME NEW w \in Packets
  PROVE  LinesOn(w) \in [RequestId -> [CommandStream -> Nat]]
<1>1. ASSUME NEW r \in RequestId, NEW x \in CommandStream
      PROVE  Cardinality(LinesAt(w, r, x)) \in Nat
  <2>1. LinesAt(w, r, x) \in SUBSET DOMAIN w
    BY DEF LinesAt, Received
  <2>2. Len(w) \in Nat /\ DOMAIN w = 1..Len(w)
    BY DEF Packets
  <2>3. IsFiniteSet(DOMAIN w)
    BY <2>2, FS_Interval
  <2> QED
    BY <2>1, <2>3, FS_Subset, FS_CardinalityType
<1>2. LinesOn(w) = [r \in RequestId |-> [x \in CommandStream |-> Cardinality(LinesAt(w, r, x))]]
  BY DEF LinesOn, LinesAt
<1> QED
  BY <1>1, <1>2

(* What one more of one kind does to a table of numbers. *)
AddsOne(R, X, f, g, r, x) ==
  \A q \in R, s \in X : g[q][s] = IF q = r /\ s = x THEN f[r][x] + 1 ELSE f[q][s]

Counted(f, r, x) == [f EXCEPT ![r][x] = @ + 1]

(* A table is known by its numbers. *)
LEMMA OneMoreAt ==
  ASSUME NEW R, NEW X, NEW f \in [R -> [X -> Nat]], NEW g \in [R -> [X -> Nat]],
         NEW r \in R, NEW x \in X, AddsOne(R, X, f, g, r, x)
  PROVE  g = Counted(f, r, x)
<1> DEFINE h == [f EXCEPT ![r][x] = @ + 1]
<1>1. h \in [R -> [X -> Nat]]
  OBVIOUS
<1>2. \A q \in R, s \in X : h[q][s] = IF q = r /\ s = x THEN f[r][x] + 1 ELSE f[q][s]
  OBVIOUS
<1> HIDE DEF h
<1>3. \A q \in R : g[q] = h[q]
  <2>1. ASSUME NEW q \in R PROVE g[q] = h[q]
    <3>1. g[q] \in [X -> Nat] /\ h[q] \in [X -> Nat]
      BY <1>1
    <3>2. \A s \in X : g[q][s] = h[q][s]
      BY <1>2 DEF AddsOne
    <3> QED
      BY <3>1, <3>2
  <2> QED
    BY <2>1
<1>4. g = h
  BY <1>1, <1>3
<1> QED
  BY <1>4 DEF h, Counted

(* The next line of a stream is counted, and nothing else changes. *)
CountsOne(w, p, t, P) ==
  /\ BarrierOn(t) = BarrierOn(w) /\ LiveOn(t, P) = LiveOn(w, P)
  /\ LinesOn(t) = [LinesOn(w) EXCEPT ![p.id][p.content.stream] = @ + 1]
  /\ LinesOn(t)[p.id][p.content.stream] = p.content.line

(* A line does that: LinesBefore says which number it has. *)
LEMMA OutputOnWire ==
  ASSUME NEW w \in Packets, NEW p \in AgentPacket(GuestResponse), NEW t, t = Append(w, p),
         NEW P \in SUBSET RequestId, GoodWire(t, P), IsLine(p), p.content.line \in Nat,
         p.id \in RequestId, p.content.stream \in CommandStream
  PROVE  CountsOne(w, p, t, P)
<1> DEFINE r == p.id
           x == p.content.stream
<1>1. OneMore(w, p, t)
  BY GrowsByOne
<1>2. ReceivesOne(w, p, t)
  BY ReceivedGrows
<1>3. BarrierOn(t) = BarrierOn(w)
  <2>1. ~Switches(t, Len(t))
    BY <1>1 DEF OneMore, Switches, IsLine
  <2> QED
    BY <2>1, BarrierStays
<1>4. LiveOn(t, P) = LiveOn(w, P)
  <2>1. \A q : /\ Received(t, q, "GenericResult") = Received(w, q, "GenericResult")
               /\ Received(t, q, "CommandFinished") = Received(w, q, "CommandFinished")
    BY <1>2 DEF ReceivesOne, IsLine
  <2> QED
    BY <1>3, <2>1 DEF LiveOn
<1>5. \A q \in RequestId, s \in CommandStream :
        LinesAt(t, q, s) = IF q = r /\ s = x THEN LinesAt(w, r, x) \union {Len(t)} ELSE LinesAt(w, q, s)
  <2>1. ASSUME NEW q \in RequestId, NEW s \in CommandStream
        PROVE  LinesAt(t, q, s) = IF q = r /\ s = x THEN LinesAt(w, r, x) \union {Len(t)} ELSE LinesAt(w, q, s)
    <3>1. \A i \in Received(w, q, "CommandOutput") : i \in DOMAIN w /\ t[i] = w[i]
      BY <1>1 DEF OneMore, Received
    <3>2. t[Len(t)] = p
      BY <1>1 DEF OneMore
    <3>3. CASE q # r
      <4>1. Received(t, q, "CommandOutput") = Received(w, q, "CommandOutput")
        BY <1>2, <3>3 DEF ReceivesOne
      <4> QED
        BY <3>1, <3>3, <4>1 DEF LinesAt
    <3>4. CASE q = r
      <4>1. Received(t, q, "CommandOutput") = Received(w, q, "CommandOutput") \union {Len(t)}
        BY <1>2, <3>4 DEF ReceivesOne, IsLine
      <4> QED
        BY <3>1, <3>2, <3>4, <4>1 DEF LinesAt
    <3> QED
      BY <3>3, <3>4
  <2> QED
    BY <2>1
<1>6. /\ Cardinality(LinesAt(w, r, x)) = p.content.line - 1
      /\ Cardinality(LinesAt(t, r, x)) = p.content.line
  <2>1. IsFiniteSet(LinesAt(w, r, x)) /\ Cardinality(LinesAt(w, r, x)) = p.content.line - 1
    BY LinesBefore
  <2>2. Len(t) \notin LinesAt(w, r, x)
    <3>1. \A i \in LinesAt(w, r, x) : i \in DOMAIN w
      BY DEF LinesAt, Received
    <3>2. Len(t) \notin DOMAIN w
      BY <1>1 DEF OneMore
    <3> QED
      BY <3>1, <3>2
  <2>3. LinesAt(t, r, x) = LinesAt(w, r, x) \union {Len(t)}
    BY <1>5
  <2>4. Cardinality(LinesAt(t, r, x)) = Cardinality(LinesAt(w, r, x)) + 1
    BY <2>1, <2>2, <2>3, FS_AddElement
  <2> QED
    BY <2>1, <2>4
<1>7. /\ LinesOn(w) = [q \in RequestId |-> [s \in CommandStream |-> Cardinality(LinesAt(w, q, s))]]
      /\ LinesOn(t) = [q \in RequestId |-> [s \in CommandStream |-> Cardinality(LinesAt(t, q, s))]]
  BY DEF LinesOn, LinesAt
<1>8. \A q \in RequestId, s \in CommandStream :
        Cardinality(LinesAt(t, q, s))
          = IF q = r /\ s = x THEN Cardinality(LinesAt(w, r, x)) + 1 ELSE Cardinality(LinesAt(w, q, s))
  BY <1>5, <1>6
<1>9. LinesOn(t) = [LinesOn(w) EXCEPT ![r][x] = @ + 1]
  <2>1. \A q \in RequestId, s \in CommandStream :
          LinesOn(t)[q][s] = IF q = r /\ s = x THEN LinesOn(w)[r][x] + 1 ELSE LinesOn(w)[q][s]
    BY <1>7, <1>8
  <2>2. LinesOn(w) \in [RequestId -> [CommandStream -> Nat]] /\ LinesOn(t) \in [RequestId -> [CommandStream -> Nat]]
    <3>1. t \in Packets
      BY <1>1 DEF OneMore
    <3> QED
      BY <3>1, LinesType
  <2>3. r \in RequestId /\ x \in CommandStream
    OBVIOUS
  <2> DEFINE f == LinesOn(w)
             g == LinesOn(t)
  <2> HIDE DEF f, g, r, x
  <2>4. g = Counted(f, r, x)
    <3>1. f \in [RequestId -> [CommandStream -> Nat]] /\ g \in [RequestId -> [CommandStream -> Nat]]
      BY <2>2 DEF f, g
    <3>2. AddsOne(RequestId, CommandStream, f, g, r, x)
      BY <2>1 DEF f, g, AddsOne
    <3> QED
      BY <2>3, <3>1, <3>2, OneMoreAt
  <2> QED
    BY <2>4 DEF f, g, Counted
<1>10. LinesOn(t)[r][x] = p.content.line
  BY <1>6, <1>7
<1> QED
  BY <1>3, <1>4, <1>9, <1>10 DEF CountsOne

-----------------------------------------------------------------------------
(* The mapping, step by step. *)

(* What was written is a beginning of what is decided. *)
LEMMA WrittenFirst ==
  ASSUME NEW w \in Packets, NEW q \in Packets, NEW h \in Packets
  PROVE  Begins(w, Behind(w, q, h))
BY DEF Begins, Behind, Packets

(* So is what the writer has taken. *)
LEMMA AnsweredFirst ==
  ASSUME IInv
  PROVE  answered \in Packets /\ Begins(answered, Stream)
<1>1. answered \in Packets /\ responses \in Packets /\ Waits \in Packets
  <2>1. orch = "send" => held \in AgentPacket(GuestResponse)
    BY DEF IInv, Types, HeldAnswer
  <2>2. Waits \in Packets
    BY <2>1 DEF Waits, Packets
  <2> QED
    BY <2>2 DEF IInv, Types, TypeOK, Packets
<1>2. Stream = Behind(answered, responses, Waits)
  BY DEF Stream, Behind, Waits
<1> QED
  BY <1>1, <1>2, WrittenFirst

(* A command that is spawned was not answered to before. *)
LEMMA SpawnedUnheard ==
  ASSUME WireInv, WireInv', [Next]_vars
  PROVE  \/ Spawned' = Spawned
         \/ answered' = answered /\ \E n : Spawned' = Spawned \union {n} /\ n \notin Ids(Stream)
<1> USE DEF WireInv, OrderInv, OutputInv, NumberedInv
<1>1. CASE CommandExec
  <2> DEFINE n == Head(requests).id
  <2>1. requests # <<>> /\ answered' = answered
    BY <1>1 DEF CommandExec, Request, histVars
  <2>2. StartedIds \subseteq StartedIds' /\ StartedIds' \subseteq StartedIds \union {n}
    BY <1>1, RequestEffect
  <2>3. n = Asked + 1 /\ Asked \in Nat
    BY <2>1, HeadIsNewest DEF Asked
  <2>4. n \notin Ids(Stream)
    BY <2>3 DEF DirectInv
  <2>5. Spawned = StartedIds /\ Spawned' = StartedIds'
    <3>1. StartedIds \subseteq Spawned /\ StartedIds' \subseteq Spawned'
      BY DEF HeardInv
    <3>2. MapInv /\ MapInv'
      OBVIOUS
    <3>3. Spawned \subseteq StartedIds /\ Spawned' \subseteq StartedIds'
      BY <3>2 DEF MapInv, Unstarted, Spawned, StartedIds
    <3> QED
      BY <3>1, <3>3
  <2> HIDE DEF n
  <2> QED
    BY <2>1, <2>2, <2>4, <2>5
<1>2. CASE ~CommandExec
  <2>1. pid' = pid
    <3>1. CASE OrchNext
      BY <1>2, <3>1 DEF OrchNext, Handle, ReInitialize, Initialize, Ping, CommandKill, PassOn, RemoveTask,
         Send, Break, taskVars, spawnVars
    <3>2. CASE PortNext
      BY <3>2 DEF PortNext, ReaderQueues, ReaderEnds, WriterTakes, WriterEnds, taskVars, spawnVars
    <3>3. ASSUME NEW r \in RequestId, CommandNext(r) PROVE pid' = pid
      BY <3>3 DEF CommandNext, TaskNext, PumpNext, PumpStep, PumpReads, PumpEnds, PumpSends, SuperNext, Reap,
         ReportFinished, ReportTaskFinished, Report, KillNext, KernelNext, KillTerm, KillKill,
         LeaderExits, KidExits, WriteLine, spawnVars
    <3>4. CASE UNCHANGED vars
      BY <3>4 DEF vars, taskVars, spawnVars
    <3> QED
      BY <3>1, <3>2, <3>3, <3>4 DEF Next
  <2> QED
    BY <2>1 DEF Spawned
<1> QED
  BY <1>1, <1>2

(* A step that writes nothing leaves what the host knows to be live. *)
LEMMA LiveStays ==
  ASSUME WireInv, WireInv', [Next]_vars, answered' = answered
  PROVE  LiveOn(answered, Spawned') = LiveOn(answered, Spawned)
<1>1. CASE Spawned' = Spawned
  BY <1>1
<1>2. ASSUME NEW n, Spawned' = Spawned \union {n}, n \notin Ids(Stream)
      PROVE  LiveOn(answered, Spawned') = LiveOn(answered, Spawned)
  <2>1. answered \in Packets /\ Begins(answered, Stream) /\ Stream \in Packets
    BY AnsweredFirst, StreamType DEF WireInv, OrderInv, NumberedInv
  <2>2. Received(answered, n, "GenericResult") = {}
    <3>1. ASSUME NEW i \in Received(answered, n, "GenericResult") PROVE FALSE
      <4>1. i \in DOMAIN answered /\ answered[i].id = n /\ answered[i].content.type = "GenericResult"
        BY DEF Received
      <4>2. i \in DOMAIN Stream /\ Stream[i] = answered[i]
        BY <2>1, <4>1 DEF Begins, Packets
      <4> QED
        BY <1>2, <4>1, <4>2 DEF Ids, Direct
    <3> QED
      BY <3>1
  <2> QED
    BY <1>2, <2>2 DEF LiveOn
<1> QED
  BY <1>1, <1>2, SpawnedUnheard

(* The invariant of the refinement. *)
RefInv == WireInv /\ Latest(answered)

(* Each answer that is written is a step of the protocol. *)
LEMMA AnswerIsStep ==
  ASSUME NEW w \in Packets, NEW p \in AgentPacket(GuestResponse), NEW t, t = Append(w, p),
         NEW P \in SUBSET RequestId, GoodWire(t, P), Latest(w),
         answered = w, answered' = t, Spawned = P, Spawned' = P
  PROVE  Protocol!Next
<1>1. /\ BarrierOn(answered) = BarrierOn(w) /\ BarrierOn(answered)' = BarrierOn(t)
      /\ LinesOn(answered) = LinesOn(w) /\ LinesOn(answered)' = LinesOn(t)
      /\ LiveOn(answered, Spawned) = LiveOn(w, P) /\ LiveOn(answered, Spawned)' = LiveOn(t, P)
  BY DEF BarrierOn, AnnouncedBy, Switches, LinesOn, LiveOn, Received
<1>2. /\ p.id \in RequestId /\ p.content \in GuestResponse
      /\ p = [id |-> p.id, content |-> p.content]
  BY DEF AgentPacket
<1>3. ASSUME IsDirect(p) PROVE Protocol!InTurn(p.id)
  <2>1. OneMore(w, p, t)
    BY GrowsByOne
  <2>2. ASSUME NEW i \in DOMAIN w, w[i].content.type \in {"Initialized", "GenericResult"}
        PROVE  w[i].id < p.id
    <3>1. i \in Direct(t) /\ Len(t) \in Direct(t) /\ i < Len(t) /\ t[i] = w[i] /\ t[Len(t)] = p
      BY <1>3, <2>1, <2>2 DEF OneMore, Direct, IsDirect
    <3> QED
      BY <3>1 DEF GoodWire, InOrder
  <2> QED
    BY <2>2 DEF Protocol!InTurn
<1>4. CASE IsAnnouncement(p)
  <2>1. PICK s \in Session : p.content = [type |-> "Initialized", session |-> s]
    BY <1>2, <1>4 DEF GuestResponse, IsAnnouncement
  <2>2. Protocol!InTurn(p.id)
    BY <1>3, <1>4 DEF IsDirect, IsAnnouncement
  <2>3. Protocol!Receive(p.id, [type |-> "Initialized", session |-> s])
    BY <1>2, <2>1 DEF Protocol!Receive
  <2>4. /\ LinesOn(t) = LinesOn(w)
        /\ \/ BarrierOn(t) = p.id /\ LiveOn(t, P) = {}
           \/ /\ BarrierOn(w) # 0
              /\ \E i \in DOMAIN w : w[i].id = BarrierOn(w) /\ w[i].content.session = s
              /\ BarrierOn(t) = BarrierOn(w) /\ LiveOn(t, P) = LiveOn(w, P)
    <3>1. Announces(w, p, t, P)
      BY <1>4, AnnounceOnWire
    <3> QED
      BY <2>1, <3>1 DEF Announces
  <2>5. Protocol!Announce(p.id, s)
    BY <1>1, <2>2, <2>3, <2>4 DEF Protocol!Announce
  <2> QED
    BY <1>2, <2>5 DEF Protocol!Next
<1>5. CASE IsResult(p)
  <2>1. PICK ok \in BOOLEAN : p.content = [type |-> "GenericResult", success |-> ok]
    BY <1>2, <1>5 DEF GuestResponse, IsResult
  <2>2. Protocol!InTurn(p.id)
    BY <1>3, <1>5 DEF IsDirect, IsResult
  <2>3. Protocol!Receive(p.id, [type |-> "GenericResult", success |-> ok])
    BY <1>2, <2>1 DEF Protocol!Receive
  <2>4. /\ BarrierOn(t) = BarrierOn(w) /\ LinesOn(t) = LinesOn(w)
        /\ \/ LiveOn(t, P) = LiveOn(w, P)
           \/ LiveOn(t, P) = LiveOn(w, P) \union {p.id} /\ p.content # GenericResult(FALSE)
    <3>1. AnswersTo(w, p, t, P)
      BY <1>5, ResultOnWire
    <3> QED
      BY <3>1 DEF AnswersTo
  <2>5. LiveOn(t, P) \in {LiveOn(w, P), IF ok THEN LiveOn(w, P) \union {p.id} ELSE LiveOn(w, P)}
    BY <2>1, <2>4 DEF GenericResult
  <2>6. Protocol!Result(p.id, ok)
    BY <1>1, <2>2, <2>3, <2>4, <2>5 DEF Protocol!Result
  <2> QED
    BY <1>2, <2>6 DEF Protocol!Next
<1>6. CASE IsLine(p)
  <2>1. PICK c \in CommandId, s \in CommandStream, n \in Nat :
          p.content = [type |-> "CommandOutput", command |-> c, stream |-> s, line |-> n]
    BY <1>2, <1>6 DEF GuestResponse, IsLine
  <2>2. p.id \in LiveOn(w, P)
    BY <1>6, CommandIsLive DEF IsDirect, IsLine
  <2>3. /\ BarrierOn(t) = BarrierOn(w) /\ LiveOn(t, P) = LiveOn(w, P)
        /\ LinesOn(t) = [LinesOn(w) EXCEPT ![p.id][s] = @ + 1]
        /\ LinesOn(t)[p.id][s] = n
    <3>1. p.content.line \in Nat /\ p.content.stream \in CommandStream
      BY <2>1
    <3>2. CountsOne(w, p, t, P)
      BY <1>2, <1>6, <3>1, OutputOnWire
    <3> QED
      BY <2>1, <3>2 DEF CountsOne
  <2>4. answered' = Append(answered, [id |-> p.id, content |-> [type |-> "CommandOutput", command |-> c,
                                                               stream |-> s, line |-> LinesOn(t)[p.id][s]]])
    BY <1>2, <2>1, <2>3
  <2>5. Protocol!Output(p.id, c, s)
    BY <1>1, <2>2, <2>3, <2>4 DEF Protocol!Output, Protocol!Receive
  <2> QED
    BY <1>2, <2>5 DEF Protocol!Next
<1>7. CASE IsEnd(p)
  <2>1. PICK c \in CommandId : p.content = [type |-> "CommandFinished", command |-> c]
    BY <1>2, <1>7 DEF GuestResponse, IsEnd
  <2>2. p.id \in LiveOn(w, P)
    BY <1>7, CommandIsLive DEF IsDirect, IsEnd
  <2>3. Protocol!Receive(p.id, [type |-> "CommandFinished", command |-> c])
    BY <1>2, <2>1 DEF Protocol!Receive
  <2>4. /\ BarrierOn(t) = BarrierOn(w) /\ LinesOn(t) = LinesOn(w)
        /\ LiveOn(t, P) = LiveOn(w, P) \ {p.id}
    <3>1. EndsOne(w, p, t, P)
      BY <1>7, EndOnWire
    <3> QED
      BY <3>1 DEF EndsOne
  <2>5. Protocol!Finish(p.id, c)
    BY <1>1, <2>2, <2>3, <2>4 DEF Protocol!Finish
  <2> QED
    BY <1>2, <2>5 DEF Protocol!Next
<1> QED
  BY <1>2, <1>4, <1>5, <1>6, <1>7 DEF GuestResponse, IsAnnouncement, IsResult, IsLine, IsEnd

(* The writer's step, in the terms of the wire. *)
LEMMA WriterOnWire ==
  ASSUME WireInv, WireInv', WriterTakes, NEW w, w = answered, NEW t, t = answered'
  PROVE  /\ w \in Packets /\ Head(responses) \in AgentPacket(GuestResponse)
         /\ t = Append(w, Head(responses)) /\ GoodWire(t, Spawned) /\ Spawned' = Spawned
<1> USE DEF WireInv, OrderInv, OutputInv, NumberedInv
<1>1. w \in Packets /\ responses \in Packets /\ responses # <<>>
  BY DEF IInv, Types, TypeOK, Packets, WriterTakes
<1>2. Head(responses) \in AgentPacket(GuestResponse)
  BY <1>1 DEF Packets
<1>3. t = Append(w, Head(responses)) /\ Spawned' = Spawned
  BY DEF WriterTakes, taskVars, spawnVars, Spawned
<1>4. Stream' = Stream
  BY StreamKept
<1>5. t \in Packets
  BY <1>1, <1>2, <1>3 DEF Packets
<1>6. Begins(t, Stream)
  <2>1. responses' \in Packets
    BY <1>1 DEF Packets, WriterTakes
  <2>2. Waits \in Packets /\ Waits' = Waits
    <3>1. orch = "send" => held \in AgentPacket(GuestResponse)
      BY DEF IInv, Types, HeldAnswer
    <3> QED
      BY <3>1 DEF Waits, Packets, WriterTakes, orchVars
  <2>3. Stream' = Behind(t, responses', Waits')
    BY DEF Stream, Behind, Waits
  <2> DEFINE q == responses'
  <2> HIDE DEF q
  <2>4. Begins(t, Behind(t, q, Waits))
    BY <1>5, <2>1, <2>2, WrittenFirst DEF q
  <2> QED
    BY <1>4, <2>2, <2>3, <2>4 DEF q
<1>7. GoodWire(t, Spawned)
  BY <1>5, <1>6, WireIsGood
<1> QED
  BY <1>1, <1>2, <1>3, <1>7

(* The refinement, with what it takes of the state. *)
LEMMA RefInit == Init => RefInv /\ Protocol!Init
<1> SUFFICES ASSUME Init PROVE Latest(answered) /\ Protocol!Init
  BY WireInit DEF RefInv
<1>1. answered = <<>> /\ DOMAIN answered = {}
  BY DEF Init
<1>2. Latest(answered)
  BY <1>1 DEF Latest
<1>3. BarrierOn(answered) = 0
  BY <1>1 DEF BarrierOn, AnnouncedBy
<1>4. LiveOn(answered, Spawned) = {}
  BY <1>1 DEF LiveOn, Received
<1>5. LinesOn(answered) = [r \in RequestId |-> [s \in CommandStream |-> 0]]
  <2>1. ASSUME NEW r \in RequestId, NEW s \in CommandStream
        PROVE  {i \in Received(answered, r, "CommandOutput") : answered[i].content.stream = s} = {}
    BY <1>1 DEF Received
  <2>2. Cardinality({}) = 0
    BY FS_EmptySet
  <2> QED
    BY <2>1, <2>2 DEF LinesOn
<1> QED
  BY <1>1, <1>2, <1>3, <1>4, <1>5 DEF Protocol!Init

(* The writer takes a step of the protocol, and nobody else takes any. *)
LEMMA RefStep == RefInv /\ [Next]_vars => RefInv' /\ [Protocol!Next]_(Protocol!vars)
<1> SUFFICES ASSUME RefInv, [Next]_vars PROVE RefInv' /\ [Protocol!Next]_(Protocol!vars)
  OBVIOUS
<1>1. WireInv /\ WireInv' /\ Latest(answered)
  BY WireStep DEF RefInv
<1>2. CASE WriterTakes
  <2> DEFINE w == answered
             t == answered'
             p == Head(responses)
             P == Spawned
  <2>1. /\ w \in Packets /\ p \in AgentPacket(GuestResponse)
        /\ t = Append(w, p) /\ GoodWire(t, P) /\ Spawned' = P
    BY <1>1, <1>2, WriterOnWire
  <2>2. P \in SUBSET RequestId
    BY DEF Spawned
  <2>3. answered = w /\ answered' = t /\ Spawned = P /\ Latest(w)
    BY <1>1
  <2> HIDE DEF w, t, p, P
  <2>4. Latest(t)
    BY <2>1, <2>3, LatestGrows
  <2>5. Latest(answered)'
    BY <2>3, <2>4 DEF Latest, Switches
  <2>6. Protocol!Next
    BY <2>1, <2>2, <2>3, AnswerIsStep
  <2> QED
    BY <1>1, <2>5, <2>6 DEF RefInv
<1>3. CASE answered' = answered
  <2>1. Latest(answered)'
    BY <1>1, <1>3 DEF Latest, Switches
  <2>2. LiveOn(answered, Spawned') = LiveOn(answered, Spawned)
    BY <1>1, <1>3, LiveStays
  <2>3. /\ BarrierOn(answered)' = BarrierOn(answered)
        /\ LinesOn(answered)' = LinesOn(answered)
        /\ LiveOn(answered, Spawned)' = LiveOn(answered, Spawned')
    BY <1>3 DEF BarrierOn, AnnouncedBy, Switches, LinesOn, LiveOn, Received
  <2>4. UNCHANGED Protocol!vars
    BY <1>3, <2>2, <2>3 DEF Protocol!vars
  <2> QED
    BY <1>1, <2>1, <2>4 DEF RefInv
<1>4. WriterTakes \/ answered' = answered
  <2>1. CASE OrchNext
    BY <2>1 DEF OrchNext, Handle, ReInitialize, Initialize, Ping, CommandExec, CommandKill, Request, PassOn,
       RemoveTask, Send, Break, histVars
  <2>2. CASE PortNext
    BY <2>2 DEF PortNext, ReaderQueues, ReaderEnds, WriterEnds, histVars
  <2>3. ASSUME NEW r \in RequestId, CommandNext(r) PROVE answered' = answered
    BY <2>3 DEF CommandNext, restVars, histVars
  <2>4. CASE UNCHANGED vars
    BY <2>4 DEF vars, histVars
  <2> QED
    BY <2>1, <2>2, <2>3, <2>4 DEF Next
<1> QED
  BY <1>2, <1>3, <1>4

(* The host of one opened port receives what the protocol promises.  An    *)
(* answer that the writer takes is a step of the protocol, and every other *)
(* step of the agent leaves what the host has seen as it is.               *)
THEOREM ImplementsProtocolHolds == Spec => ImplementsProtocol
BY RefInit, RefStep, PTL DEF Spec, ImplementsProtocol, Protocol!Spec
=============================================================================
