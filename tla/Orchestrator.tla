---------------------------- MODULE Orchestrator ----------------------------
(***************************************************************************)
(* The guest agent's orchestrator for the time it serves one opened port   *)
(* (mcp-qemu-agent/src/orchestrator/mod.rs): one loop that takes host      *)
(* requests and the messages of its own commands, and answers into the     *)
(* response channel.  The port reader and the port writer are reduced to   *)
(* what they do with the two channels; GuestAgent.tla models them in full. *)
(*                                                                         *)
(* Requests are numbered in the order the host sends them, as             *)
(* next_request_id does for one connection; a number is never reused here, *)
(* so that an answer to an old request can be told from one to a new.      *)
(***************************************************************************)
EXTENDS AgentTask, FiniteSets

CONSTANTS Session,     \* session numbers a host may announce
          NO_SESSION,  \* session: None
          NO_TASK,     \* a command id without a task
          NO_PACKET    \* no answer waits for room in the response channel

ASSUME OrchestratorAssumption ==
  /\ NO_SESSION \notin Session
  /\ NO_TASK \notin RequestId

VARIABLES
  requests,      \* request_rx: requests the reader has queued
  requestsOpen,  \* the reader still holds request_tx
  responses,     \* response_rx: answers the writer has not taken
  responsesOpen, \* the writer still holds response_rx
  session,       \* Orchestrator::session
  tasks,         \* Orchestrator::tasks, as the request that spawned each task
  orch,          \* the run loop: select, send (waiting in send_response), done
  held,          \* the answer send_response waits with
  sent,          \* how many requests were queued so far
  answered       \* history: the answers the writer took, oldest first

ioVars   == <<requests, requestsOpen, responses, responsesOpen>>
orchVars == <<session, tasks, orch, held>>
histVars == <<sent, answered>>
restVars == <<ioVars, orchVars, histVars>>
vars     == <<messages, channel, taskVars, ioVars, orchVars, histVars>>

-----------------------------------------------------------------------------
(* mcp-qemu-agent-proto: the requests and the answers. *)

HostRequest ==
  [type : {"Initialize"}, session : Session]
    \union [type : {"Ping"}]
    \union [type : {"CommandExec", "CommandKill"}, command : CommandId]

GuestResponse ==
  [type : {"Initialized"}, session : Session]
    \union [type : {"GenericResult"}, success : BOOLEAN]
    \union [type : {"CommandOutput"}, command : CommandId,
            stream : CommandStream, line : Nat]
    \union [type : {"CommandFinished"}, command : CommandId]

AgentPacket(Content) == [id : RequestId, content : Content]

OrchestratorMessage ==
  [type : {"GuestResponse"}, response : AgentPacket(GuestResponse)]
    \union [type : {"TaskFinished"}, command : CommandId]

Initialized(s) == [type |-> "Initialized", session |-> s]
GenericResult(ok) == [type |-> "GenericResult", success |-> ok]

-----------------------------------------------------------------------------
Tracked == {tasks[c] : c \in CommandId} \ {NO_TASK}

(* send_response up to the await; Send and SendBreaks are what follows it. *)
Answer(id, content) ==
  /\ held' = [id |-> id, content |-> content]
  /\ orch' = "send"

(* The message channel is replaced or dropped: what is queued is lost, and *)
(* the sends of every task spawned so far fail from now on.                *)
DropMessages ==
  /\ messages' = <<>>
  /\ channel' = channel + 1

(* Mutation of DropTasks: a Task without its Drop. *)
ForgetTasks ==
  /\ tasks' = [c \in CommandId |-> NO_TASK]
  /\ UNCHANGED terms

(* tasks.clear(), or the drop of the map: each Task is dropped. *)
DropTasks ==
  /\ tasks' = [c \in CommandId |-> NO_TASK]
  /\ KillAll(Tracked)

Init ==
  /\ TaskInit
  /\ requests = <<>> /\ requestsOpen = TRUE
  /\ responses = <<>> /\ responsesOpen = TRUE
  /\ session = NO_SESSION
  /\ tasks = [c \in CommandId |-> NO_TASK]
  /\ orch = "select"
  /\ held = NO_PACKET
  /\ sent = 0
  /\ answered = <<>>

-----------------------------------------------------------------------------
(* run_loop_iteration takes a request.  The handlers below are guarded by  *)
(* it and run, without a pause, up to the await in send_response.          *)
Request(type) ==
  /\ orch = "select"
  /\ requests # <<>>
  /\ Head(requests).content.type = type
  /\ requests' = Tail(requests)
  /\ UNCHANGED <<requestsOpen, responses, responsesOpen, histVars>>

(* handle_initialize of the session that is already being served. *)
ReInitialize ==
  /\ Request("Initialize")
  /\ session = Head(requests).content.session
  /\ Answer(Head(requests).id, Initialized(session))
  /\ UNCHANGED <<messages, channel, taskVars, session, tasks>>

(* Mutation of Initialize: the old message channel stays in use. *)
InitializeKeepsChannel ==
  /\ Request("Initialize")
  /\ session # Head(requests).content.session
  /\ session' = Head(requests).content.session
  /\ DropTasks
  /\ Answer(Head(requests).id, Initialized(session'))
  /\ UNCHANGED <<messages, channel, spawnVars, processVars, outputVars, superVars, graces>>

(* Mutation of Initialize: the answer is built from the session it replaces. *)
InitializeAnswersOld ==
  /\ Request("Initialize")
  /\ session # Head(requests).content.session
  /\ session' = Head(requests).content.session
  /\ DropTasks
  /\ DropMessages
  /\ Answer(Head(requests).id, Initialized(session))
  /\ UNCHANGED <<spawnVars, processVars, outputVars, superVars, graces>>

(* handle_initialize of another session: whatever the old one left goes. *)
Initialize ==
  /\ Request("Initialize")
  /\ session # Head(requests).content.session
  /\ session' = Head(requests).content.session
  /\ DropTasks
  /\ DropMessages
  /\ Answer(Head(requests).id, Initialized(session'))
  /\ UNCHANGED <<spawnVars, processVars, outputVars, superVars, graces>>

Ping ==
  /\ Request("Ping")
  /\ Answer(Head(requests).id, GenericResult(TRUE))
  /\ UNCHANGED <<messages, channel, taskVars, session, tasks>>

(* Mutation of CommandExec: a failed spawn is logged and not answered. *)
CommandExecSilent ==
  /\ Request("CommandExec")
  /\ LET r == Head(requests).id
         c == Head(requests).content.command
     IN \/ /\ tasks[c] = NO_TASK
           /\ Spawn(r, c)
           /\ tasks' = [tasks EXCEPT ![c] = r]
           /\ Answer(r, GenericResult(TRUE))
        \/ UNCHANGED <<orch, held, tasks, spawnVars, processVars, outputVars, superVars>>
  /\ UNCHANGED <<messages, channel, killVars, session>>

(* Mutation of CommandExec: an id in use is not refused. *)
CommandExecReplaces ==
  /\ Request("CommandExec")
  /\ LET r == Head(requests).id
         c == Head(requests).content.command
     IN \/ /\ Spawn(r, c)
           /\ tasks' = [tasks EXCEPT ![c] = r]
           /\ Answer(r, GenericResult(TRUE))
        \/ /\ Answer(r, GenericResult(FALSE))
           /\ UNCHANGED <<tasks, spawnVars, processVars, outputVars, superVars>>
  /\ UNCHANGED <<messages, channel, killVars, session>>

(* handle_command_exec: an id in use is refused, a spawn that fails is     *)
(* answered with its error, and the task is entered before the answer.     *)
CommandExec ==
  /\ Request("CommandExec")
  /\ LET r == Head(requests).id
         c == Head(requests).content.command
     IN \/ /\ tasks[c] = NO_TASK
           /\ Spawn(r, c)
           /\ tasks' = [tasks EXCEPT ![c] = r]
           /\ Answer(r, GenericResult(TRUE))
        \/ /\ Answer(r, GenericResult(FALSE))
           /\ UNCHANGED <<tasks, spawnVars, processVars, outputVars, superVars>>
  /\ UNCHANGED <<messages, channel, killVars, session>>

(* handle_command_kill *)
CommandKill ==
  /\ Request("CommandKill")
  /\ LET c == Head(requests).content.command
     IN /\ KillAll(IF tasks[c] = NO_TASK THEN {} ELSE {tasks[c]})
        /\ Answer(Head(requests).id, GenericResult(tasks[c] # NO_TASK))
  /\ UNCHANGED <<messages, channel, spawnVars, processVars, outputVars,
                 superVars, graces, session, tasks>>

-----------------------------------------------------------------------------
(* handle_message: an answer of a task is passed on ... *)
PassOn ==
  /\ orch = "select"
  /\ messages # <<>>
  /\ Head(messages).type = "GuestResponse"
  /\ messages' = Tail(messages)
  /\ Answer(Head(messages).response.id, Head(messages).response.content)
  /\ UNCHANGED <<channel, taskVars, ioVars, session, tasks, histVars>>

(* ... and a finished task leaves the map; its drop starts a kill task. *)
RemoveTask ==
  /\ orch = "select"
  /\ messages # <<>>
  /\ Head(messages).type = "TaskFinished"
  /\ messages' = Tail(messages)
  /\ LET c == Head(messages).command
     IN /\ tasks' = [tasks EXCEPT ![c] = NO_TASK]
        /\ KillAll({tasks[c]} \ {NO_TASK})
  /\ UNCHANGED <<channel, spawnVars, processVars, outputVars, superVars,
                 graces, ioVars, session, orch, held, histVars>>

(* send_response past the await. *)
Send ==
  /\ orch = "send"
  /\ responsesOpen
  /\ Len(responses) < CHANNEL_CAPACITY
  /\ responses' = Append(responses, held)
  /\ held' = NO_PACKET
  /\ orch' = "select"
  /\ UNCHANGED <<messages, channel, taskVars, requests, requestsOpen,
                 responsesOpen, session, tasks, histVars>>

(* Mutation of Break: the tasks end with the orchestrator, but their        *)
(* messages stay for the next one.                                         *)
BreakKeepsMessages ==
  /\ \/ orch = "send" /\ ~responsesOpen
     \/ orch = "select" /\ ~requestsOpen /\ requests = <<>>
  /\ orch' = "done"
  /\ held' = NO_PACKET
  /\ requests' = <<>>
  /\ session' = NO_SESSION
  /\ DropTasks
  /\ UNCHANGED <<messages, channel, spawnVars, processVars, outputVars, superVars,
                 graces, requestsOpen, responses, responsesOpen, histVars>>

(* Mutation of Break: a closed request channel is not drained first. *)
BreakUndrained ==
  /\ \/ orch = "send" /\ ~responsesOpen
     \/ orch = "select" /\ ~requestsOpen
  /\ orch' = "done"
  /\ held' = NO_PACKET
  /\ requests' = <<>>
  /\ session' = NO_SESSION
  /\ DropTasks
  /\ DropMessages
  /\ UNCHANGED <<spawnVars, processVars, outputVars, superVars, graces,
                 requestsOpen, responses, responsesOpen, histVars>>

(* ControlFlow::Break: no writer takes answers any more, or no reader will *)
(* bring a request again.  The orchestrator is dropped with all it holds.  *)
Break ==
  /\ \/ orch = "send" /\ ~responsesOpen
     \/ orch = "select" /\ ~requestsOpen /\ requests = <<>>
  /\ orch' = "done"
  /\ held' = NO_PACKET
  /\ requests' = <<>>
  /\ session' = NO_SESSION
  /\ DropTasks
  /\ DropMessages
  /\ UNCHANGED <<spawnVars, processVars, outputVars, superVars, graces,
                 requestsOpen, responses, responsesOpen, histVars>>

-----------------------------------------------------------------------------
(* The ends of the channels: port_reader_worker and port_writer_worker. *)

ReaderQueues ==
  /\ requestsOpen /\ orch # "done"
  /\ Len(requests) < CHANNEL_CAPACITY
  /\ sent + 1 \in RequestId
  /\ sent' = sent + 1
  /\ \E content \in HostRequest :
       requests' = Append(requests, [id |-> sent', content |-> content])
  /\ UNCHANGED <<messages, channel, taskVars, requestsOpen, responses,
                 responsesOpen, orchVars, answered>>

ReaderEnds ==
  /\ requestsOpen
  /\ requestsOpen' = FALSE
  /\ UNCHANGED <<messages, channel, taskVars, requests, responses,
                 responsesOpen, orchVars, histVars>>

WriterTakes ==
  /\ responsesOpen
  /\ responses # <<>>
  /\ responses' = Tail(responses)
  /\ answered' = Append(answered, Head(responses))
  /\ UNCHANGED <<messages, channel, taskVars, requests, requestsOpen,
                 responsesOpen, orchVars, sent>>

(* A failed write: the answers still queued are lost with the channel. *)
WriterEnds ==
  /\ responsesOpen
  /\ responsesOpen' = FALSE
  /\ responses' = <<>>
  /\ UNCHANGED <<messages, channel, taskVars, requests, requestsOpen,
                 orchVars, histVars>>

-----------------------------------------------------------------------------
Handle == ReInitialize \/ Initialize \/ Ping \/ CommandExec \/ CommandKill
            \/ PassOn \/ RemoveTask
OrchNext == Handle \/ Send \/ Break
PortNext == ReaderQueues \/ ReaderEnds \/ WriterTakes \/ WriterEnds
CommandNext(r) == TaskNext(r) /\ UNCHANGED restVars

Next == OrchNext \/ PortNext \/ \E r \in RequestId : CommandNext(r)

Spec == Init /\ [][Next]_vars

(* What the code's scheduling gives: the runtime polls every task that can *)
(* go on, select! picks among its ready branches at random, so that the    *)
(* message branch is not passed over forever, and the host keeps reading.  *)
Fairness ==
  /\ WF_vars(OrchNext)
  /\ SF_vars(PassOn \/ RemoveTask)
  /\ WF_vars(WriterTakes)
  /\ \A r \in RequestId :
       /\ \A s \in CommandStream : WF_vars(PumpStep(r, s) /\ UNCHANGED restVars)
       /\ WF_vars(SuperNext(r) /\ UNCHANGED restVars)
       /\ WF_vars(KillNext(r) /\ UNCHANGED restVars)

FairSpec == Spec /\ Fairness

-----------------------------------------------------------------------------
(* Every variable has its type. *)
TypeOK ==
  /\ messages \in Seq(OrchestratorMessage) /\ channel \in Nat
  /\ command \in [RequestId -> CommandId \union {NO_COMMAND}]
  /\ via \in [RequestId -> Nat]
  /\ pid \in [RequestId -> Pid \union {NO_GROUP}]
  /\ groupId \in [RequestId -> Pid \union {NO_GROUP}]
  /\ leader \in [RequestId -> {"none", "running", "zombie", "reaped"}]
  /\ kid \in [RequestId -> {"gone", "piped", "quiet"}]
  /\ written \in [RequestId -> [CommandStream -> Nat]]
  /\ taken \in [RequestId -> [CommandStream -> Nat]]
  /\ pump \in [RequestId -> [CommandStream -> {"none", "read", "send", "done"}]]
  /\ supervisor \in [RequestId -> {"none", "drain", "report", "release", "done"}]
  /\ terms \in [RequestId -> Nat] /\ graces \in [RequestId -> Nat]
  /\ requests \in Seq(AgentPacket(HostRequest)) /\ requestsOpen \in BOOLEAN
  /\ responses \in Seq(AgentPacket(GuestResponse)) /\ responsesOpen \in BOOLEAN
  /\ session \in Session \union {NO_SESSION}
  /\ tasks \in [CommandId -> RequestId \union {NO_TASK}]
  /\ orch \in {"select", "send", "done"}
  /\ held \in AgentPacket(GuestResponse) \union {NO_PACKET}
  /\ sent \in Nat
  /\ answered \in Seq(AgentPacket(GuestResponse))

(* What the host gets of this orchestrator, in order, as far as decided. *)
Stream ==
  answered \o responses
    \o (IF orch = "send" /\ responsesOpen THEN <<held>> ELSE <<>>)

(* The positions in Stream of an answer to r with a content of some type. *)
At(r, type) == {i \in DOMAIN Stream :
                 Stream[i].id = r /\ Stream[i].content.type = type}

(* Position i of the answers s announces another session than before it. *)
Switches(s, i) ==
  /\ s[i].content.type = "Initialized"
  /\ ~\E k \in 1..(i - 1) :
       /\ s[k].content = s[i].content
       /\ \A m \in k..i : s[m].content.type = "Initialized"
                            => s[m].content = s[i].content

NothingOlderAfterSwitch(s) ==
  \A i, j \in DOMAIN s : Switches(s, i) /\ i < j => s[j].id > s[i].id

(* Once a new session is announced, nothing more is heard of a request of  *)
(* an earlier one, neither its answer nor the output or the end of its     *)
(* command: handle_initialize drops the tasks and the channel they use.    *)
FreshSessionBarrier == NothingOlderAfterSwitch(Stream)

(* CommandFinished comes only after every line the command and its         *)
(* descendants wrote ("the output is drained before the child is reaped"): *)
(* by then the lines 1 to the last of each stream were sent, in order.     *)
OutputComplete ==
  \A r \in RequestId : At(r, "CommandFinished") # {} =>
    \A s \in CommandStream :
      LET lines == {i \in At(r, "CommandOutput") : Stream[i].content.stream = s}
      IN /\ {Stream[i].content.line : i \in lines} = 1..written[r][s]
         /\ \A i, j \in lines : i < j => Stream[i].content.line < Stream[j].content.line

(* The positions of the answers to requests themselves. *)
Direct(s) == {i \in DOMAIN s : s[i].content.type \in {"Initialized", "GenericResult"}}

(* Every request that was taken is answered, once, in the order asked: the *)
(* answers to requests 1, 2, ... follow each other without a gap.          *)
RequestsAnsweredInOrder ==
  LET ids == {Stream[i].id : i \in Direct(Stream)}
  IN /\ \A i, j \in Direct(Stream) : i < j => Stream[i].id < Stream[j].id
     /\ \A n \in ids : 1..n \subseteq ids
     /\ responsesOpen /\ orch # "done" => ids = 1..(sent - Len(requests))

(* No command outlives the agent's knowledge of it: a child that runs is   *)
(* in the task map, or a kill task is still going to signal its group.     *)
NoOrphans ==
  \A r \in RequestId : leader[r] = "running" =>
    r \in Tracked \/ terms[r] > 0 \/ graces[r] > 0

(* A group id that is not cleared names the task's own group: a kill never *)
(* reaches a process the system has since given the pid to.                *)
SignalsOwnGroup ==
  \A r, q \in RequestId :
    groupId[r] # NO_GROUP /\ pid[q] = groupId[r] /\ q # r =>
      leader[q] \notin {"running", "zombie"} /\ kid[q] \notin Living

(* The task map has exactly the commands not yet released: a task that is  *)
(* over has its TaskFinished in the channel, so its id cannot stay taken,  *)
(* and a queued TaskFinished finds the very task that sent it.             *)
TaskMapExact ==
  \A c \in CommandId :
    LET over == {i \in DOMAIN messages : messages[i] = TaskFinishedMessage(c)}
    IN /\ \A i, j \in over : i = j
       /\ over # {} <=> tasks[c] # NO_TASK /\ supervisor[tasks[c]] = "done"

-----------------------------------------------------------------------------
(* A child that is being killed, or whose task was dropped with its        *)
(* session or its port, stops running, even if it ignores SIGTERM.         *)
AbandonedCommandEnds ==
  \A r \in RequestId :
    (leader[r] = "running" /\ (terms[r] > 0 \/ SendFails(r))) ~> (leader[r] # "running")

(* "abandoned, killing its process group" (task.rs:94): once a task is     *)
(* dropped, no process of its group is left in the end.  The code does not *)
(* provide this: it clears the group id when the child is reaped, so a     *)
(* descendant that survived SIGTERM without the pipes never gets SIGKILL.  *)
AbandonedGroupEnds ==
  \A r \in RequestId :
    (leader[r] = "running" /\ (terms[r] > 0 \/ SendFails(r))) ~> (kid[r] = "gone")

(* A command that ended, with nobody left to write its output, is reported *)
(* to the host, unless its session was replaced or the port was lost; and  *)
(* once it was reported its id becomes free again.                         *)
EndIsReported ==
  \A r \in RequestId :
    /\ (supervisor[r] = "drain" /\ leader[r] = "zombie" /\ kid[r] # "piped")
         ~> (At(r, "CommandFinished") # {} \/ SendFails(r))
    /\ (supervisor[r] = "done") ~> (r \notin Tracked)
=============================================================================
