----------------------------- MODULE AgentTask -----------------------------
(***************************************************************************)
(* The commands of the guest agent: what Task::spawn leaves running for    *)
(* one CommandExec request (mcp-qemu-agent/src/orchestrator/task.rs).      *)
(*                                                                         *)
(* A task is named by the id of the request that spawned it.  It consists  *)
(* of the child process (the leader of a process group of its own, with at *)
(* most one descendant in the group), one pump per output stream, the      *)
(* supervisor that reaps the child, and the kill tasks that kill() spawns. *)
(* The agent runs on a current_thread runtime, so what a tokio task does   *)
(* between two awaits is one step.                                         *)
(***************************************************************************)
EXTENDS Naturals, Sequences

CONSTANTS RequestId,        \* ids of host requests, natural numbers from 1
          CommandId,        \* command ids the host may use
          CommandStream,    \* the output streams of a command
          Pid,              \* process ids the guest system hands out
          NO_GROUP,         \* the cleared process_group_id
          NO_COMMAND,       \* the command of a request that spawned nothing
          KidKinds,         \* what descendants a command may leave
          CHANNEL_CAPACITY, \* capacity of each mpsc channel of the agent
          MaxLines          \* bound: lines each stream of a command carries

ASSUME TaskAssumption ==
  /\ RequestId \subseteq Nat \ {0}
  /\ NO_GROUP \notin Pid
  /\ KidKinds \subseteq {"gone", "piped", "quiet"}
  /\ CHANNEL_CAPACITY \in Nat \ {0}
  /\ MaxLines \in [CommandStream -> Nat]

VARIABLES
  messages,   \* the orchestrator's message channel, oldest first
  channel,    \* which incarnation of that channel has a receiver
  command,    \* command[r]: the command id the task was spawned for
  via,        \* via[r]: the incarnation the task's senders belong to
  pid,        \* pid[r]: the child's pid, which is its group id as well
  leader,     \* leader[r]: the child, as the guest kernel sees it
  kid,        \* kid[r]: a descendant that holds the pipes, or one that does not
  groupId,    \* groupId[r]: Task::process_group_id
  written,    \* written[r][s]: lines put into the pipe of stream s
  taken,      \* taken[r][s]: lines the pump has read from it
  pump,       \* pump[r][s]: the dump_stream task
  supervisor, \* supervisor[r]: the supervise task
  terms,      \* terms[r]: kill tasks that have not sent SIGTERM yet
  graces      \* graces[r]: kill tasks asleep between SIGTERM and SIGKILL

spawnVars   == <<command, via, pid>>
processVars == <<leader, kid>>
outputVars  == <<written, taken, pump>>
superVars   == <<groupId, supervisor>>
killVars    == <<terms, graces>>
taskVars    == <<spawnVars, processVars, outputVars, superVars, killVars>>

-----------------------------------------------------------------------------
(* What travels from the agent to the host, and between its tasks. *)

Output(r, s, n) == [id |-> r, content |-> [type |-> "CommandOutput",
                    command |-> command[r], stream |-> s, line |-> n]]
Finished(r) == [id |-> r, content |-> [type |-> "CommandFinished",
                command |-> command[r]]]

GuestResponseMessage(packet) == [type |-> "GuestResponse", response |-> packet]
TaskFinishedMessage(c) == [type |-> "TaskFinished", command |-> c]

(* tx.send(m).await of a task: it waits for room, and it fails once the    *)
(* receiver of its incarnation is gone.                                    *)
CanSend(r) == via[r] = channel /\ Len(messages) < CHANNEL_CAPACITY
SendFails(r) == via[r] # channel

-----------------------------------------------------------------------------
(* The guest kernel: who is alive, who holds a pipe, which pids are free.  *)

Living == {"piped", "quiet"}
PipeOpen(r) == leader[r] = "running" \/ kid[r] = "piped"

(* A zombie keeps its pid; a descendant keeps the group id in use. *)
GroupExists(p) ==
  \E r \in RequestId :
    pid[r] = p /\ (leader[r] \in {"running", "zombie"} \/ kid[r] \in Living)

(* The members in `hit` of every process group numbered p end. *)
Strike(p, hit) ==
  /\ leader' = [r \in RequestId |->
       IF pid[r] = p /\ leader[r] = "running" /\ "leader" \in hit
       THEN "zombie" ELSE leader[r]]
  /\ kid' = [r \in RequestId |->
       IF pid[r] = p /\ kid[r] \in Living /\ "kid" \in hit
       THEN "gone" ELSE kid[r]]

(* The child exits by itself. *)
LeaderExits(r) ==
  /\ leader[r] = "running"
  /\ leader' = [leader EXCEPT ![r] = "zombie"]
  /\ UNCHANGED <<messages, channel, spawnVars, kid, outputVars, superVars, killVars>>

(* The descendant exits by itself. *)
KidExits(r) ==
  /\ kid[r] \in Living
  /\ kid' = [kid EXCEPT ![r] = "gone"]
  /\ UNCHANGED <<messages, channel, spawnVars, leader, outputVars, superVars, killVars>>

(* Whoever holds the pipe writes a line; nobody can once the pump is gone. *)
WriteLine(r, s) ==
  /\ PipeOpen(r)
  /\ pump[r][s] # "done"
  /\ written[r][s] < MaxLines[s]
  /\ written' = [written EXCEPT ![r][s] = @ + 1]
  /\ UNCHANGED <<messages, channel, spawnVars, processVars, taken, pump,
                 superVars, killVars>>

-----------------------------------------------------------------------------
(* Task::spawn for request r and command c: the child, its pumps and its   *)
(* supervisor.  The pid is one no process and no group uses.               *)
Spawn(r, c) ==
  /\ \E p \in Pid : ~GroupExists(p) /\ pid' = [pid EXCEPT ![r] = p]
                                    /\ groupId' = [groupId EXCEPT ![r] = p]
  /\ \E k \in KidKinds : kid' = [kid EXCEPT ![r] = k]
  /\ leader' = [leader EXCEPT ![r] = "running"]
  /\ command' = [command EXCEPT ![r] = c]
  /\ via' = [via EXCEPT ![r] = channel]
  /\ pump' = [pump EXCEPT ![r] = [s \in CommandStream |-> "read"]]
  /\ supervisor' = [supervisor EXCEPT ![r] = "drain"]
  /\ UNCHANGED <<written, taken>>

(* dump_stream reads a line ... *)
PumpReads(r, s) ==
  /\ pump[r][s] = "read"
  /\ taken[r][s] < written[r][s]
  /\ taken' = [taken EXCEPT ![r][s] = @ + 1]
  /\ pump' = [pump EXCEPT ![r][s] = "send"]
  /\ UNCHANGED <<messages, channel, spawnVars, processVars, written,
                 superVars, killVars>>

(* ... or the end of the pipe, once nobody holds its other end ... *)
PumpEnds(r, s) ==
  /\ pump[r][s] = "read"
  /\ taken[r][s] = written[r][s]
  /\ ~PipeOpen(r)
  /\ pump' = [pump EXCEPT ![r][s] = "done"]
  /\ UNCHANGED <<messages, channel, spawnVars, processVars, written, taken,
                 superVars, killVars>>

(* Mutation of PumpSends: try_send, which drops the line when there is no room. *)
PumpTrySends(r, s) ==
  /\ pump[r][s] = "send"
  /\ \/ /\ CanSend(r)
        /\ messages' = Append(messages,
                         GuestResponseMessage(Output(r, s, taken[r][s])))
     \/ ~CanSend(r) /\ UNCHANGED messages
  /\ pump' = [pump EXCEPT ![r][s] = "read"]
  /\ UNCHANGED <<channel, spawnVars, processVars, written, taken,
                 superVars, killVars>>

(* ... and passes the line on, giving up if nobody will receive it. *)
PumpSends(r, s) ==
  /\ pump[r][s] = "send"
  /\ \/ /\ CanSend(r)
        /\ messages' = Append(messages,
                         GuestResponseMessage(Output(r, s, taken[r][s])))
        /\ pump' = [pump EXCEPT ![r][s] = "read"]
     \/ /\ SendFails(r)
        /\ pump' = [pump EXCEPT ![r][s] = "done"]
        /\ UNCHANGED messages
  /\ UNCHANGED <<channel, spawnVars, processVars, written, taken,
                 superVars, killVars>>

(* Mutation of Reap: the child is awaited, the pumps are not. *)
ReapUndrained(r) ==
  /\ supervisor[r] = "drain"
  /\ leader[r] = "zombie"
  /\ leader' = [leader EXCEPT ![r] = "reaped"]
  /\ groupId' = [groupId EXCEPT ![r] = NO_GROUP]
  /\ supervisor' = [supervisor EXCEPT ![r] = "report"]
  /\ UNCHANGED <<messages, channel, spawnVars, kid, outputVars, killVars>>

(* Mutation of Reap: the group id is not cleared. *)
ReapKeepsGroup(r) ==
  /\ supervisor[r] = "drain"
  /\ \A s \in CommandStream : pump[r][s] = "done"
  /\ leader[r] = "zombie"
  /\ leader' = [leader EXCEPT ![r] = "reaped"]
  /\ supervisor' = [supervisor EXCEPT ![r] = "report"]
  /\ UNCHANGED <<messages, channel, spawnVars, kid, outputVars, groupId, killVars>>

(* supervise: both pumps are awaited before the child is, and the group id *)
(* is cleared in the very step that reaps the child.                       *)
Reap(r) ==
  /\ supervisor[r] = "drain"
  /\ \A s \in CommandStream : pump[r][s] = "done"
  /\ leader[r] = "zombie"
  /\ leader' = [leader EXCEPT ![r] = "reaped"]
  /\ groupId' = [groupId EXCEPT ![r] = NO_GROUP]
  /\ supervisor' = [supervisor EXCEPT ![r] = "report"]
  /\ UNCHANGED <<messages, channel, spawnVars, kid, outputVars, killVars>>

(* Mutation of Report: try_send, which gives up when there is no room. *)
ReportTrySend(r, from, message, to) ==
  /\ supervisor[r] = from
  /\ \/ /\ CanSend(r)
        /\ messages' = Append(messages, message)
        /\ supervisor' = [supervisor EXCEPT ![r] = to]
     \/ /\ ~CanSend(r)
        /\ supervisor' = [supervisor EXCEPT ![r] = "done"]
        /\ UNCHANGED messages
  /\ UNCHANGED <<channel, spawnVars, processVars, outputVars, groupId, killVars>>

(* supervise: CommandFinished goes first, TaskFinished second. *)
Report(r, from, message, to) ==
  /\ supervisor[r] = from
  /\ \/ /\ CanSend(r)
        /\ messages' = Append(messages, message)
        /\ supervisor' = [supervisor EXCEPT ![r] = to]
     \/ /\ SendFails(r)
        /\ supervisor' = [supervisor EXCEPT ![r] = "done"]
        /\ UNCHANGED messages
  /\ UNCHANGED <<channel, spawnVars, processVars, outputVars, groupId, killVars>>


(* Mutation of ReportFinished: nothing is sent after CommandFinished. *)
ReportFinishedOnly(r) ==
  Report(r, "report", GuestResponseMessage(Finished(r)), "done")

ReportFinished(r) ==
  Report(r, "report", GuestResponseMessage(Finished(r)), "release")
ReportTaskFinished(r) ==
  Report(r, "release", TaskFinishedMessage(command[r]), "done")

-----------------------------------------------------------------------------
(* signal_group: false once the group id is cleared or names no group. *)
Signalled(r) == groupId[r] # NO_GROUP /\ GroupExists(groupId[r])

(* Mutation of KillTerm: SIGTERM is the end of it. *)
KillTermOnly(r) ==
  /\ terms[r] > 0
  /\ terms' = [terms EXCEPT ![r] = @ - 1]
  /\ \/ /\ Signalled(r)
        /\ \E hit \in SUBSET {"leader", "kid"} : Strike(groupId[r], hit)
     \/ ~Signalled(r) /\ UNCHANGED processVars
  /\ UNCHANGED <<messages, channel, spawnVars, outputVars, superVars, graces>>

(* kill(), first half: SIGTERM, which a process may survive. *)
KillTerm(r) ==
  /\ terms[r] > 0
  /\ terms' = [terms EXCEPT ![r] = @ - 1]
  /\ \/ /\ Signalled(r)
        /\ \E hit \in SUBSET {"leader", "kid"} : Strike(groupId[r], hit)
        /\ graces' = [graces EXCEPT ![r] = @ + 1]
     \/ ~Signalled(r) /\ UNCHANGED <<processVars, graces>>
  /\ UNCHANGED <<messages, channel, spawnVars, outputVars, superVars>>

(* kill(), second half after KILL_GRACE: SIGKILL, which nothing survives. *)
KillKill(r) ==
  /\ graces[r] > 0
  /\ graces' = [graces EXCEPT ![r] = @ - 1]
  /\ \/ Signalled(r) /\ Strike(groupId[r], {"leader", "kid"})
     \/ ~Signalled(r) /\ UNCHANGED processVars
  /\ UNCHANGED <<messages, channel, spawnVars, outputVars, superVars, terms>>

(* Drop for Task: each task in R starts a kill task. *)
KillAll(R) ==
  terms' = [r \in RequestId |-> IF r \in R THEN terms[r] + 1 ELSE terms[r]]

-----------------------------------------------------------------------------
TaskInit ==
  /\ messages = <<>>
  /\ channel = 0
  /\ command = [r \in RequestId |-> NO_COMMAND]
  /\ via = [r \in RequestId |-> 0]
  /\ pid = [r \in RequestId |-> NO_GROUP]
  /\ leader = [r \in RequestId |-> "none"]
  /\ kid = [r \in RequestId |-> "gone"]
  /\ groupId = [r \in RequestId |-> NO_GROUP]
  /\ written = [r \in RequestId |-> [s \in CommandStream |-> 0]]
  /\ taken = [r \in RequestId |-> [s \in CommandStream |-> 0]]
  /\ pump = [r \in RequestId |-> [s \in CommandStream |-> "none"]]
  /\ supervisor = [r \in RequestId |-> "none"]
  /\ terms = [r \in RequestId |-> 0]
  /\ graces = [r \in RequestId |-> 0]

PumpStep(r, s) == PumpReads(r, s) \/ PumpEnds(r, s) \/ PumpSends(r, s)
PumpNext(r)   == \E s \in CommandStream : PumpStep(r, s)
SuperNext(r)  == Reap(r) \/ ReportFinished(r) \/ ReportTaskFinished(r)
KillNext(r)   == KillTerm(r) \/ KillKill(r)
KernelNext(r)  == LeaderExits(r) \/ KidExits(r) \/ \E s \in CommandStream : WriteLine(r, s)
TaskNext(r)   == PumpNext(r) \/ SuperNext(r) \/ KillNext(r) \/ KernelNext(r)
=============================================================================
