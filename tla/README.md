# A verification project for agent-mcp-server

The repository is an MCP server that gives a coding agent tools on a host: file
tools, command runners, lights, and a QEMU machine with an agent of its own
inside. The interesting part of it is concurrent: many tool calls share one QEMU
instance and one connection to the agent in it, that agent runs commands as
process groups for hosts that come and go, a tracker follows lights that come and
go on the network. This folder models it in TLA+, checks it with TLC on small
instances and proves with TLAPS, for instances of every size, the safety
properties of the guest agent, of the host's connection to it, of the QEMU
manager and the boot of an instance, of the command runner, of the lights and of
the file tools, and that the guest agent implements what its protocol promises.

Paths below are relative to `src/`. `G` stands for `mcp-qemu-agent/src`, `S` for
`mcp-server/src` and `Q` for `mcp-server/src/tools/other/rdk_qemu`.

## 1. Inventory

| component | state | operations | what is hard | correct when |
|---|---|---|---|---|
| guest command, `G/orchestrator/task.rs` | child, pipes, `process_group_id` | `spawn`, `dump_stream` ×2, `supervise`, `kill`, `Drop` | five tokio tasks and the kernel race; pids are reused; SIGKILL is due 2 s after SIGTERM | the end is reported after all output; no signal reaches a stranger; nothing abandoned lives on |
| guest orchestrator, `G/orchestrator/mod.rs` | `session`, `tasks`, its message channel | one handler per request, one per message, `send_response` | two sources in a `select!`, bounded channels in a circle, a session replaced while its tasks send | answers in order, nothing of an old session after a new one, ids released |
| guest process, `G/main.rs`, `G/async_port.rs` | port, reader, writer, orchestrator | `run_session`, the loop in `main` | the port is lost at any await; each worker must notice the end of the others | the port is always opened again; what was read is answered |
| protocol, `mcp-qemu-agent-proto/src/lib.rs` | none | packets, COBS and postcard | an order of packets that is promised nowhere in one place | see `AgentProtocol` |
| host connection, `Q/agent/mod.rs`, `Q/agent/command_exec.rs` | `pending`, the writer, the pump | `request`, `execute`, `cancel`, `send`, `pump_agent` | a bounded channel per call behind one pump; deadline, cancellation and answers race; the socket closes | every call returns, no output lost, no registration left, no command left running |
| QEMU manager and instance, `Q/mod.rs`, `Q/instance.rs`, `Q/files.rs` | one slot under a mutex, the process, fixed file names; at boot the console channel, the probe's connection | `start`, `exec`, `stop`, `spawn`, `wait_for_agent`, `connect_agent`, `shutdown`, three `Drop`s | long operations under a lock, processes that exit or hang at any time, failures half way; late answers of earlier probes | one QEMU, never lost, its files its own, stop means gone; an agent that is returned is in the session it announced |
| console buffer, `Q/console_buffer.rs` | the last 4096 lines | `push`, `last_line`, `dump` | two pumps push at the same time, a listener that leaves | the last lines, without a gap; the console is always read |
| host command runner, `S/helpers/steam_command.rs` | two readers, a channel, two buffers | `execute` | two pipes of one child, a child that exits before it is read | a stream of text is in the result, whole and in order; the command returns |
| lights, `S/tools/lights/*` | a map of devices under a lock, one worker per device | `track_devices`, `register_device`, `refresh_device_info`, `lights_info`, `lights_set_color` | what is read from the map is used after the lock; announcements are missed while no daemon lives | the map becomes what the network is, each device with one worker |
| permissions and paths, `S/permissions.rs`, `S/path_resolver.rs`, `S/context.rs` | the context of a session, built once | `resolve`, `check`, `try_get_context` | links and `..`; a client that is asked while a mutex is held | one context; what is checked is what the kernel would open then |
| file tools, `S/tools/fs/*` | none but the files | read, write, edit, move, list, make, glob, grep | no call locks the files; a write empties before it fills; a walk of a tree that changes | an edit changes its lines and no others; a search that does not say otherwise has found all; every call returns |
| exec, ssh, lima, docker tools | none | build arguments, run StreamCommand | nothing of their own | through `StreamCommand` |
| entry, router | the context of a session | `initialize`, forward | two calls that come first | see permissions and paths |
| helpers | none | error macros, mime types, resource folder | nothing | not modelled |

How they interact: a tool call takes `RdkQemuManager`'s mutex, and through
`RdkQemuInstance` reaches the `RdkQemuAgent`. That writes packets into a unix
socket under a writer mutex; QEMU passes them through virtio-serial to the port
that the guest process has open. The guest's reader queues them (mpsc), the
orchestrator answers into a second channel that the writer empties, and the
orchestrator's commands report through a third. On the host, the pump reads the
answers and puts each into the channel of the call that is registered under its
id. A call that has a progress token awaits a notification of its client now and
then. The file tools take the session's context, which the first call builds,
from `McpAgentHandler`, resolve and check their paths with it, and meet each
other only in the file system. The lights' tracker runs for the whole process
and shares its map with its workers and with the tool calls of all sessions.

`PROJECT.json` lists under `hazards`, line by line, what in this is hard to test,
and which property covers it.

## 2. Modules

| module | models | its state |
|---|---|---|
| `AgentTask` | `Task`: child, descendant, pumps, supervisor, kills, and the guest kernel's pids and groups | functions of the request that spawned the task |
| `Orchestrator` | `Orchestrator`; EXTENDS `AgentTask` | the two channels, `session`, `tasks`, the loop's position, and the history of answers |
| `AgentProtocol` | what the agent promises, abstractly | the answers received, the session in force, live commands, lines so far |
| `OrchestratorRefinement` | the refinement mapping from `Orchestrator` to `AgentProtocol` | none of its own |
| `GuestAgent` | `main`, `run_session`, both port workers; composes with the actions of `Orchestrator` and replaces its port actions | the port, the two workers, the count of opens |
| `HostAgent` | `RdkQemuAgent`, `CommandExecTask`, `pump_agent` | per call: position, channel, result; `pending`, the writer mutex, the link, and the guest as the host sees it |
| `QemuManager` | `RdkQemuManager`, `RdkQemuInstance`, `RdkQemuFiles` | the mutex, the slot, per call a position, per instance a process, whose files exist |
| `StreamCommand` | `StreamCommand::execute_for_result`, `read_lines` | child, pipes, readers, channel, buffers |
| `InstanceBoot` | `RdkQemuInstance::spawn`, `wait_for_agent`, `prepare_agent`, `connect_agent`, `pump_console`, `RdkQemuConsoleBuffer`, and of `RdkQemuAgent` `connect` and `initialize` | pipes, pumps, console channel and buffer, the two positions of the boot, the probe's connection, and the guest's port |
| `Lights` | `LightsControllerActor`, its map and workers, `LightsSetColorTool` | the network, the mDNS daemon and what it told, the map, the tasks, one call |
| `FileTree` | `PathResolver`, `Permissions`, and what the kernel makes of paths and trees | none: operators on trees |
| `FileTools` | the file tools, `McpAgentContext`, `try_get_context`; EXTENDS `FileTree` | the tree, the session's context with its mutex, the calls with what they hold |
| `OrchestratorProofs` | theorems about `Orchestrator`: types, children and their groups; the task map, the order of answers, the barrier of a session; output before its end, and the refinement of `AgentProtocol` | none of its own |
| `GuestAgentProofs` | the theorems about `GuestAgent`; EXTENDS `OrchestratorProofs` | none of its own |
| `HostAgentProofs` | the theorems about `HostAgent` | none of its own |
| `QemuManagerProofs` | the theorems about `QemuManager` | none of its own |
| `StreamCommandProofs` | the theorem about `StreamCommand` | none of its own |
| `InstanceBootProofs` | the theorems about `InstanceBoot` | none of its own |
| `LightsProofs` | the theorem about `Lights` | none of its own |
| `FileToolsProofs` | the theorems about `FileTools`, with the algebra of paths, trees and texts they rest on | none of its own |
| `MC*` | instances for TLC: the sets and numbers of each run | |

### How actions correspond to code

A step is what a tokio task does from one await to the next. The guest agent
runs on a `current_thread` runtime, so such a step is atomic there. On the host
it is atomic because what it touches is behind a lock that is not held over an
await, or belongs to the call.

* **A handler with its answer.** `Initialize`, `Ping`, `CommandExec`,
  `CommandKill`, `PassOn` and `RemoveTask` are the whole synchronous part of a
  handler, up to the await in `send_response`, which is the state `orch = "send"`.
  `Send` is what follows. A response channel without a receiver makes the loop
  end (`Break`), and so does a request channel that is closed *and* empty.
* **Drop.** Replacing a session drops its tasks. `DropTasks` starts a kill task
  for every task, as `Drop for Task` does, and `DropMessages` is the replacement of
  the message channel: the counter `channel` names its incarnation, and a sender
  of another incarnation fails in `SendFails`. A task that is removed because it
  is over is dropped as well and starts a kill that must find nothing.
* **Processes.** `leader` is the child (`running`, `zombie`, `reaped`), `kid`
  at most one descendant in the group, which holds the pipes or does not. A pid
  is free again when no unreaped child and no group uses it, so that reuse is
  part of the model. SIGTERM may be survived by either process; SIGKILL may not.
* **The host.** `pc` names the await a call is at. `Return` drops the channel and the
  `PendingGuard`, which needs the lock of the map. The guest in `HostAgent` is one
  loop: it stops for all commands when its answers find no room, as the
  orchestrator does.
* **The mutex of the manager** is held from `begin` up to the end of a start or a
  stop, and by an execution only while it looks at the slot. Each rung of
  `shutdown` is a position of its own.

* **The boot.** `main` is the await of `wait_for_agent`'s loop and `prep` that of
  `prepare_agent`, which is polled only while `main = "select"`. `DropAgent` is what
  becomes of a probe that failed: the connection closes, what the guest has
  written to it is lost, and what the guest's open port has taken in stays
  there to be read. The guest is the part of `GuestAgent` that one can see
  through the port: it opens, reads, answers, sees the hangup, closes.
* **The lights.** A task is `read` before it takes the lock, `ask` while the request is
  under way, `store` with an answer in its hands. Removing an entry drops its
  `JoinSet`, which aborts the task at its next await; a task that is being polled
  on another thread just then gets as far as its write (`last`).
* **The files.** A tree is a function from paths to nodes. `Walk` is the kernel's
  way along a path and `Resolve` the program's; a link is one hop. Resolving, checking,
  listing one folder and reading one file are a step each, and between any two of
  them other calls may change the tree. `tokio::fs::write` is two steps, `Opens`
  (create or empty) and `Fills` (write from the start, over what is there). A text
  is a sequence of words and line ends, so that lines, numbers and missing line
  ends are as in the code. A pattern is what it matches: of the `include`
  patterns one name, and of the deny list what lies in a `.git`.

Operators whose comment begins with "Mutation of" are not part of any
specification. Each changes one definition the way a plausible mistake in the
code would, and is there to show that the property it is paired with would
notice (`mutants` in `PROJECT.json`).

## 3. Runs

| run | instance | distinct states | shows |
|---|---|---|---|
| `orchestrator` | 2 requests, 2 sessions, 1 command id, 2 streams of 3 and 0 lines, 1 pid, channels of 1 | 140 334 | no answer of a replaced session after the new one; every request answered once and in order; no orphan; no signal to a stranger; the map exact; the end is reported after all output; abandoned commands end, ends are reported, ids released; the orchestrator implements `AgentProtocol` |
| `guest_agent` | 2 requests, 2 sessions, 2 opens, 2 connects, a link of 1 frame | 458 932 | the barrier survives the loss of the port; nothing of a lost port reaches the next; the port is opened again; what was read is answered |
| `host_agent` | 2 calls, 1 line per command, channels of 1, a link of 4 requests and 1 answer | 182 622 | no lost line, no registration left, no deaf waiter, no runaway command, and every call returns |
| `qemu_manager` | 3 calls, 3 instances | 106 173 | one QEMU, never lost, with its own files; stop means gone; every call returns |
| `stream_command` | 2 streams of up to 3 lines, pipes and channel of 1 | 26 003 | a stream that is text is in the result, whole and in order, whatever the other one carries; the command returns |
| `instance_boot` | 2 consoles of 4 and 1 lines, pipe and channel of 1, a buffer of 2, 2 mishaps | 163 524 | the buffer holds the last lines; an agent that is returned is in its own session and its link is clean; the console is read; the boot gets there without its deadline |
| `lights` | 2 devices, 2 addresses, 3 tasks, 4 changes of the network, 1 death of the daemon | 412 095 | one worker per device; the map becomes what the network is; a removal is forgotten only if no daemon saw it; a colour reaches its device |
| `file_tools` | 3 calls of 15 kinds, 2 at a time, a tree with a link back to its root, 2 results | 341 729 | one context per session; resolution is the kernel's; edits and searches are right; every call returns |
| `orchestrator_group` | 2 requests | violation | finding 1 |
| `host_agent_stalled` | 1 call | violation | finding 2 |
| `qemu_manager_copy` | 2 calls | violation | finding 3 |
| `stream_command_binary` | 2 streams of up to 2 lines, pipes of 2 | violation | finding 4 |

### Bounds and why they are enough

* **Channels hold 1** where the code has 64 or 256. Everything a capacity does
  is done by "full" and "not full", and 1 makes every sender meet both.
* **Requests** (`RequestId`): two let a command meet each other request, of either session: its
  kill, a spawn of the same id while it runs or after its end, the announcement of a session
  before or behind it, and the loss of the port. One command id makes every later spawn a reuse.
  What three requests add (a spawn, its kill and a spawn again) is left to the proofs: all safety
  properties of this run are proved for any number of requests (section 5).
* **Pids**: one in `orchestrator`, where a second command takes the pid of a first one that is gone
  while a kill of that may be in its grace; two in `orchestrator_group`, where both are alive.
* **Descendants**: one per command, of a kind chosen at the spawn.
* **Lines** (`MaxLines`): one is enough to block a pump; two or three where the order
  of lines or a gap between them is the question. In `stream_command` a line is text or is not.
* **Console**: the prompt is the first of four lines, so that after it there is
  enough left to fill the channel, both pump positions and the pipe.
* **Mishaps** (`MaxMishaps`): how often an interval passes although guest or host had
  something to do. Two let a late answer meet a second attempt, and the answer to that
  a third one. More of them only repeat this; without a bound a guest that is
  always too slow never gets a session, which is not the code's fault.
* **Sessions** of the boot: five, so that one is always free of those that are in the
  queues, in the guest and with the host. That is what 64 random bits are.
* **Network** (`MaxChanges`, `MaxDeaths`): in four changes one light comes, the other takes
  its address and the first comes back elsewhere; one death lets a removal be missed.
* **Calls of a session**: three, two at a time: one that changes the tree before, and one
  during, the call that is looked at. The tree has a link from a folder to the root
  above it, a file whose last line has no line end, a `.git` and a folder in the
  home directory. Two results are a limit that a search can hit exactly and exceed.
* **Port**: two opens and two connects are one loss, by the same host or another.
* **Instances**: three, because a start that shuts one down may fail at boot, with
  the next one not yet started. An instance is never reused.
* **`TO_GUEST = 4`** is room for every request that two calls can send (a request
  and a kill each). See "What the bound hides" below.

No run uses symmetry.

### Deadlock

Every cfg says `CHECK_DEADLOCK FALSE`: the requests, connects, calls and
processes are bounded, so all of these systems come to rest when their inputs are used
up, and the orchestrator ends by itself with its port. That nothing rests too early
is the business of the liveness properties.

### Fairness

* **Guest** (`Orchestrator!Fairness`, `GuestFairness`): every tokio task that can go on is
  polled, so each gets weak fairness. `select!` in `run_loop_iteration` is not
  `biased` and picks at random among ready branches, which is strong fairness of
  the message branch: requests that keep coming cannot shut it out for ever. No
  fairness is assumed of children or descendants (they may run for ever), of a
  failure, nor of a host that connects. `WriterTakes` is fair in `Orchestrator`,
  where a host that reads is assumed; in `GuestAgent` nothing of the kind is
  assumed, and the properties name the exception (`WaitsForHost`).
* **Host** (`HostAgent!Fairness`): the pump, the sends, the timers and the guest's
  loop go on. The loop of an execution is a `select!` too, so taking an event and
  giving up after the deadline are strongly fair. `FairSpec` also has the client
  take its notifications; `StalledSpec` does not. No command need end, no client
  need cancel.
* **Manager**: every wait has a timeout, except the one after SIGKILL, where the kernel
  is fair; a tokio mutex is handed on in the order of arrival. This leans on
  `HostAgent` for the calls to the agent within the ladder.
* **Boot**: pumps, guest and QEMU go on; the client takes its notifications (the stalled
  one is `host_agent_stalled`'s); the branches of the boot's `select!` are strongly fair, as
  it picks at random; a `connect` does not fail for ever. Nothing is asked of the
  deadline: `AgentIsReached` shows that it is not needed.
* **Lights**: the tracker, the workers and the call are polled, their pauses end, and a
  device that is there does not fail to answer for ever (strong fairness of the answer).
  The network and the daemon owe nothing.
* **Files**: a call that can go on does, and the client answers `list_roots`, which has no
  timeout of its own. `FileTools!FairSpec` writes weak fairness out with `Ready` in place of
  `ENABLED`, which TLC would have to compute by running every call's action again;
  `Ready` is what the enabling conditions of a call come to.
* **Runner**: the readers, the loop, the client and the child go on; a
  descendant need not end, and `CommandReturns` speaks of commands without one.

### What the bound hides

With less room in the link than calls can fill, `CallsReturn` of `HostAgent` fails: call *a* is in
`cancel` and waits for the writer mutex, so that it takes nothing from its own full
channel; the pump waits for room in that channel; the guest waits for the pump;
so the guest takes no request; and call *b* holds the mutex over a write that has
no timeout (`Q/agent/mod.rs:173`). In the real system the room is that of a socket
buffer and the virtio ring, many small packets, so the circle takes a
great many requests at once. It is listed among the hazards, and the run gives
the link its room on purpose.

## 4. Findings

1. **`orchestrator_group`.** `G/orchestrator/task.rs:94` logs "abandoned, killing its
   process group". The group gets SIGTERM. If the child dies of it and is reaped
   within the grace, `supervise` clears the group id (line 135), and the SIGKILL of
   line 84 finds none: a descendant that ignores SIGTERM, and does not hold the
   output pipes, stays. Clearing the id is needed: `SignalsOwnGroup` fails without it.
2. **`host_agent_stalled`.** `timeout_secs` is documented as "seconds to wait before
   cancelling the command in the guest" (`Q/mod.rs:103`), but the progress
   notification is awaited inside the loop (`Q/agent/command_exec.rs:86`): a client that
   does not take it keeps deadline and cancellation from being looked at.
3. **`qemu_manager_copy`.** `Q/files.rs:100` refuses an image that "is a working copy qemu
   boots from". `start` shuts the previous instance down first (`Q/mod.rs:68`), which
   removes that very copy; the check then finds nothing to refuse, and the copy is gone.
4. **`stream_command_binary`.** The repository's `README.md:5` says that a command's output is
   streamed and that the server "returns their combined stdout/stderr". The loop of `read_lines`
   goes on `while let Ok(Some(line))` (`S/helpers/steam_command.rs:151`), so that a line which is not
   UTF-8 ends it like the end of the stream: that line and the text behind it are missing from the result,
   which does not say so. In the trace, one stream has such a line and then a text line.
   `ResultIsComplete` states what holds: a stream that is text to its end is complete.

Noticed while modelling; the models behave this way, no run is about it:

* The repository's `README.md:37` says that "`.git` is denied". What is denied is a path that leads into one at
  the moment of the check. A move is checked by its two paths, so a folder that holds a `.git` of its own
  is moved with all that is in it; and between check and use (`S/permissions.rs:67`, then an
  await) another call may move what the path leads through, so that it ends in another place than
  the one that was checked. `Checks`, `Moves` and `Opens` of `FileTools` behave this way; the
  tree of `file_tools` has its `.git` in the root, and no property says that it is kept.
* `S/tools/lights/lights_set_color.rs:11` documents the id as "matched case-insensitively";
  the lookup is an exact one.
* The comment above `collect_files` (`S/tools/fs/glob.rs:83`) speaks of "sorted by path" and of the
  deny list; nothing is sorted, and it looks at no list (a `.git` is skipped for
  its dot, and grep asks for each file).
* `grep` on a single file with an `include` finds nothing: the pattern is matched
  against the empty path below the file. And it says "truncated" when it has found
  exactly as many as the limit, where `glob` does not.
* An edit behind a last line without a line end is written onto that line. This is the
  exception in `EditsAreLocal`.
* Two calls that write one file overlap without a word: an edit overwrites what
  another wrote since it read, and two writes at a time may leave one text with the rest of the
  other behind it.
* A probe that timed out has used up its interval, so the next one starts at once, while
  the guest is still closing the port; its announcement may be thrown away with
  what the port had taken in, which costs one more attempt.
* QEMU that exits during the boot has its console dumped at once, with the last lines
  perhaps still in the pipes; only `exec` waits for the pumps.

## 5. Proofs

Each proof module has the same plan: an inductive invariant, that `Init` implies it
and every step keeps it, with one lemma per action or family of actions that changes
the same variables, and the theorems as consequences. Each invariant was also checked by
TLC on the passing instance of its module before it was proved.

What recurs: a fact about a sequence is stated for any sequence (a constant), and used of
the state through a lemma that says which sequence the state has. So the invariants speak of
`Stream`, all answers that are decided, in the order the host will get them (taken by the
writer, then queued, then held by `send_response`): a handler appends to it, a lost channel
cuts it, and nothing else changes it.

### Orchestrator

`OrchestratorProofs` proves for any number of requests, commands, streams, pids and sessions, any
channel capacity and any number of lines:

* `TypeCorrect`: `Spec => []TypeOK`.
* `NoOrphansHolds`: no child runs without being in the task map,
  or having a kill task that is still going to signal its group.
* `SignalsOwnGroupHolds`: a group id that is not cleared
  names no process of another command, however pids are reused.
* `TaskMapExactHolds`: a command id in force names exactly the task that was spawned for it and
  is not released.
* `RequestsAnsweredInOrderHolds`: requests are answered once each, in order and without a gap.
* `FreshSessionBarrierHolds`: behind the announcement of a new session nothing is heard of
  an older one.
* `OutputCompleteHolds`: the end of a command comes behind all of its lines, and those in order.
* `ImplementsProtocolHolds`: `Spec => ImplementsProtocol`, the refinement.

Assumptions: `TaskAssumption` and `OrchestratorAssumption`, that is, the special
values are not among the ordinary ones, request ids are positive numbers, and a
channel holds at least one message. TLC evaluates them in every run.

**Children and groups.** The invariant is `IInv == Types /\ KnownAndOwn`.

* `Types` adds `HeldAnswer` to `TypeOK`: while the loop waits in `send_response` it
  holds an answer, not the placeholder. Without it, `Send` could queue the
  placeholder.
* `KnownAndOwn` adds two facts to the two properties. `SpawnedKnown`: a task whose pumps
  or supervisor exist has a real command id, so that the messages they send are
  typed. `GroupOfChild`: the group id is set exactly while the child runs or is
  a zombie, and then it is the child's pid. This is the heart of both
  properties. An unreaped child keeps its pid, so `Spawn` never gives it to another
  command; and `Reap` clears the id in the very step that frees the pid.
* For `NoOrphans`, the interesting steps are those that take a task out of the map
  or a kill out of its count. `Initialize` and `Break` drop every task, and each
  drop starts a kill. `RemoveTask` drops what it finds under the command id,
  whether or not it is the task that sent the message. A kill gives up early only if
  the group id is cleared or names no group, and by `GroupOfChild` the child
  is not running then.

**The task map.** `MapInv` says that a task of the channel in use that is not done is in
the map under its command (`MapFollowsTasks`), and that an answer in the message channel is of
such a task (`MessagesOfTasks`). `TaskMapExact` alone is not inductive: a `TaskFinished` in the
channel could remove a later task of the same id. It cannot, because it is of the channel in
use, and the one task of that command and channel is the one that sent it.

**Order.** `NumberedInv` adds that requests in the queue are consecutive and newer than all that
spawned something. `DirectInv`: the direct answers in `Stream` have rising ids with nothing
left out, up to the last request taken. `BarrierInv` (`Barred`) says of a stream, of the
commands whose messages still count (`LiveIds`: started, and by the channel in use) and of the
session in force: nothing behind a switch is older than it, every live command is
newer than every switch, and the session in force is the one announced last. The middle part
is the point of replacing the message channel: a switch empties `LiveIds` in the step that
announces it. The last part is why a repeated announcement of the same session is no switch.

**Output.** `OutputInv` follows each line from its pump to the stream. `Passed(r, x)` is
how many lines a pump has handed over, and exactly those are in the answers or the messages
(`LinesWerePassed`, `NoLineMissing`, `LinesFollow`); a supervisor past its drain has pumps that
are done, which have taken all that was written (`PumpsDrained`); an end waits behind all messages of its
command (`EndsWait`), so that all its lines are in the stream when it gets there
(`EndsComeLast`).

**Refinement.** The mapping of `OrchestratorRefinement` computes barrier, live commands and
lines from `answered` alone, but for which requests have spawned a command. So a step of the protocol
is a fact about a sequence and the same sequence with one answer more. `HeardInv` says what
is left to know of `Stream`: a command is heard of only after its result (`ToldFirst`),
its lines have no gap (`NoGap`), nothing comes behind its end (`EndIsLast`), and a request
that was refused has spawned nothing (`ResultsTell`). With the three invariants above it
makes `WireInv`, and any beginning of `Stream` is a `GoodWire`. `Latest` says of what is
written that the latest switch announced the session of every announcement behind it, so that a repeated
announcement in the protocol's terms is one in the code's. Then `AnnounceOnWire`,
`ResultOnWire`, `OutputOnWire` and `EndOnWire` are the four steps of `AgentProtocol`, and
`LiveStays` shows that a spawn is invisible: the host was not answered yet. In `OutputOnWire` the
lines before a line are counted by a bijection onto the numbers below it.

### Guest agent

`GuestAgentProofs` proves, for any number of opens and connects and any capacity of the link:

* `PortIsCleanHolds`: nothing that waits to be sent to the host answers a request of a lost port.
* `PortBarrierHolds`: the barrier holds on what all ports were given together.
* `PortsKeepCommands`: `TaskMapExact`, `NoOrphans` and `SignalsOwnGroup` hold across all ports.

Assumptions: those of the orchestrator, and `GuestAssumption` (a link holds a packet, and the
port is opened at least once).

The invariant is `GuestInv == Ports /\ Numbers /\ Clean /\ PortBarred`. `Ports` has `IInv` and
`MapInv`, whose lemmas apply to the orchestrator's own steps as they are, the types of the port, and what a worker
that has ended leaves: no answers in a channel without a writer (`WriterGone`), and nothing at all in
an orchestrator that is done (`OrchGone`). `Numbers`: what has been read and not yet
handled is in order, newer than `stale`, and newer than all that was started or answered. `Clean`
is the property with `LiveIds` in place of the messages: a live command is one of this port. Reopening
makes `stale` the number of what was read, which is right only because by then both workers
and the orchestrator have ended and `OrchGone` holds: the commands that still run have lost their
channel. `RequestsAnsweredInOrder` does not carry over, and should not: a port that is lost takes answers with it.

### Host connection

`HostAgentProofs` proves, for any number of calls, any capacity of channels and link and any
number of lines:

* `NoPendingLeakHolds`: a call that has returned is not registered.
* `NoDeafWaiterHolds`: once the pump has ended, no call waits on a channel that has a
  sender in `pending`.
* `NoRunawayCommandHolds`: while QEMU is up, the command of a call that has
  returned is over or dying, or its kill is on the way, behind the request that starts it.
* `ExecResultCompleteHolds`: a call that reports that its command finished has taken every line
  the guest sent of it.

Assumption: `HostAssumption` (`NO_CALL` is no call, capacities are positive).

The first two need `Registered`: while QEMU is up, a call under way is registered,
and the pump ends only when QEMU is gone. The third is about three ways a call
can return without a kill, and each has its fact:

* It has been told that the command is over. `EndIsTrue`: a `Finished` or `Refused`
  in a call's channel, in the pump's hands or on the link means that the command is over in the
  guest. So it must hold that nothing starts it again, which is `AskedOnce`: a
  command is asked for once, and is unknown to the guest before.
* Its channel has ended. By `Registered`, that happens only with QEMU gone.
* It is a ping, or its write failed. Then `AskedOnce` says that the guest knows nothing of it.

A kill is behind its request because a call that has written the kill is
`done`, and writes nothing more.

The fourth counts. The lines of a call that is not done are in its result, its channel, the
pump's hands or on the link, and together they are as many as the guest has sent
(`LinesCounted`); and none of them is behind its `Finished` on that way (`EndIsLast`). So when
`Finished` is taken, the result has them all. `Delivered` keeps the pump from dropping any:
what it carries is for a call that is registered. Four lemmas (`PlacesFinite` to `CountTail`) say what sending and
receiving do to a count; they stand in `StreamCommandProofs` as well, whose proof counts the same way.

### Manager

`QemuManagerProofs` proves, for any number of calls and instances:

* `TypeCorrect`, and `LockDisciplineHolds`: exactly the call between `lock()` and the drop of
  its guard has the mutex.
* `SingleQemuHolds`: at most one QEMU is alive.
* `NoLostQemuHolds`: one that is alive is in the slot, or a call boots it or shuts it
  down.
* `FilesOfTheLivingHolds`: the working files are those of the QEMU that runs.
* `StopMeansGoneHolds`: a call leaves the shutdown ladder only with its process reaped.

Assumption: `ManagerAssumption` (the special values are not among the ordinary ones).

`SingleQemu` is not inductive: spawning adds a process whatever others there are. The
invariant is `NoLostQemu` and `LockDiscipline`, with `SlotEmptied` (past its first step
the holder of the mutex has taken what was in the slot) and `TargetKnown` (a call that works on
an instance has one; one about to be spawned has its files already). Together they
say that what is alive is what the holder of the mutex works on, or else what
is in the slot, and that is one at most. `StopMeansGone` is an action property and follows from the same
invariant, one rung at a time.

### Command runner

`StreamCommandProofs` proves `ResultIsCompleteHolds` for any number of streams and lines, any kinds of line and any
capacity of pipe and channel: when `execute` returns, each stream on which all lines were text is in the result,
line by line. There is nothing to assume. The lines that were read are in the buffer, in the channel or in
the reader's hand; all of them are text, so their number alone says which they are. The invariant
is that this number of lines is the text at the start of what was written, the pipe holds what
follows, and a reader that is done stopped at the end or at a line that is not text (`Orderly`); and that
`execute` leaves its loop only with the channel empty and the readers done (`Drained`).

### Boot

`InstanceBootProofs` proves for any number of consoles, lines, sessions and delays and any
capacities:

* `ReadyOnOwnSessionHolds`: an agent that `connect_agent` returns is in the session it announced,
  and its link carries nothing of an earlier attempt.
* `ConsoleHoldsLastHolds`: the buffer shows the last lines of each console, in order and
  without a gap; with it, `TypeOK`.

Assumption: `InstanceBootAssumption` (the prompt is a line of its console, capacities are
positive, no session is `NO_SESSION`). That a session is drawn which is nowhere around any more
is a guard of `Connect`, because the bound `Session` may be too small for it; in the code it is one of
2^64.

The first is about three queues: announcements on their way to the guest, answers the guest has
not written, and answers on their way back. While a probe waits, its session is in one of three
places (`LinkInv`): it is the last announcement, and nothing else of it is anywhere (`Announced`); or the
guest has taken it, is in it, and its answer is the last of all (`Taken`); or it was lost
with the port (`Lost`). So when its answer comes, nothing is behind it. That the guest is still in it needs
one more fact: a port that has taken the announcement is not opened again while the probe is
connected, because only a hangup or the end of QEMU takes it away.

The second is inductive once the counting is gone. Lines of a console are numbered, a pump pushes
its own in order, and a push drops the first of all: what is left stays without a gap because
lines of one console stand in the order of their numbers (`Ordered`, `Gapless`).

### Lights

`LightsProofs` proves `OneWorkerEachHolds` for any number of addresses and tasks and any finite
number of devices: a device in the map has one worker and a device that is not has none.
Assumption: `LightsAssumption` (the special values are not among the ordinary ones; there are
finitely many devices, because a daemon that is started tells all of them one after the other).
The invariant says more than the number: the tasks of a device in the map are one
set `{w}` (`Watched`), so that `register_device` finds a task exactly when it finds an entry. It also
needs that every announcement that waits to be read has an address (`ResolvedSomewhere`): an
entry without one would be taken for no entry at all.

### File tools

`FileToolsProofs` proves for any number of calls, any requests, any tree of files, any links in it and any
texts:

* `CallsAgreeHolds`: all calls of a session work in the one context it has, whoever built it, and the
  mutex is held only while the client is asked for its roots.
* `TypeCorrect`: the tree stays a tree, a file that is open is one of its files, and no search has more
  than `MaxResults` hits.
* `ResolveIsWalkHolds`: what a path leads to for the kernel is what it is resolved to, and to resolve
  it again changes nothing.
* `EditsAreLocalHolds`: an edit leaves every other line as it was, under its number or under that moved by
  what it added, as long as no other call changes the file.
* `SearchIsCompleteHolds`: a search that does not say it was cut short has found all there is in the files
  that stayed as they were since it began.

Assumptions: `FileTreeAssumption` (`NOWHERE` is no path) and `FileToolsAssumption`: requests are for
tools there are, with fields of their types, where line numbers count from 1, as `NonZeroUsize`
does, and a search without a path has the path `.`; the tree there is at first is finite and well formed, which
means that every entry is in a folder and has a name that is not `.` or `..`, and that a link names its
target by a path without these; limits are numbers.

**The session.** `ContextInv` adds to the property that whoever asks for the roots holds the mutex, and
that until they are known there is no context: so the answer, when it comes, is not the second
to build one. Of all that tools do to files this needs only that it leaves the session alone (`Quiet`).

**Induction over data.** `Along`, by which paths are walked and texts are split, is a recursive function, and so
is the library's `FlattenSeq`. The library's induction theorems take a predicate, which the provers
here cannot instantiate. So induction is stated of sets: a set of numbers that has 0, and with each number
the next, has them all (`Induction`, from the least element of a set, which the well-foundedness of
`<` gives); likewise for sequences (`SeqInduction`) and paths (`PathInduction`), by their length. The
predicate is a set `T`, hidden when the lemma is cited. `WalkIs`, `ResolveIs`, `LinesAre` and `FlatAppend` then
give each recursion as equations: its value on `<<>>`, and on a sequence with one element more.

**Trees.** Every step of a call leaves a tree: `PutIs`, `RenamedIs` and `MadeIs` say so of a file that is written,
of a rename and of `mkdir -p`. A rename moves every entry below its source and none becomes another
(`MoveIsInjective`). Resolution goes through `Fixed`: each prefix of a resolved path leads to itself or nowhere. A
step keeps that, so that a resolved path is resolved to itself; and where the kernel gets anywhere, both
are at the same place after each name.

**The files.** `FilesInv` has of each call its types and where it is by then (`Placed`): what was checked is plain,
what is being scanned has no hits yet, a search that is not yet scanning has none at all. Without the
last two, a scan could exceed the maximum: its room is counted from the hits there are.

**What was seen.** `seen` is a history: the files and texts that a call has read or walked over, less those that
another call has changed since. `SeenInv` follows each of them through the call that saw it. An edit (`EditHolds`)
finds the file as it has read it up to `Opens`, empty up to `Fills`, with the file open or lost, and as it made it
at the end. A search (`SearchHolds`) has the file among those collected, or still has a folder to list on the
way to it; then it has scanned it and has all its hits, has yet to scan it, or has enough and will say
so. Neither property is inductive without this, since both speak only of calls that are done. That a file with
something to be found is never passed by rests on its folders: they are in the tree as long as the
file is (`Ancestors`), whatever else is moved.

**Lines.** What an edit makes of a text is a part of its lines, the new text and the other part, put one behind the
other. Splitting that again gives the same lines, because behind lines that all end, the lines of what follows are
numbered on (`NumbersGoOn`); where the last line of the first part has no end, what is inserted gets onto that
line, and that is the exception `EditsAreLocal` makes.

Two things had to change in the model. `WalkStep` and `ResolveStep` had guards in a `CASE` that
overlapped (a name `..` where there is no folder, or one that leads nowhere): TLC takes the first that holds, the logic
any of them, so that what they meant was not determined. And `SearchIsComplete` did not say of `grep` that
it may read the file, because on the instance that follows from the folder it searches.

### Only model-checked, and why

* **Liveness**, under fairness, and anything about what is enabled: beyond this prover.

Every safety property of a passing run is proved, and every module's type invariant, by itself (`TypeCorrect`)
or as the first conjunct of its main invariant.

## 6. What is not modelled

* **Data without control**: the bytes of lines and packets (COBS, postcard), exit statuses, log
  lines, the wording of results, the arguments of QEMU and of the exec tools, and what
  is typed on the console. A frame is read and written as a whole: one that is torn by a
  disconnect is one that does not decode, and `ReaderReads` may skip any frame.
* **exec, ssh, lima and docker tools**: each builds an argument list and runs `StreamCommand`.
* **Server entry**: arguments, transports and the router hold no state. Helpers: macros
  and lookups.
* **The guest's start**: `resolve_port_path` looks the port up in sysfs once.
* **Of the connection**: a second host while the first is still there; QEMU's socket accepts
  one at a time.
* **Of the lights**: hostnames, ports, more than one address, and `lights_info`, which reads
  the map under its lock.
* **Of the files**: the general matching of glob patterns and regular expressions,
  file sizes, base64 and mime types, permissions of the operating system, links to
  links, links that lead nowhere, and whoever else changes the files. The headers of a session are fixed at its start, as
  `get_or_init` keeps those of the first `initialize`. A link to a place outside the root that does not
  exist yet is resolved to itself (`S/path_resolver.rs:61`) and opened where it leads; with links that lead nowhere left out, the
  model does not show it. The root goes into a glob pattern as it is (`S/permissions.rs:54`), where a `[` or `*` in its
  name would match other things; `Allowed` takes it as a name.

Branches and steps that are coarser in the models than in the code:

* **Errors of reading and writing**: of a pump on a child's pipe (`G/orchestrator/task.rs:187`; only its end ends it), of the
  host's pump while QEMU lives, and its frame that does not decode, which it skips (`Q/agent/mod.rs:200`, `:216`),
  an answer that cannot be serialized, which the guest's writer skips (`G/main.rs:156`), and a `kill` of QEMU
  that fails (`Q/instance.rs:165`). The link to QEMU breaks only with QEMU, and the kernel lets a process kill its child.
* **Branches that are never taken**: a worker of the lights that finds its device gone
  (`S/tools/lights/controller.rs:184`): `OneWorkerEach` says that it does not.
* **Several awaits as one step**: the calls of `canonicalize` in one resolution, and for a move both resolutions
  and both checks (`Resolves`, `Checks`); the folders that `create_dir_all` makes, which may fail half way
  (`Made`); and the building of the context from a header, which awaits under the mutex (`BuildsFromHeader`):
  the mutex is seen to be held only while the client is asked.
* **Ids of requests** are the order in which they reach the guest. The host draws them before it takes the writer mutex
  (`Q/agent/mod.rs:113`, `:131`), so two calls may send theirs the other way round; the code compares ids for equality only.

## 7. Plan

Done, the most important behaviour first: `AgentTask` and `Orchestrator`, `AgentProtocol` with
its refinement, `GuestAgent`, `HostAgent`, `QemuManager`, `StreamCommand`, then `InstanceBoot`, `Lights`,
`FileTree` and `FileTools`; and the proofs of section 5.

What remains to be proved is outside this prover's reach: liveness. Worth adding to the model are links that lead to links or nowhere,
and a user who changes files while calls run.
