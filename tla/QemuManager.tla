---------------------------- MODULE QemuManager ----------------------------
(***************************************************************************)
(* The RDK QEMU tools of the server: start, exec and stop share one slot   *)
(* behind an async mutex (mcp-server/src/tools/other/rdk_qemu/mod.rs); an  *)
(* instance is a QEMU process, its agent connection and its working files  *)
(* (instance.rs, files.rs).                                                *)
(*                                                                         *)
(* The working files have fixed names, so that removing them removes the   *)
(* files of whichever instance made them last.  What an execution does     *)
(* with the agent is HostAgent.tla; here it succeeds or fails.             *)
(***************************************************************************)
EXTENDS Naturals, FiniteSets

CONSTANTS Call,         \* the tool calls
          Instance,     \* the QEMU processes that can be started
          NO_CALL,      \* nobody holds the mutex
          NO_INSTANCE,  \* an empty slot, no files
          LEFTOVER      \* working files of a server that was killed

ASSUME ManagerAssumption ==
  /\ NO_CALL \notin Call
  /\ NO_INSTANCE \notin Instance /\ LEFTOVER \notin Instance
  /\ LEFTOVER # NO_INSTANCE

VARIABLES
  lock,     \* who holds RdkQemuManager::instance
  slot,     \* what it holds
  tool,     \* tool[c]: start, exec or stop
  source,   \* source[c]: a start is asked for another image, or the working copy
  step,     \* step[c]: where the call is
  target,   \* target[c]: the instance it works on
  process,  \* process[i]: none, running, exited, reaped
  killed,   \* the processes that were sent SIGKILL
  copies,   \* whose working files are in the current folder
  outcome   \* outcome[c]: what the call returned

callVars == <<tool, source, step, target, outcome>>
vars == <<lock, slot, callVars, process, killed, copies>>

(* Where a call holds the mutex. *)
Ladder   == {"probe", "ask", "power_off", "terminate", "sigterm", "kill", "sigkill"}
LockedAt == {"begin", "prepare", "spawn", "boot"} \union Ladder

Init ==
  /\ lock = NO_CALL /\ slot = NO_INSTANCE
  /\ tool = [c \in Call |-> "stop"]
  /\ source = [c \in Call |-> "image"]
  /\ step = [c \in Call |-> "idle"]
  /\ target = [c \in Call |-> NO_INSTANCE]
  /\ process = [i \in Instance |-> "none"]
  /\ killed = {}
  /\ copies \in {NO_INSTANCE, LEFTOVER}
  /\ outcome = [c \in Call |-> "none"]

-----------------------------------------------------------------------------
Goto(c, from, to) == step[c] = from /\ step' = [step EXCEPT ![c] = to]

(* The call returns, and its lock guard is dropped. *)
Return(c, how) ==
  /\ step' = [step EXCEPT ![c] = "done"]
  /\ outcome' = [outcome EXCEPT ![c] = how]
  /\ lock' = NO_CALL
  /\ UNCHANGED <<tool, source, target>>

Reap(i) == process[i] = "exited" /\ process' = [process EXCEPT ![i] = "reaped"]

(* Drop for RdkQemuFiles *)
RemoveFiles == copies' = NO_INSTANCE

(* ensure_regular_file comes before the lock is taken. *)
Begin(c) ==
  /\ step[c] = "idle"
  /\ \E t \in {"start", "exec", "stop"}, s \in {"image", "copy"} :
       /\ t # "start" => s = "image"
       /\ tool' = [tool EXCEPT ![c] = t] /\ source' = [source EXCEPT ![c] = s]
       /\ \/ /\ s = "copy" /\ copies = NO_INSTANCE
             /\ step' = [step EXCEPT ![c] = "done"]
             /\ outcome' = [outcome EXCEPT ![c] = "not accessible"]
          \/ /\ s = "copy" => copies # NO_INSTANCE
             /\ step' = [step EXCEPT ![c] = "lock"]
             /\ UNCHANGED outcome
  /\ UNCHANGED <<lock, slot, target, process, killed, copies>>

Acquire(c) ==
  /\ Goto(c, "lock", "begin")
  /\ lock = NO_CALL /\ lock' = c
  /\ UNCHANGED <<slot, tool, source, target, outcome, process, killed, copies>>

(* Mutation of StartTakes: the previous instance is left in the slot. *)
StartKeeps(c) ==
  /\ tool[c] = "start"
  /\ Goto(c, "begin", "prepare")
  /\ UNCHANGED <<lock, slot, tool, source, target, outcome, process, killed, copies>>

(* start: a previous instance is taken out of the slot and shut down. *)
StartTakes(c) ==
  /\ tool[c] = "start"
  /\ Goto(c, "begin", IF slot = NO_INSTANCE THEN "prepare" ELSE "probe")
  /\ target' = [target EXCEPT ![c] = slot]
  /\ slot' = NO_INSTANCE
  /\ UNCHANGED <<lock, tool, source, outcome, process, killed, copies>>

StopTakes(c) ==
  /\ tool[c] = "stop" /\ step[c] = "begin"
  /\ \/ /\ slot = NO_INSTANCE
        /\ Return(c, "not running")
        /\ UNCHANGED slot
     \/ /\ slot # NO_INSTANCE
        /\ Goto(c, "begin", "probe")
        /\ target' = [target EXCEPT ![c] = slot]
        /\ slot' = NO_INSTANCE
        /\ UNCHANGED <<lock, tool, source, outcome>>
  /\ UNCHANGED <<process, killed, copies>>

(* exec: the lock is held to look at the instance, and no longer; one that *)
(* has exited is dropped, with its files.                                  *)
ExecTakes(c) ==
  /\ tool[c] = "exec" /\ step[c] = "begin"
  /\ \/ /\ slot = NO_INSTANCE
        /\ Return(c, "not running")
        /\ UNCHANGED <<slot, process, copies>>
     \/ /\ slot # NO_INSTANCE
        /\ Reap(slot)
        /\ slot' = NO_INSTANCE
        /\ RemoveFiles
        /\ Return(c, "exited")
     \/ /\ slot # NO_INSTANCE
        /\ process[slot] = "running"
        /\ step' = [step EXCEPT ![c] = "ping"]
        /\ target' = [target EXCEPT ![c] = slot]
        /\ lock' = NO_CALL
        /\ UNCHANGED <<slot, tool, source, outcome, process, copies>>
  /\ UNCHANGED killed

(* Both need the agent, which a stop may take away at any time. *)
ExecPing(c) ==
  /\ step[c] = "ping"
  /\ \/ process[target[c]] = "running" /\ Goto(c, "ping", "execute") /\ UNCHANGED outcome
     \/ Goto(c, "ping", "done") /\ outcome' = [outcome EXCEPT ![c] = "agent stopped answering"]
  /\ UNCHANGED <<lock, slot, tool, source, target, process, killed, copies>>

ExecReturns(c) ==
  /\ Goto(c, "execute", "done")
  /\ outcome' = [outcome EXCEPT ![c] = "executed"]
  /\ UNCHANGED <<lock, slot, tool, source, target, process, killed, copies>>

-----------------------------------------------------------------------------
(* RdkQemuInstance::shutdown, one step per await. *)

Climb(c, from, to) ==
  /\ Goto(c, from, to)
  /\ UNCHANGED <<lock, slot, tool, source, target, outcome, process, killed, copies>>

(* shutdown returns, which drops the instance: stop is done, start goes on. *)
ShutDown(c) ==
  /\ RemoveFiles
  /\ \/ tool[c] = "stop" /\ Return(c, "stopped")
     \/ /\ tool[c] = "start"
        /\ step' = [step EXCEPT ![c] = "prepare"]
        /\ target' = [target EXCEPT ![c] = NO_INSTANCE]
        /\ UNCHANGED <<lock, tool, source, outcome>>
  /\ UNCHANGED <<slot, killed>>

(* child.try_wait, child.wait within its time, or kill's own wait. *)
Exited(c) ==
  /\ step[c] \in {"probe", "power_off", "sigterm", "sigkill"}
  /\ Reap(target[c])
  /\ ShutDown(c)

StillRuns(c) == Climb(c, "probe", "ask") /\ process[target[c]] = "running"

(* power_off: the agent answered a ping and was asked, or it was not. *)
Ask(c) ==
  \/ Climb(c, "ask", "power_off") /\ process[target[c]] = "running"
  \/ Climb(c, "ask", "terminate")

PowerOffTimeout(c) == Climb(c, "power_off", "terminate")

(* terminate: SIGTERM, which QEMU may ignore. *)
Terminate(c) == Climb(c, "terminate", "sigterm") \/ Climb(c, "terminate", "kill")

(* Mutation of TermTimeout: SIGTERM is tried again. *)
TermAgain(c) == Climb(c, "sigterm", "terminate")

TermTimeout(c) == Climb(c, "sigterm", "kill")

(* Mutation of Kill: start_kill, which does not wait. *)
KillNoWait(c) ==
  /\ step[c] = "kill"
  /\ killed' = killed \union {target[c]}
  /\ RemoveFiles
  /\ \/ tool[c] = "stop" /\ Return(c, "stopped")
     \/ /\ tool[c] = "start"
        /\ step' = [step EXCEPT ![c] = "prepare"]
        /\ target' = [target EXCEPT ![c] = NO_INSTANCE]
        /\ UNCHANGED <<lock, tool, source, outcome>>
  /\ UNCHANGED <<slot, process>>

Kill(c) ==
  /\ Goto(c, "kill", "sigkill")
  /\ killed' = killed \union {target[c]}
  /\ UNCHANGED <<lock, slot, tool, source, target, outcome, process, copies>>

-----------------------------------------------------------------------------
(* start: the files, the process, the boot. *)

Fresh == {i \in Instance : process[i] = "none" /\ copies # i}

(* RdkQemuFiles::prepare.  An image that is the working copy is refused if *)
(* it is still there, and cannot be copied if it is not.                   *)
Prepare(c) ==
  /\ step[c] = "prepare"
  /\ \/ Return(c, "refused") /\ UNCHANGED copies
     \/ /\ source[c] = "copy" => copies = NO_INSTANCE
        /\ RemoveFiles
        /\ Return(c, "copy failed")
     \/ /\ source[c] = "image"
        /\ \E i \in Fresh : copies' = i /\ target' = [target EXCEPT ![c] = i]
        /\ Goto(c, "prepare", "spawn")
        /\ UNCHANGED <<lock, tool, source, outcome>>
  /\ UNCHANGED <<slot, process, killed>>

Spawn(c) ==
  /\ step[c] = "spawn"
  /\ \/ /\ process' = [process EXCEPT ![target[c]] = "running"]
        /\ Goto(c, "spawn", "boot")
        /\ UNCHANGED <<lock, tool, source, target, outcome, copies>>
     \/ Return(c, "spawn failed") /\ RemoveFiles /\ UNCHANGED process
  /\ UNCHANGED <<slot, killed>>

(* wait_for_agent: the agent was initialized ... *)
Booted(c) ==
  /\ step[c] = "boot"
  /\ slot' = target[c]
  /\ Return(c, "started")
  /\ UNCHANGED <<process, killed, copies>>

(* ... or QEMU exited ... *)
BootExits(c) ==
  /\ step[c] = "boot"
  /\ Reap(target[c])
  /\ RemoveFiles
  /\ Return(c, "exited during boot")
  /\ UNCHANGED <<slot, killed>>

(* Mutation of BootFails: the child is dropped without kill_on_drop. *)
BootFailsAlive(c) ==
  /\ step[c] = "boot"
  /\ RemoveFiles
  /\ Return(c, "boot failed")
  /\ UNCHANGED <<slot, process, killed>>

(* Mutation of BootFails: what the slot holds is killed. *)
BootFailsKillsSlot(c) ==
  /\ step[c] = "boot"
  /\ killed' = killed \union {slot}
  /\ RemoveFiles
  /\ Return(c, "boot failed")
  /\ UNCHANGED <<slot, process>>

(* ... or the time was up, or the console closed: the child is dropped and *)
(* with it killed, but nobody waits for its end.                           *)
BootFails(c) ==
  /\ step[c] = "boot"
  /\ killed' = killed \union {target[c]}
  /\ RemoveFiles
  /\ Return(c, "boot failed")
  /\ UNCHANGED <<slot, process>>

-----------------------------------------------------------------------------
(* QEMU exits, and a dropped child is reaped by the runtime. *)

QemuExits(i) ==
  /\ process[i] = "running"
  /\ process' = [process EXCEPT ![i] = "exited"]
  /\ UNCHANGED <<lock, slot, callVars, killed, copies>>

OrphanReaped(i) ==
  /\ i \in killed /\ ~\E c \in Call : target[c] = i /\ step[c] = "sigkill"
  /\ Reap(i)
  /\ UNCHANGED <<lock, slot, callVars, killed, copies>>

LadderNext(c) ==
  Exited(c) \/ StillRuns(c) \/ Ask(c) \/ PowerOffTimeout(c) \/ Terminate(c)
    \/ TermTimeout(c) \/ Kill(c)
StartNext(c) == StartTakes(c) \/ Prepare(c) \/ Spawn(c) \/ Booted(c) \/ BootExits(c) \/ BootFails(c)
ExecNext(c)  == ExecTakes(c) \/ ExecPing(c) \/ ExecReturns(c)
CallNext(c)  == Begin(c) \/ Acquire(c) \/ StopTakes(c) \/ StartNext(c) \/ ExecNext(c) \/ LadderNext(c)

Next == (\E c \in Call : CallNext(c)) \/ \E i \in Instance : QemuExits(i) \/ OrphanReaped(i)

Spec == Init /\ [][Next]_vars

(* Every wait of a call has a timeout, except the one after SIGKILL, which *)
(* nothing survives; the mutex is handed to those who wait in turn.  That  *)
(* holds as long as the client takes its progress notifications and the    *)
(* writer of the agent connection comes free: HostAgent.tla is about both. *)
Fairness ==
  /\ \A c \in Call :
       WF_vars(Acquire(c)) /\
       WF_vars(StopTakes(c) \/ StartNext(c) \/ ExecNext(c) \/ LadderNext(c))
  /\ \A i \in Instance : WF_vars(i \in killed /\ QemuExits(i))

FairSpec == Spec /\ Fairness

-----------------------------------------------------------------------------
(* Every variable has its type. *)
TypeOK ==
  /\ lock \in Call \union {NO_CALL}
  /\ slot \in Instance \union {NO_INSTANCE}
  /\ tool \in [Call -> {"start", "exec", "stop"}]
  /\ source \in [Call -> {"image", "copy"}]
  /\ step \in [Call -> {"idle", "lock", "ping", "execute", "done"} \union LockedAt]
  /\ target \in [Call -> Instance \union {NO_INSTANCE}]
  /\ process \in [Instance -> {"none", "running", "exited", "reaped"}]
  /\ killed \subseteq Instance
  /\ copies \in Instance \union {NO_INSTANCE, LEFTOVER}
  /\ outcome \in [Call -> {"none", "not accessible", "not running", "exited",
       "agent stopped answering", "executed", "stopped", "refused", "copy failed",
       "spawn failed", "started", "exited during boot", "boot failed"}]

(* The mutex is held by exactly the call whose step says so; in particular *)
(* an execution does not keep a stop from getting it.                      *)
LockDiscipline == \A c \in Call : lock = c <=> step[c] \in LockedAt

Alive == {i \in Instance : process[i] = "running" /\ i \notin killed}
Handled(i) == \E c \in Call : target[c] = i /\ step[c] \in Ladder \union {"boot"}

(* "a single qemu instance at a time" (main.rs of mcp-server, line 111).   *)
SingleQemu == Cardinality(Alive) <= 1

(* No QEMU is forgotten: it is in the slot, booting, or being shut down.   *)
NoLostQemu == \A i \in Alive : slot = i \/ Handled(i)

(* The working files of an instance that runs are its own and are there:   *)
(* no late removal by an earlier instance has taken them away.             *)
FilesOfTheLiving == \A i \in Alive : copies = i

(* When a stop has returned, QEMU is gone, not just asked to go.           *)
StopMeansGone ==
  [][\A c \in Call : step[c] \in Ladder /\ step'[c] \notin Ladder
       => process'[target[c]] = "reaped"]_vars

(* Every call returns, whatever QEMU and its agent do.                     *)
CallsReturn == \A c \in Call : (step[c] # "idle") ~> (step[c] = "done")

(* "is a working copy qemu boots from" (files.rs, line 100): a start that  *)
(* is asked for a working copy does not touch it.  The code does not       *)
(* provide this: the previous instance is shut down before the check, and  *)
(* that removes the very file, so that the check no longer finds it.       *)
WorkingCopyIsKept ==
  [][\A c \in Call :
       lock = c /\ source[c] = "copy" /\ copies # NO_INSTANCE => copies' # NO_INSTANCE]_vars
=============================================================================
