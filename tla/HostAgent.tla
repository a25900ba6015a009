----------------------------- MODULE HostAgent -----------------------------
(***************************************************************************)
(* The host's end of the agent connection: the tool calls that share one   *)
(* RdkQemuAgent (mcp-server/src/tools/other/rdk_qemu/agent/mod.rs) and the *)
(* command execution loop (agent/command_exec.rs).                         *)
(*                                                                         *)
(* A call is a ping (request) or an execution (CommandExecTask::run).  It  *)
(* names its request id and its command id, both of which are fresh per    *)
(* call.  The calls and the pump run on a multi-threaded runtime: a step   *)
(* is what one of them does between two awaits.  The guest is what         *)
(* Orchestrator.tla makes of it: one loop that answers each request before *)
(* it takes the next, and does nothing while its answers have no room.     *)
(***************************************************************************)
EXTENDS Naturals, Sequences, FiniteSets

CONSTANTS Call,             \* the tool calls
          NO_CALL,          \* nobody, and the id of an answer nobody awaits
          EXEC_CAPACITY,    \* events an execution's channel holds
          TO_GUEST,         \* bound: requests the link holds
          TO_HOST,          \* bound: answers the link holds
          MaxLines          \* bound: lines a command puts out

ASSUME HostAssumption ==
  /\ NO_CALL \notin Call
  /\ {EXEC_CAPACITY, TO_GUEST, TO_HOST} \subseteq Nat \ {0}
  /\ MaxLines \in Nat

VARIABLES
  pc,        \* idle, lock, write, wait, notify, cancel, kill, done
  op,        \* Ping or Exec
  queue,     \* queue[k]: the call's channel
  got,       \* got[k]: output lines the call has taken from it
  expired,   \* expired[k]: the call's timeout has passed
  result,    \* result[k]: what the call returned
  pending,   \* RdkQemuAgent::pending, the calls registered
  locked,    \* its lock is held by the pump
  writer,    \* who holds the writer mutex
  pump,      \* pump_agent: read, send, done
  parcel,    \* the answer it waits to deliver
  link,      \* up, or down once QEMU has closed the socket
  toGuest,   \* requests on their way
  toHost,    \* answers on their way
  guest,     \* guest[k]: the command of k: none, running, dying, over
  emitted    \* emitted[k]: lines the guest has sent for k

callVars  == <<pc, op, got, expired, result>>
pumpVars  == <<pump, parcel>>
linkVars  == <<link, toGuest, toHost>>
guestVars == <<guest, emitted>>
vars == <<callVars, queue, pending, locked, writer, pumpVars, linkVars, guestVars>>

Answer(id, type) == [id |-> id, type |-> type]
Request(k, type) == [call |-> k, type |-> type]

Capacity(k) == IF op[k] = "Ping" THEN 1 ELSE EXEC_CAPACITY

Init ==
  /\ pc = [k \in Call |-> "idle"]
  /\ op = [k \in Call |-> "Ping"]
  /\ queue = [k \in Call |-> <<>>]
  /\ got = [k \in Call |-> 0]
  /\ expired = [k \in Call |-> FALSE]
  /\ result = [k \in Call |-> "none"]
  /\ pending = {} /\ locked = FALSE /\ writer = NO_CALL
  /\ pump = "read" /\ parcel = Answer(NO_CALL, "none")
  /\ link = "up" /\ toGuest = <<>> /\ toHost = <<>>
  /\ guest = [k \in Call |-> "none"]
  /\ emitted = [k \in Call |-> 0]

-----------------------------------------------------------------------------
(* A call. *)

Goto(k, from, to) == pc[k] = from /\ pc' = [pc EXCEPT ![k] = to]

(* register *)
Start(k) ==
  /\ ~locked
  /\ Goto(k, "idle", "lock")
  /\ \E o \in {"Ping", "Exec"} : op' = [op EXCEPT ![k] = o]
  /\ pending' = pending \union {k}
  /\ UNCHANGED <<got, expired, result, queue, locked, writer, pumpVars,
                 linkVars, guestVars>>

(* send: the writer mutex ... *)
LockWriter(k, from, to) ==
  /\ writer = NO_CALL
  /\ Goto(k, from, to)
  /\ writer' = k
  /\ UNCHANGED <<op, got, expired, result, queue, pending, locked, pumpVars,
                 linkVars, guestVars>>

(* Mutation of Return: the registration is left behind. *)
ReturnRegistered(k, from, how) ==
  /\ Goto(k, from, "done")
  /\ result' = [result EXCEPT ![k] = how]
  /\ queue' = [queue EXCEPT ![k] = <<>>]
  /\ UNCHANGED <<pending, op, expired, locked>>

(* A return of the call, which drops its channel and, by the guard, its    *)
(* registration; both need the lock of the map.                            *)
Return(k, from, how) ==
  /\ ~locked
  /\ Goto(k, from, "done")
  /\ result' = [result EXCEPT ![k] = how]
  /\ queue' = [queue EXCEPT ![k] = <<>>]
  /\ pending' = pending \ {k}
  /\ UNCHANGED <<op, expired, locked>>

(* ... and the write, which waits for room and fails on a closed socket.   *)
WriteRequest(k) ==
  /\ \/ /\ link = "up" /\ Len(toGuest) < TO_GUEST
        /\ Goto(k, "write", "wait")
        /\ toGuest' = Append(toGuest, Request(k, op[k]))
        /\ UNCHANGED <<op, expired, locked, result, queue, pending>>
     \/ /\ link = "down"
        /\ Return(k, "write", "failed")
        /\ UNCHANGED toGuest
  /\ writer' = NO_CALL
  /\ UNCHANGED <<got, pumpVars, link, toHost, guestVars>>

(* The timer of the call runs out. *)
Expire(k) ==
  /\ pc[k] \in {"wait", "notify"} /\ ~expired[k]
  /\ expired' = [expired EXCEPT ![k] = TRUE]
  /\ UNCHANGED <<pc, op, got, result, queue, pending, locked, writer, pumpVars,
                 linkVars, guestVars>>

(* request: the answer of a ping, the end of the channel, or the timeout.  *)
SenderGone(k) == queue[k] = <<>> /\ k \notin pending /\ ~(pump = "send" /\ parcel.id = k)

PingReturns(k) ==
  /\ op[k] = "Ping"
  /\ \/ queue[k] # <<>> /\ Return(k, "wait", "answered")
     \/ SenderGone(k) /\ Return(k, "wait", "failed")
     \/ expired[k] /\ Return(k, "wait", "timeout")
  /\ UNCHANGED <<got, writer, pumpVars, linkVars, guestVars>>

(* CommandExecTask, handle_response: a line, a start, an end or a refusal. *)
TakeEvent(k) ==
  /\ op[k] = "Exec" /\ queue[k] # <<>>
  /\ \/ /\ Head(queue[k]) \in {"Output", "Started"}
        /\ Goto(k, "wait", "wait")
        /\ queue' = [queue EXCEPT ![k] = Tail(@)]
        /\ got' = IF Head(queue[k]) = "Output" THEN [got EXCEPT ![k] = @ + 1] ELSE got
        /\ UNCHANGED <<op, expired, locked, result, pending>>
     \/ Head(queue[k]) = "Finished" /\ Return(k, "wait", "finished") /\ UNCHANGED got
     \/ Head(queue[k]) = "Refused" /\ Return(k, "wait", "failed") /\ UNCHANGED got
  /\ UNCHANGED <<writer, pumpVars, linkVars, guestVars>>

ExecLosesAgent(k) ==
  /\ op[k] = "Exec" /\ SenderGone(k)
  /\ Return(k, "wait", "failed")
  /\ UNCHANGED <<got, writer, pumpVars, linkVars, guestVars>>

(* The progress notification, awaited in the loop: nothing else of the     *)
(* call goes on until the client has taken it.                             *)
Notify(k) ==
  /\ op[k] = "Exec" /\ got[k] > 0
  /\ Goto(k, "wait", "notify")
  /\ UNCHANGED <<op, got, expired, result, queue, pending, locked, writer,
                 pumpVars, linkVars, guestVars>>

NotifyTaken(k) ==
  /\ Goto(k, "notify", "wait")
  /\ UNCHANGED <<op, got, expired, result, queue, pending, locked, writer,
                 pumpVars, linkVars, guestVars>>

(* Mutation of GiveUp: the command is left to itself. *)
GiveUpQuietly(k) ==
  /\ op[k] = "Exec"
  /\ expired[k] /\ Return(k, "wait", "timeout")
  /\ UNCHANGED <<got, writer, pumpVars, linkVars, guestVars>>

(* The deadline, or the client's cancellation: cancel() comes first.       *)
GiveUp(k) ==
  /\ op[k] = "Exec"
  /\ Goto(k, "wait", "cancel")
  /\ \E how \in {"cancelled"} \union (IF expired[k] THEN {"timeout"} ELSE {}) :
       result' = [result EXCEPT ![k] = how]
  /\ UNCHANGED <<op, got, expired, queue, pending, locked, writer, pumpVars,
                 linkVars, guestVars>>

WriteKill(k) ==
  /\ \/ /\ link = "up" /\ Len(toGuest) < TO_GUEST
        /\ toGuest' = Append(toGuest, Request(k, "Kill"))
     \/ link = "down" /\ UNCHANGED toGuest
  /\ Return(k, "kill", result[k])
  /\ writer' = NO_CALL
  /\ UNCHANGED <<got, pumpVars, link, toHost, guestVars>>

-----------------------------------------------------------------------------
(* pump_agent *)

(* Mutation of PumpReads: the lock of the map is kept across the send. *)
PumpReadsLocking ==
  /\ pump = "read" /\ toHost # <<>>
  /\ toHost' = Tail(toHost)
  /\ \/ /\ Head(toHost).id \in pending
        /\ pump' = "send" /\ parcel' = Head(toHost) /\ locked' = TRUE
     \/ Head(toHost).id \notin pending /\ UNCHANGED <<pumpVars, locked>>
  /\ UNCHANGED <<callVars, queue, pending, writer, link, toGuest, guestVars>>

(* An answer nobody is registered for is dropped. *)
PumpReads ==
  /\ pump = "read" /\ toHost # <<>>
  /\ toHost' = Tail(toHost)
  /\ \/ /\ Head(toHost).id \in pending
        /\ pump' = "send" /\ parcel' = Head(toHost)
     \/ Head(toHost).id \notin pending /\ UNCHANGED pumpVars
  /\ UNCHANGED <<callVars, queue, pending, locked, writer, link, toGuest, guestVars>>

(* Mutation of PumpDelivers: try_send. *)
PumpTryDelivers ==
  /\ pump = "send"
  /\ LET k == parcel.id
     IN queue' = IF pc[k] # "done" /\ Len(queue[k]) < Capacity(k)
                 THEN [queue EXCEPT ![k] = Append(@, parcel.type)] ELSE queue
  /\ pump' = "read" /\ parcel' = Answer(NO_CALL, "none") /\ locked' = FALSE
  /\ UNCHANGED <<callVars, pending, writer, linkVars, guestVars>>

(* The send waits for room, and fails once the call has dropped its end.   *)
PumpDelivers ==
  /\ pump = "send"
  /\ LET k == parcel.id
     IN \/ /\ pc[k] # "done" /\ Len(queue[k]) < Capacity(k)
           /\ queue' = [queue EXCEPT ![k] = Append(@, parcel.type)]
        \/ pc[k] = "done" /\ UNCHANGED queue
  /\ pump' = "read" /\ parcel' = Answer(NO_CALL, "none") /\ locked' = FALSE
  /\ UNCHANGED <<callVars, pending, writer, linkVars, guestVars>>

(* Mutation of PumpEnds: the map is not cleared. *)
PumpEndsOnly ==
  /\ pump = "read" /\ toHost = <<>> /\ link = "down"
  /\ pump' = "done"
  /\ UNCHANGED <<callVars, queue, pending, locked, writer, parcel, linkVars, guestVars>>

PumpEnds ==
  /\ pump = "read" /\ toHost = <<>> /\ link = "down" /\ ~locked
  /\ pump' = "done"
  /\ pending' = {}
  /\ UNCHANGED <<callVars, queue, locked, writer, parcel, linkVars, guestVars>>

-----------------------------------------------------------------------------
(* The guest: Orchestrator.tla reduced to what the host sees of it. *)

HostSees(answer) ==
  /\ link = "up" /\ Len(toHost) < TO_HOST
  /\ toHost' = Append(toHost, answer)

GuestAnswers ==
  /\ toGuest # <<>>
  /\ toGuest' = Tail(toGuest)
  /\ LET k == Head(toGuest).call
         type == Head(toGuest).type
     IN \/ type = "Ping" /\ HostSees(Answer(k, "Pong")) /\ UNCHANGED guest
        \/ /\ type = "Exec"
           /\ \/ HostSees(Answer(k, "Started")) /\ guest' = [guest EXCEPT ![k] = "running"]
              \/ HostSees(Answer(k, "Refused")) /\ guest' = [guest EXCEPT ![k] = "over"]
        \/ /\ type = "Kill"
           /\ HostSees(Answer(NO_CALL, "Killed"))
           /\ guest' = IF guest[k] = "running" THEN [guest EXCEPT ![k] = "dying"] ELSE guest
  /\ UNCHANGED <<callVars, queue, pending, locked, writer, pumpVars, link, emitted>>

GuestEmits(k) ==
  /\ guest[k] \in {"running", "dying"} /\ emitted[k] < MaxLines
  /\ HostSees(Answer(k, "Output"))
  /\ emitted' = [emitted EXCEPT ![k] = @ + 1]
  /\ UNCHANGED <<callVars, queue, pending, locked, writer, pumpVars, link, toGuest, guest>>

GuestFinishes(k) ==
  /\ guest[k] \in {"running", "dying"}
  /\ HostSees(Answer(k, "Finished"))
  /\ guest' = [guest EXCEPT ![k] = "over"]
  /\ UNCHANGED <<callVars, queue, pending, locked, writer, pumpVars, link, toGuest, emitted>>

(* QEMU goes: what it had already written can still be read. *)
LinkBreaks ==
  /\ link = "up"
  /\ link' = "down"
  /\ toGuest' = <<>>
  /\ guest' = [k \in Call |-> IF guest[k] = "none" THEN "none" ELSE "over"]
  /\ UNCHANGED <<callVars, queue, pending, locked, writer, pumpVars, toHost, emitted>>

-----------------------------------------------------------------------------
SendNext(k) ==
  \/ LockWriter(k, "lock", "write") \/ WriteRequest(k)
  \/ LockWriter(k, "cancel", "kill") \/ WriteKill(k)
LoopNext(k) ==
  PingReturns(k) \/ TakeEvent(k) \/ ExecLosesAgent(k) \/ Notify(k) \/ GiveUp(k)
CallNext(k) == Start(k) \/ SendNext(k) \/ Expire(k) \/ LoopNext(k) \/ NotifyTaken(k)
PumpNext == PumpReads \/ PumpDelivers \/ PumpEnds
GuestNext == GuestAnswers \/ LinkBreaks \/ \E k \in Call : GuestEmits(k) \/ GuestFinishes(k)

Next == PumpNext \/ GuestNext \/ \E k \in Call : CallNext(k)

Spec == Init /\ [][Next]_vars

(* The runtime polls whatever can go on, select! chooses at random among   *)
(* the ready branches of the loop, timers run out, and the guest's loop    *)
(* goes on.  No command need ever end, and no client need cancel.          *)
Fairness ==
  /\ WF_vars(PumpNext)
  /\ WF_vars(GuestAnswers)
  /\ \A k \in Call :
       /\ WF_vars(SendNext(k)) /\ WF_vars(Expire(k))
       /\ WF_vars(PingReturns(k)) /\ WF_vars(ExecLosesAgent(k))
       /\ SF_vars(TakeEvent(k)) /\ SF_vars(GiveUp(k) /\ expired[k])

(* A client that may stop taking progress notifications, or does not.      *)
StalledSpec == Spec /\ Fairness
FairSpec == StalledSpec /\ \A k \in Call : WF_vars(NotifyTaken(k))

-----------------------------------------------------------------------------
(* Every variable has its type. *)
TypeOK ==
  /\ pc \in [Call -> {"idle", "lock", "write", "wait", "notify", "cancel", "kill", "done"}]
  /\ op \in [Call -> {"Ping", "Exec"}]
  /\ queue \in [Call -> Seq({"Pong", "Started", "Refused", "Output", "Finished"})]
  /\ \A k \in Call : Len(queue[k]) <= Capacity(k)
  /\ got \in [Call -> 0..MaxLines] /\ emitted \in [Call -> 0..MaxLines]
  /\ expired \in [Call -> BOOLEAN]
  /\ result \in [Call -> {"none", "answered", "finished", "failed", "timeout", "cancelled"}]
  /\ pending \subseteq Call /\ locked \in BOOLEAN
  /\ writer \in Call \union {NO_CALL}
  /\ pump \in {"read", "send", "done"} /\ parcel.id \in Call \union {NO_CALL}
  /\ link \in {"up", "down"}
  /\ \A i \in DOMAIN toGuest : toGuest[i].call \in Call
  /\ \A i \in DOMAIN toHost : toHost[i].id \in Call \union {NO_CALL}
  /\ guest \in [Call -> {"none", "running", "dying", "over"}]

(* Whatever way a call returns, its registration goes with it. *)
NoPendingLeak == \A k \in pending : pc[k] \notin {"idle", "done"}

(* Once the pump has ended, no call waits on a channel that still has a    *)
(* sender: it sees the end of its channel and need not wait for a timeout. *)
NoDeafWaiter ==
  pump = "done" => \A k \in pending : pc[k] \notin {"wait", "notify"}

(* An execution that reports the end of its command has every line the     *)
(* guest sent before it, and no channel holds more than it has room for.   *)
ExecResultComplete ==
  /\ TypeOK
  /\ \A k \in Call : result[k] = "finished" => got[k] = emitted[k]

(* A call that has returned leaves no command running in the guest: it is  *)
(* over, or its kill is on the way, behind the request that starts it.     *)
NoRunawayCommand ==
  \A k \in Call :
    LET at(type) == {i \in DOMAIN toGuest : toGuest[i] = Request(k, type)}
    IN link = "up" /\ pc[k] = "done" =>
         /\ guest[k] = "running" => at("Kill") # {}
         /\ \A i \in at("Exec") : \E j \in at("Kill") : i < j

-----------------------------------------------------------------------------
(* Every call returns, also when its channel is full or the agent dies.    *)
CallsReturn == \A k \in Call : (pc[k] # "idle") ~> (pc[k] = "done")

(* "seconds to wait before cancelling the command in the guest" (mod.rs of *)
(* rdk_qemu, line 103): once the timeout has passed, the kill is sent.     *)
(* The code does not provide this while the client takes no notification.  *)
TimeoutCancels ==
  \A k \in Call : (op[k] = "Exec" /\ expired[k]) ~> (pc[k] \in {"cancel", "kill", "done"})
=============================================================================
