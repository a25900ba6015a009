--------------------------- MODULE AgentProtocol ---------------------------
(***************************************************************************)
(* What the guest agent promises a host about the answers it receives, and *)
(* nothing about how: the enums of mcp-qemu-agent-proto/src/lib.rs and the *)
(* order in which mcp-qemu-agent may send them.  Orchestrator.tla is shown *)
(* to implement it; HostAgent.tla is written against it.                   *)
(***************************************************************************)
EXTENDS Naturals, Sequences

CONSTANTS RequestId, CommandId, CommandStream, Session

VARIABLES
  wire,     \* the answers received so far
  barrier,  \* the request that announced the session in force, 0 for none
  live,     \* the commands that were started and have not ended
  lines     \* lines[r][s]: how many lines of stream s have been received

vars == <<wire, barrier, live, lines>>

Init ==
  /\ wire = <<>> /\ barrier = 0 /\ live = {}
  /\ lines = [r \in RequestId |-> [s \in CommandStream |-> 0]]

Receive(id, content) == wire' = Append(wire, [id |-> id, content |-> content])

(* A request is answered after those asked before it. *)
InTurn(id) ==
  \A i \in DOMAIN wire :
    wire[i].content.type \in {"Initialized", "GenericResult"} => wire[i].id < id

(* A session is announced.  If it is a new one, no command goes on. *)
Announce(id, s) ==
  /\ InTurn(id)
  /\ Receive(id, [type |-> "Initialized", session |-> s])
  /\ \/ barrier' = id /\ live' = {}
     \/ /\ barrier # 0
        /\ \E i \in DOMAIN wire : wire[i].id = barrier /\ wire[i].content.session = s
        /\ UNCHANGED <<barrier, live>>
  /\ UNCHANGED lines

(* A request succeeds or fails; one that succeeds may start a command. *)
Result(id, ok) ==
  /\ InTurn(id)
  /\ Receive(id, [type |-> "GenericResult", success |-> ok])
  /\ live' \in {live, IF ok THEN live \union {id} ELSE live}
  /\ UNCHANGED <<barrier, lines>>

(* The next line of a stream of a command that is live. *)
Output(id, c, s) ==
  /\ id \in live
  /\ lines' = [lines EXCEPT ![id][s] = @ + 1]
  /\ Receive(id, [type |-> "CommandOutput", command |-> c, stream |-> s,
                  line |-> lines'[id][s]])
  /\ UNCHANGED <<barrier, live>>

(* The end of a command: it is heard of no more. *)
Finish(id, c) ==
  /\ id \in live
  /\ live' = live \ {id}
  /\ Receive(id, [type |-> "CommandFinished", command |-> c])
  /\ UNCHANGED <<barrier, lines>>

Next ==
  \E id \in RequestId :
    \/ \E s \in Session : Announce(id, s)
    \/ \E ok \in BOOLEAN : Result(id, ok)
    \/ \E c \in CommandId :
         Finish(id, c) \/ \E s \in CommandStream : Output(id, c, s)

Spec == Init /\ [][Next]_vars
=============================================================================
