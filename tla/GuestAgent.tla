----------------------------- MODULE GuestAgent -----------------------------
(***************************************************************************)
(* The guest agent process: it opens the virtio-serial port, serves it     *)
(* with a reader, a writer and an orchestrator until all three have ended, *)
(* and opens it again (mcp-qemu-agent/src/main.rs, main and run_session,   *)
(* over async_port.rs).  The orchestrator and the commands are the actions *)
(* of Orchestrator.tla; only its port actions are replaced by those here.  *)
(*                                                                         *)
(* The port behaves as the guest kernel's virtio console: with no host     *)
(* connected a read returns what is left and then 0, and a write waits.    *)
(***************************************************************************)
EXTENDS Orchestrator

CONSTANTS LINK_CAPACITY,  \* bound: frames on their way from host to agent
          MaxConnects,    \* bound: times a host connects to the port
          MaxOpens        \* bound: times the agent opens the port

ASSUME GuestAssumption ==
  LINK_CAPACITY \in Nat \ {0} /\ MaxConnects \in Nat /\ MaxOpens \in Nat \ {0}

VARIABLES
  connected,  \* a host is connected to the other side of the port
  connects,   \* how many times a host has connected
  inbound,    \* frames the host has sent and the reader has not read
  reader,     \* port_reader_worker: read, send, done
  unsent,     \* the request the reader waits to queue
  writer,     \* port_writer_worker: recv, write, failed, closed
  unwritten,  \* the answer the writer waits to write
  opens,      \* how many times the port has been opened
  stale       \* history: the last request read before the latest opening

hostVars   == <<connected, connects, inbound>>
readerVars == <<reader, unsent>>
writerVars == <<writer, unwritten>>
openVars   == <<opens, stale>>
portVars   == <<hostVars, readerVars, writerVars, openVars>>
guestVars  == <<vars, portVars>>

NO_FRAME == NO_PACKET

GuestInit ==
  /\ Init
  /\ connected = FALSE /\ connects = 0 /\ inbound = <<>>
  /\ reader = "read" /\ unsent = NO_FRAME
  /\ writer = "recv" /\ unwritten = NO_FRAME
  /\ opens = 1 /\ stale = 0

-----------------------------------------------------------------------------
(* The host side of the port. *)

HostConnects ==
  /\ ~connected /\ connects < MaxConnects
  /\ connected' = TRUE
  /\ connects' = connects + 1
  /\ UNCHANGED <<vars, inbound, readerVars, writerVars, openVars>>

HostDisconnects ==
  /\ connected
  /\ connected' = FALSE
  /\ UNCHANGED <<vars, connects, inbound, readerVars, writerVars, openVars>>

HostSends ==
  /\ connected
  /\ Len(inbound) < LINK_CAPACITY
  /\ sent + 1 \in RequestId
  /\ sent' = sent + 1
  /\ \E content \in HostRequest :
       inbound' = Append(inbound, [id |-> sent', content |-> content])
  /\ UNCHANGED <<messages, channel, taskVars, ioVars, orchVars, answered,
                 connected, connects, readerVars, writerVars, openVars>>

-----------------------------------------------------------------------------
(* port_reader_worker *)

(* A frame is read; one that does not decode is skipped. *)
ReaderReads ==
  /\ reader = "read"
  /\ inbound # <<>>
  /\ inbound' = Tail(inbound)
  /\ \/ reader' = "send" /\ unsent' = Head(inbound)
     \/ UNCHANGED readerVars
  /\ UNCHANGED <<vars, connected, connects, writerVars, openVars>>

(* The reader returns and drops request_tx. *)
ReaderReturns ==
  /\ reader' = "done"
  /\ unsent' = NO_FRAME
  /\ requestsOpen' = FALSE
  /\ UNCHANGED <<messages, channel, taskVars, requests, responses,
                 responsesOpen, orchVars, histVars, hostVars, writerVars, openVars>>

(* The host closed the port, or the port failed. *)
ReaderEof   == reader = "read" /\ inbound = <<>> /\ ~connected /\ ReaderReturns
ReaderFails == reader = "read" /\ ReaderReturns

(* Mutation of ReaderClosed: tx.closed() is not awaited while reading. *)
ReaderClosedLate == reader = "send" /\ orch = "done" /\ ReaderReturns

(* tx.closed(), or a failed tx.send: the orchestrator is gone. *)
ReaderClosed == reader \in {"read", "send"} /\ orch = "done" /\ ReaderReturns

ReaderSends ==
  /\ reader = "send" /\ orch # "done"
  /\ Len(requests) < CHANNEL_CAPACITY
  /\ requests' = Append(requests, unsent)
  /\ reader' = "read"
  /\ unsent' = NO_FRAME
  /\ UNCHANGED <<messages, channel, taskVars, requestsOpen, responses,
                 responsesOpen, orchVars, histVars, hostVars, writerVars, openVars>>

-----------------------------------------------------------------------------
(* port_writer_worker *)

WriterReceives ==
  /\ writer = "recv"
  /\ responses # <<>>
  /\ responses' = Tail(responses)
  /\ unwritten' = Head(responses)
  /\ writer' = "write"
  /\ UNCHANGED <<messages, channel, taskVars, requests, requestsOpen,
                 responsesOpen, orchVars, histVars, hostVars, readerVars, openVars>>

WriterWrites ==
  /\ writer = "write" /\ connected
  /\ answered' = Append(answered, unwritten)
  /\ unwritten' = NO_FRAME
  /\ writer' = "recv"
  /\ UNCHANGED <<messages, channel, taskVars, ioVars, orchVars, sent,
                 hostVars, readerVars, openVars>>

(* The writer returns and drops response_rx with what is queued in it. *)
WriterReturns(how) ==
  /\ writer' = how
  /\ unwritten' = NO_FRAME
  /\ responses' = <<>>
  /\ responsesOpen' = FALSE
  /\ UNCHANGED <<messages, channel, taskVars, requests, requestsOpen,
                 orchVars, histVars, hostVars, readerVars, openVars>>

WriterFails  == writer = "write" /\ WriterReturns("failed")

(* Mutation of WriterClosed: the writer stops with answers still queued. *)
WriterClosedEarly == writer = "recv" /\ orch = "done" /\ WriterReturns("closed")

(* recv() is None once the orchestrator is gone and its answers are taken. *)
WriterClosed == writer = "recv" /\ responses = <<>> /\ orch = "done" /\ WriterReturns("closed")

-----------------------------------------------------------------------------
(* join_all, the pause, and run_session over a port opened anew.  An open  *)
(* that fails only lets more time pass.                                    *)
Reopen ==
  /\ orch = "done" /\ reader = "done" /\ writer \in {"failed", "closed"}
  /\ opens < MaxOpens
  /\ opens' = opens + 1
  /\ stale' = sent - Len(inbound)
  /\ requestsOpen' = TRUE /\ responsesOpen' = TRUE
  /\ orch' = "select"
  /\ reader' = "read" /\ writer' = "recv"
  /\ UNCHANGED <<messages, channel, taskVars, requests, responses, session,
                 tasks, held, unsent, unwritten, histVars, hostVars>>

-----------------------------------------------------------------------------
HostNext   == HostConnects \/ HostDisconnects \/ HostSends
ReaderNext == ReaderReads \/ ReaderEof \/ ReaderFails \/ ReaderClosed \/ ReaderSends
WriterNext == WriterReceives \/ WriterWrites \/ WriterFails \/ WriterClosed
AgentNext  == (OrchNext \/ \E r \in RequestId : CommandNext(r)) /\ UNCHANGED portVars

GuestNext == HostNext \/ ReaderNext \/ WriterNext \/ AgentNext \/ Reopen
GuestSpec == GuestInit /\ [][GuestNext]_guestVars

(* The runtime polls every worker that can go on; nothing is asked of the  *)
(* host, and a worker need not fail.                                       *)
GuestFairness ==
  /\ WF_guestVars(ReaderReads) /\ WF_guestVars(ReaderSends)
  /\ WF_guestVars(ReaderEof) /\ WF_guestVars(ReaderClosed)
  /\ WF_guestVars(WriterReceives \/ WriterWrites \/ WriterClosed)
  /\ WF_guestVars(Reopen)
  /\ WF_guestVars(OrchNext /\ UNCHANGED portVars)

GuestFairSpec == GuestSpec /\ GuestFairness

-----------------------------------------------------------------------------
(* Every variable has its type. *)
GuestTypeOK ==
  /\ TypeOK
  /\ connected \in BOOLEAN /\ connects \in 0..MaxConnects
  /\ inbound \in Seq(AgentPacket(HostRequest)) /\ Len(inbound) <= LINK_CAPACITY
  /\ reader \in {"read", "send", "done"}
  /\ unsent \in AgentPacket(HostRequest) \union {NO_FRAME}
  /\ writer \in {"recv", "write", "failed", "closed"}
  /\ unwritten \in AgentPacket(GuestResponse) \union {NO_FRAME}
  /\ opens \in 1..MaxOpens /\ stale \in Nat

(* The barrier of a new session holds for what reaches the port, however   *)
(* often the port was lost and opened again in between.                    *)
PortBarrier ==
  NothingOlderAfterSwitch(answered
    \o (IF writer = "write" THEN <<unwritten>> ELSE <<>>) \o responses
    \o (IF orch = "send" /\ responsesOpen THEN <<held>> ELSE <<>>))

(* A port that was opened anew carries nothing of the time before: every   *)
(* answer on its way to it is to a request that was read from it, although *)
(* commands of the lost port may still be running and writing.  The types  *)
(* of the variables go with it.                                            *)
PortIsClean ==
  /\ GuestTypeOK
  /\ writer = "write" => unwritten.id > stale
  /\ orch = "send" => held.id > stale
  /\ \A i \in DOMAIN responses : responses[i].id > stale
  /\ \A i \in DOMAIN messages :
       messages[i].type = "GuestResponse" => messages[i].response.id > stale

WaitsForHost == writer = "write" /\ ~connected

(* When the port is lost, the agent opens it again, unless the writer      *)
(* waits for a host to take the answer it is writing.                      *)
PortIsReopened ==
  (orch = "done" /\ opens < MaxOpens) ~> (orch # "done" \/ WaitsForHost)

(* A request that was read is answered, even if the host left meanwhile,   *)
(* unless a write failed or still waits for a host.                        *)
ReadRequestIsAnswered ==
  \A r \in RequestId :
    (reader = "send" /\ unsent.id = r /\ orch # "done" /\ responsesOpen)
      ~> (\/ writer = "failed" \/ WaitsForHost
          \/ \E i \in DOMAIN answered : answered[i].id = r)
=============================================================================
