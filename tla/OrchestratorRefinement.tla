----------------------- MODULE OrchestratorRefinement -----------------------
(***************************************************************************)
(* Orchestrator implements AgentProtocol: the answers that the writer took *)
(* are the wire, and the rest of the abstract state is read off them and   *)
(* off the children that were spawned.                                     *)
(***************************************************************************)
EXTENDS Orchestrator

Received(wire, r, type) ==
  {i \in DOMAIN wire : wire[i].id = r /\ wire[i].content.type = type}

AnnouncedBy(wire) ==
  {wire[i].id : i \in {j \in DOMAIN wire : Switches(wire, j)}}

(* The latest request that announced a new session. *)
BarrierOn(wire) ==
  IF AnnouncedBy(wire) = {} THEN 0
  ELSE CHOOSE id \in AnnouncedBy(wire) : \A other \in AnnouncedBy(wire) : other <= id

Spawned == {r \in RequestId : pid[r] # NO_GROUP}

(* Of the spawned, those that the host was told of after the barrier and   *)
(* whose end it was not told.                                              *)
LiveOn(wire, spawned) ==
  {r \in spawned :
     /\ r > BarrierOn(wire)
     /\ Received(wire, r, "GenericResult") # {}
     /\ Received(wire, r, "CommandFinished") = {}}

LinesOn(wire) ==
  [r \in RequestId |-> [s \in CommandStream |->
     Cardinality({i \in Received(wire, r, "CommandOutput") : wire[i].content.stream = s})]]

Protocol == INSTANCE AgentProtocol
  WITH wire <- answered, barrier <- BarrierOn(answered),
       live <- LiveOn(answered, Spawned), lines <- LinesOn(answered)

(* The host of one opened port receives what the protocol promises: every  *)
(* request answered in its turn, the lines of each stream of a started     *)
(* command in order and without a gap, one end of it, and nothing from a   *)
(* session that was replaced.                                              *)
ImplementsProtocol == Protocol!Spec
=============================================================================
