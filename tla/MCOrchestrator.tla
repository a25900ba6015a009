--------------------------- MODULE MCOrchestrator ---------------------------
(* Instances of Orchestrator for TLC. *)
EXTENDS Orchestrator

(* How many lines the streams of a command may carry. *)
OneLineEach == [s \in CommandStream |-> 1]
=============================================================================
