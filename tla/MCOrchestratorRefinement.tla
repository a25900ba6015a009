---------------------- MODULE MCOrchestratorRefinement ----------------------
(* Instances of OrchestratorRefinement for TLC. *)
EXTENDS OrchestratorRefinement

(* Three lines on one stream can leave a gap; another stream stays silent *)
(* and has to be waited for all the same.                                  *)
OneStreamSpeaks ==
  LET speaker == CHOOSE s \in CommandStream : TRUE
  IN [s \in CommandStream |-> IF s = speaker THEN 3 ELSE 0]
=============================================================================
