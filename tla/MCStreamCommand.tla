-------------------------- MODULE MCStreamCommand --------------------------
(* Instances of StreamCommand for TLC. *)
EXTENDS StreamCommand
=============================================================================
