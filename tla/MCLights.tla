------------------------------ MODULE MCLights ------------------------------
(* Instances of Lights for TLC. *)
EXTENDS Lights
=============================================================================
