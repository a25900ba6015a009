--------------------------- MODULE MCInstanceBoot ---------------------------
(* Instances of InstanceBoot for TLC. *)
EXTENDS InstanceBoot

(* After the prompt STDOUT carries enough to fill channel, pump and pipe.  *)
LinesForOne == [s \in Stream |-> IF s = STDOUT THEN 4 ELSE 1]
=============================================================================
