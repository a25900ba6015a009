---------------------------- MODULE MCGuestAgent ----------------------------
(* Instances of GuestAgent for TLC. *)
EXTENDS GuestAgent

OneLineEach == [s \in CommandStream |-> 1]
=============================================================================
