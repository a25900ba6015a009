---------------------------- MODULE MCQemuManager ----------------------------
(* Instances of QemuManager for TLC. *)
EXTENDS QemuManager
===========================================================================
