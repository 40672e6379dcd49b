---------------------------- MODULE MCAutomount ----------------------------
(* An instance of Automount for TLC. *)
EXTENDS Automount

OneInTen == {<<"sda1", "sda10">>}
=============================================================================
