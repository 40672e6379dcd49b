-------------------------- MODULE MCBootConfigPair --------------------------
(* Instance of BootConfigPair for TLC. *)
EXTENDS MCBootConfig, BootConfigPair
=============================================================================
