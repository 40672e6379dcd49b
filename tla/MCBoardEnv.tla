----------------------------- MODULE MCBoardEnv -----------------------------
(* Instances of BoardEnv for TLC: the identity of d2 names no lanspeed. *)
EXTENDS BoardEnv

MCDevices == {"d1", "d2"}
MCHasParam == [d \in MCDevices |-> IF d = "d1" THEN Params ELSE {"ethaddr"}]
=============================================================================
