---------------------------- MODULE MCBoardInit ----------------------------
(* Instances of BoardInit for TLC. *)
EXTENDS BoardInit

MCLanspeeds == {<< >>, <<"g">>, <<"g", "f", "f", "g", "f", "g">>}
=============================================================================
