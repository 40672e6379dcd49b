--------------------------- MODULE MCUBootUpdate ---------------------------
(* Instances of UBootUpdate for TLC. *)
EXTENDS UBootUpdate

Good == [fit |-> "signed", uImage |-> FALSE, works |-> TRUE]
Hangs == [fit |-> "signed", uImage |-> FALSE, works |-> FALSE]
Unsigned == [fit |-> "unsigned", uImage |-> FALSE, works |-> TRUE]

MCImages == {Good, Hangs, Unsigned}
Boards == {[closed |-> FALSE, retains |-> FALSE], [closed |-> FALSE, retains |-> TRUE],
           [closed |-> TRUE, retains |-> TRUE]}
AnyReport == HabReport
=============================================================================
