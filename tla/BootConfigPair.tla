--------------------------- MODULE BootConfigPair ---------------------------
(***************************************************************************)
(* Instances of the tool that overlap in every way, and what is left of    *)
(* their work for an instance that nobody disturbs.  The history variable  *)
(* alone notes the instances that have overlapped with no other.           *)
(***************************************************************************)
EXTENDS BootConfig

VARIABLE alone

Off(p) == pc[p] = "off"
Joins(p) == Off(p) /\ ~Off(p)'

PairInit == Init /\ alone = [p \in Procs |-> FALSE]
PairNext ==
  /\ Next
  /\ alone' = [p \in Procs |->
       /\ ~Off(p)'
       /\ IF Off(p) THEN \A q \in Procs \ {p} : Off(q)
                    ELSE alone[p] /\ \A q \in Procs \ {p} : ~Joins(q)]
PairSpec == PairInit /\ [][PairNext]_<<vars, alone>>

\* Two sets that overlap may spoil blocks, lose one another's result and leave
\* two configurations of one epoch; a set or a healthy command that afterwards
\* runs undisturbed still does what it reports.
UndisturbedTakesEffect ==
  \A p \in Procs : alone[p] => SetTookEffect(p) /\ HealthyTookEffect(p)
=============================================================================
