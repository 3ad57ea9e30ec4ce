------------------------------ MODULE MC_Suivi ------------------------------
(***************************************************************************)
(* A small network with the two shapes of junction of the cell: switch 1   *)
(* splits section 1 into 2 (right) and 3 (left), switch 2 joins them into  *)
(* section 1 again: from 2 on its right stop, from 3 on its left one.      *)
(***************************************************************************)
EXTENDS SuiviNavettes

MCTroncons == 1..3
MCAiguillages == 1..2
MCNavettes == 0..1
MCIdAiguillage == <<1, 2, 2>>
MCDroite == <<2, 1, 0>>
MCGauche == <<3, 0, 1>>
MCFileInitiale == <<<<0>>, <<1>>, <<>>>>
MCTronconsPoste == {2}
MCAigInitial == <<"D", "D">>
MCCommandes == MCAiguillages

(* The run without hypotheses asks nothing of the service, and keeps        *)
(* switch 2 on its right stop: a shuttle that comes from section 3 then     *)
(* leaves a queue that has no successor on that side.                       *)
SansPoste == {}
CommandesLibre == {1}

=============================================================================
