--------------------------- MODULE MC_Aiguillages ---------------------------
(***************************************************************************)
(* Two switches, both on their right stop at the start.                    *)
(***************************************************************************)
EXTENDS OrdresAiguillages

MCAiguillages == 1..2
UnAiguillage == {1}
MCAigInitial == [a \in Aiguillages |-> "D"]
=============================================================================
