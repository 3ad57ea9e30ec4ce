---------------------------- MODULE MC_Commande -----------------------------
(***************************************************************************)
(* The cell of main_ShuttleManager.cpp and main_commande.cpp: two shuttles *)
(* (nbNavettes), all the switches on their right stop at the start.        *)
(***************************************************************************)
EXTENDS CelluleCommandee

MCNavettes == 0..1
MCFiles == FilesAuDemarrage(2)
MCAigInitial == [a \in AiguillagesCellule |-> "D"]
MCPostes == {}
=============================================================================
