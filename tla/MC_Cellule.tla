----------------------------- MODULE MC_Cellule -----------------------------
(***************************************************************************)
(* The tracking on the tables of the real cell, with one shuttle (what two *)
(* shuttles do to each other is the subject of MC_Suivi).  All the         *)
(* switches start on their right stop, which closes the outer loop; the    *)
(* command moves switches 1 and 2, which open and close the bypass through *)
(* PS4.  The service is left to MC_Suivi.                                  *)
(***************************************************************************)
EXTENDS SuiviNavettes, Cellule

NavettesCellule == {0}
FilesCellule == FilesAuDemarrage(1)
AigCellule == [a \in AiguillagesCellule |-> "D"]
CommandesCellule == {1, 2}
SansPoste == {}

(* The sections a shuttle of section t may come to be in. *)
VoisinsCellule(S) ==
    S \cup UNION {{DroiteCellule[t], GaucheCellule[t]} \ {0} : t \in S}

(* shuttle_at_poste and liste_file are two tables that must agree: the     *)
(* queue of place 3 of a robot is the one that gets a shuttle that leaves  *)
(* place 2, so that the robot finds it again one place further.            *)
PlacesSuivies ==
    [][\A r \in 1..4 :
         LET avant == NumCapteur(r, 2)
             apres == NumCapteur(r, 3)
         IN  etape # "attente" /\ file'[avant] # file[avant] /\ file[avant] # <<>>
             => file'[apres] = Append(file[apres], Head(file[avant]))]_vars

(* Wherever a shuttle is, the switches can be set so that it comes to any  *)
(* place and any section: no row of liste_file is a trap.                  *)
ToutAccessible ==
    \A t \in TronconsCellule :
        LET atteint[k \in 0..34] ==
              IF k = 0 THEN {t} ELSE VoisinsCellule(atteint[k - 1])
        IN  voie[t] # <<>> => atteint[34] = TronconsCellule
=============================================================================
