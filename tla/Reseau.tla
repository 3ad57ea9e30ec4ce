------------------------------- MODULE Reseau -------------------------------
(***************************************************************************)
(* The rail network as the nodes see it: sections (one per PS or CP        *)
(* sensor, at whose END the sensor stands), switches, and the successor of *)
(* a section for each end stop of the switch that follows it.              *)
(*                                                                         *)
(* A FileAttente object of the shuttle manager is a row of these tables;   *)
(* Cellule.tla gives them the values of main_ShuttleManager.cpp.           *)
(***************************************************************************)
EXTENDS Integers, Sequences, FiniteSets

CONSTANTS
    Troncons,           \* indices of liste_file, 1..34 in the cell
    Aiguillages,        \* switch numbers, 1..12 in the cell
    Navettes,           \* shuttle numbers, 0 .. NbNavette-1
    id_aiguillage,      \* switch after a section, 0 when there is none
    successeur_droite,  \* next section when that switch is on its right stop
    successeur_gauche,  \* next section when it is on its left stop
    FileInitiale,       \* content of the queues when the manager starts
    TronconsPoste,      \* sections where a robot reaches a shuttle
    AigInitial          \* stop of each switch when the simulation starts

(* 0 is the code's "none": no switch, no successor. *)
ASSUME ReseauAssumption ==
    /\ Troncons \subseteq Nat \ {0}
    /\ IsFiniteSet(Troncons)
    /\ IsFiniteSet(Navettes)
    /\ Aiguillages \subseteq Nat \ {0}
    /\ id_aiguillage \in [Troncons -> Aiguillages \cup {0}]
    /\ successeur_droite \in [Troncons -> Troncons \cup {0}]
    /\ successeur_gauche \in [Troncons -> Troncons \cup {0}]

ASSUME PosteAssumption ==
    /\ TronconsPoste \subseteq Troncons
    /\ AigInitial \in [Aiguillages -> {"D", "G"}]

(* A section without a switch has a successor; no section is its own; with *)
(* a switch at least one stop leads somewhere.                             *)
ASSUME SuccesseurAssumption ==
    \A t \in Troncons :
        /\ id_aiguillage[t] = 0 => successeur_droite[t] # 0
        /\ successeur_droite[t] # 0 \/ successeur_gauche[t] # 0
        /\ successeur_droite[t] # t /\ successeur_gauche[t] # t

(* Each shuttle starts in exactly one queue, at one place of it. *)
ASSUME FileInitialeAssumption ==
    /\ FileInitiale \in [Troncons -> Seq(Navettes)]
    /\ \A s, t \in Troncons :
         \A i \in DOMAIN FileInitiale[s], j \in DOMAIN FileInitiale[t] :
            FileInitiale[s][i] = FileInitiale[t][j] => s = t /\ i = j
    /\ \A n \in Navettes :
         \E t \in Troncons : \E i \in DOMAIN FileInitiale[t] : FileInitiale[t][i] = n

Successeurs(t) == {successeur_droite[t], successeur_gauche[t]} \ {0}
=============================================================================
