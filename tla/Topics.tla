------------------------------- MODULE Topics -------------------------------
(***************************************************************************)
(* The ROS topics between one robot node, the simulator and the command.   *)
(* The publishers keep 10 or 100 messages and the models keep far fewer    *)
(* under way: nothing is dropped.                                          *)
(***************************************************************************)
EXTENDS Integers, Sequences, FiniteSets

CONSTANTS NB_CUBE,        \* cubes on a post or a shuttle
          Navettes,       \* shuttles
          AucuneNavette,  \* answer 66 of the shuttle manager
          numero_poste    \* post number of position 1 and of position 4

ASSUME CubesAssumption ==
    /\ NB_CUBE \in Nat \ {0, 1}
    /\ AucuneNavette \notin Navettes
    /\ numero_poste \in [{1, 4} -> 1..8]

VARIABLES
    requetes,  \* per channel, requests published to the simulator
    entree,    \* messages that reached the robot node, in order of arrival
    sortie,    \* codes published on /commande/Simulation/retourCommande
    cmdPince,  \* last order to the gripper: 1 close, 0 open, -1 none yet
    navette    \* answer of get_id_shuttle_at_poste for each shuttle place

varsTopics == <<requetes, entree, sortie, cmdPince>>

PositionsPoste == {1, 4}
PositionsNavette == {2, 3}
Positions == PositionsPoste \cup PositionsNavette

(* Each service of the simulator is a pair of topics; the robot waits for  *)
(* the answer of a channel on one flag repSim_<channel>.                   *)
Canaux == {"getObjectHandle", "setJointState", "getJointState", "getTime",
           "getTimeUpdate", "getColor", "changeColor", "changeShuttleColor"}

(* A stack of cubes: 0 is no cube, produit*10+4 a product, poste*10+3 the  *)
(* trace of a finished task, poste*10+2 of a task under way.               *)
Produits == {10 * p + 4 : p \in 1..6}
CouleurTache(pos) == 10 * numero_poste[pos] + 3
CouleurEnCours(pos) == CouleurTache(pos) - 1

Couleurs ==
    {0} \cup Produits \cup {CouleurTache(p) : p \in PositionsPoste}
        \cup {CouleurEnCours(p) : p \in PositionsPoste}

Cubes == [1..NB_CUBE -> Couleurs]
SansCube == [i \in 1..NB_CUBE |-> 0]

NomPoste(pos) == IF pos = 1 THEN "poste1" ELSE "poste4"
Objets == {"poste1", "poste4"} \cup Navettes

InitTopics ==
    /\ requetes = [c \in Canaux |-> <<>>]
    /\ entree = <<>>
    /\ sortie = <<>>
    /\ cmdPince = -1

(* A pose of the arm: a reference position (0 for one given by its joints) *)
(* and how many times the arm was lowered since.                           *)
Pose(pos, bas) == [pos |-> pos, bas |-> bas]
=============================================================================
