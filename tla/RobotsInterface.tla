-------------------------- MODULE RobotsInterface ---------------------------
(***************************************************************************)
(* Class RobotsInterface of the node commande, for one robot: each order   *)
(* clears the flag the command will wait on, then publishes; the returns   *)
(* of the robot set the flags.                                             *)
(***************************************************************************)
EXTENDS Topics

VARIABLES
    robotInit,
    robotPosition,         \* 1 once in position
    robotBras,             \* 1 raised, -1 lowered, 0 unknown
    robotPince,            \* 1 closed, -1 open, 0 unknown
    robotTask,             \* per post position, 1 once the task is over
    robotMacroDeplacement  \* 1 when no DeplacerPiece is under way

varsInterface ==
    <<robotInit, robotPosition, robotBras, robotPince, robotTask,
      robotMacroDeplacement>>

InitInterface ==
    /\ robotInit = 0
    /\ robotPosition = 0
    /\ robotBras = 0
    /\ robotPince = 0
    /\ robotTask = [p \in PositionsPoste |-> 0]
    /\ robotMacroDeplacement = 1

Ordre(ordre, posA, posB, bras, serre) ==
    [type |-> "ordre", ordre |-> ordre, posA |-> posA, posB |-> posB,
     bras |-> bras, serre |-> serre]

(* What those functions publish, and what commande_locale sends to stop a  *)
(* task: the arguments out of range are refused, or given by no caller.    *)
OrdresPossibles ==
    {m \in [type : {"ordre"},
            ordre : {"position", "joints", "controler", "descendre", "monter",
                     "fermer", "ouvrir", "deplacer", "tache", "evacuer", "stopTache"},
            posA : 0..4, posB : 0..4, bras : -1..1, serre : -1..1] :
        /\ m.ordre \in {"position", "controler", "deplacer"} => m.posA \in Positions
        /\ m.ordre = "deplacer" => m.posB \in Positions
        /\ m.ordre \in {"tache", "stopTache"} => m.posA \in PositionsPoste}

(* What each function clears before it publishes. *)
Efface(m) ==
    /\ robotPosition' = IF m.ordre \in {"position", "joints", "controler"}
                        THEN 0 ELSE robotPosition
    /\ robotPince' = IF m.ordre \in {"fermer", "ouvrir"} THEN 0 ELSE robotPince
    /\ robotBras' = IF m.ordre \in {"descendre", "monter"} THEN 0 ELSE robotBras
    /\ robotMacroDeplacement' = IF m.ordre = "deplacer" THEN 0
                                ELSE robotMacroDeplacement
    /\ robotTask' = IF m.ordre = "tache" THEN [robotTask EXCEPT ![m.posA] = 0]
                    ELSE robotTask
    /\ UNCHANGED robotInit

(* EnvoyerPosition, EnvoyerAngles, ControlerRobot, FermerPince, ...,       *)
(* DeplacerPiece, FaireTache and Evacuer, for arguments in their ranges.   *)
PublieOrdre(m) ==
    /\ Efface(m)
    /\ entree' = Append(entree, m)
    /\ UNCHANGED <<requetes, sortie, cmdPince>>

RetourRobotCallback ==
    /\ sortie # <<>>
    /\ LET code == Head(sortie) IN
       /\ robotInit' = IF code = 0 THEN 1 ELSE robotInit
       /\ robotPosition' = CASE code = 1 -> 0 [] code = 2 -> 1
                             [] OTHER -> robotPosition
       /\ robotBras' = CASE code = 3 -> 0 [] code = 4 -> -1 [] code = 5 -> 1
                         [] OTHER -> robotBras
       /\ robotPince' = CASE code = 6 -> 1 [] code = 7 -> -1
                          [] OTHER -> robotPince
       /\ robotTask' = CASE code = 8 -> [robotTask EXCEPT ![1] = 1]
                         [] code = 9 -> [robotTask EXCEPT ![4] = 1]
                         [] OTHER -> robotTask
       /\ robotMacroDeplacement' = IF code = 10 THEN 1 ELSE robotMacroDeplacement
    /\ sortie' = Tail(sortie)
    /\ UNCHANGED <<requetes, entree, cmdPince>>

FinDeplacerPiece == robotMacroDeplacement
TacheFinie(pos) == robotTask[pos]
RobotEnPosition == robotPosition
BrasEnPosition == robotBras
PinceEnPosition == robotPince
=============================================================================
