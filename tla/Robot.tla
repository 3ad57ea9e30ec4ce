------------------------------- MODULE Robot --------------------------------
(***************************************************************************)
(* The node of one robot (src/ros_ws/src/robots).  It has one thread, yet  *)
(* its callbacks interleave: every one of them waits for the simulator in  *)
(* a loop "while(!repSim_x) spinOnce()", and that spinOnce runs the other  *)
(* callbacks inside the one that waits.  So the control state is a stack   *)
(* of steps still to be done, the innermost callback first.  A step that   *)
(* waits for an answer has the channel in "attend"; "lot" is a spinOnce    *)
(* that is running, which ends when the messages it took are all treated.  *)
(*                                                                         *)
(* Abstractions: the seven joints are one pose, polled once per turn; time *)
(* is not counted, so a task may be over at any update and a gripper after *)
(* any answer but the first; the spinOnce that ends a polling turn is the  *)
(* one of the wait that follows.                                           *)
(***************************************************************************)
EXTENDS Topics

CONSTANT num_robot

ASSUME RobotAssumption == num_robot \in 1..4

VARIABLES
    appels,              \* the stack of steps
    lot,                 \* messages of the current spinOnce not yet treated
    rep,                 \* repSim_<channel>
    valeur,              \* valueSim_getColor and valueSim_getJointState
    Rpos,                \* pose the arm is asked for
    couleur_transportee, \* cubes the gripper carries
    tache,               \* task_en_cours_ of poste_pos_1 and poste_pos_4
    retour,              \* retour.data, the last code published
    erreurs,             \* codes sent to /commande/Simulation/Erreur_log
    evacues              \* products named on /commande/Simulation/produitEvac

varsMemoire == <<Rpos, couleur_transportee, tache, retour, erreurs, evacues>>
varsRobot == <<appels, lot, rep, valeur, varsMemoire>>

Etape(op, pos, arg) ==
    [op |-> op, pos |-> pos, arg |-> arg, objet |-> "", lues |-> <<>>, attend |-> ""]

(* The constructor sets every flag but repSim_getTimeUpdate (it names      *)
(* repSim_getColorUpdate instead): that one may start high.                *)
InitRobot ==
    /\ appels = <<Etape("init", 0, 0)>>
    /\ lot = 0
    /\ rep \in [Canaux -> BOOLEAN]
    /\ \A c \in Canaux \ {"getTimeUpdate"} : ~rep[c]
    /\ valeur = [couleur |-> 0, objet |-> "", rang |-> 0, pose |-> Pose(0, 0)]
    /\ Rpos = Pose(0, 0)
    /\ couleur_transportee = SansCube
    /\ tache = [p \in PositionsPoste |-> FALSE]
    /\ retour = 0
    /\ erreurs = {}
    /\ evacues = {}
-----------------------------------------------------------------------------
(* The stack. *)
Actif(op) == appels # <<>> /\ Head(appels).op = op
Courant == Head(appels)
Remplace(etapes) == appels' = etapes \o Tail(appels)
Depile == appels' = Tail(appels)

(* A step publishes a request and waits; an answer ends the wait. *)
Requete(objet, rang, contenu, cible) ==
    [objet |-> objet, rang |-> rang, cubes |-> contenu, pose |-> cible]
Simple == Requete("", 0, SansCube, Pose(0, 0))

Demande(canal, requete) ==
    requetes' = [requetes EXCEPT ![canal] = Append(@, requete)]

Libre(op) == Actif(op) /\ Courant.attend = ""

Recu(op, canal) ==
    /\ Actif(op) /\ Courant.attend = canal
    /\ rep[canal]
    /\ rep' = [rep EXCEPT ![canal] = FALSE]

Publie(code) ==
    /\ retour' = code
    /\ sortie' = Append(sortie, code)

(* Mutant: the code computed from the position.                            *)
CodeTacheCalcule(pos) == 7 + pos
CodeTache(pos) == IF pos = 1 THEN 8 ELSE 9
-----------------------------------------------------------------------------
(* The steps each order stands for. *)
(* Mutant: the end is published before the arm is raised.                  *)
DeplacerPieceTropTot(A, B) ==
    <<Etape("envoyer", A, 0), Etape("descendre", 0, 0), Etape("prise", A, 0),
      Etape("pince", 0, 6), Etape("monter", 0, 0), Etape("envoyer", B, 0),
      Etape("descendre", 0, 0), Etape("pose", B, 0), Etape("pince", 0, 7),
      Etape("retour", 0, 10), Etape("monter", 0, 0)>>

DeplacerPiece(A, B) ==
    <<Etape("envoyer", A, 0), Etape("descendre", 0, 0), Etape("prise", A, 0),
      Etape("pince", 0, 6), Etape("monter", 0, 0), Etape("envoyer", B, 0),
      Etape("descendre", 0, 0), Etape("pose", B, 0), Etape("pince", 0, 7),
      Etape("monter", 0, 0), Etape("retour", 0, 10)>>

ControlerRobot(pos, bras, serre) ==
    <<Etape("envoyer", pos, 0),
      Etape(IF bras = -1 THEN "descendre" ELSE "monter", 0, 0),
      Etape("pince", 0, IF serre = -1 THEN 7 ELSE 6)>>

Callback(m) ==
    CASE m.ordre = "deplacer"  -> DeplacerPiece(m.posA, m.posB)
      [] m.ordre = "controler" -> ControlerRobot(m.posA, m.bras, m.serre)
      [] m.ordre = "position"  -> <<Etape("envoyer", m.posA, 0)>>
      [] m.ordre = "joints"    -> <<Etape("joints", 0, 0)>>
      [] m.ordre = "descendre" -> <<Etape("descendre", 0, 0)>>
      [] m.ordre = "monter"    -> <<Etape("monter", 0, 0)>>
      [] m.ordre = "fermer"    -> <<Etape("pince", 0, 6)>>
      [] m.ordre = "ouvrir"    -> <<Etape("pince", 0, 7)>>
      [] m.ordre = "tache"     -> IF m.posA \in PositionsPoste
                                  THEN <<Etape("tache", m.posA, 0)>> ELSE <<>>
      [] m.ordre = "evacuer"   -> IF num_robot = 2
                                  THEN <<Etape("evacuer", 1, 0)>> ELSE <<>>
      [] m.ordre = "stopTache" -> <<Etape("stopTache", m.posA, 0)>>
-----------------------------------------------------------------------------
(* ros::spinOnce, from main or from a loop that waits: it takes every      *)
(* message that has arrived, with those an outer spinOnce left.            *)
PrendLot ==
    /\ Len(entree) > lot
    /\ lot' = Len(entree)
    /\ appels' = <<Etape("lot", 0, 0)>> \o appels
    /\ UNCHANGED <<varsTopics, rep, valeur, varsMemoire>>

SpinPrincipal == appels = <<>> /\ PrendLot

SpinOnce ==
    /\ appels # <<>> /\ Courant.attend # ""
    /\ ~rep[Courant.attend]
    /\ PrendLot

(* Mutant: the callback of getTime does not raise its flag.                *)
CallbackReponseSansTemps ==
    /\ Actif("lot") /\ lot > 0
    /\ LET m == Head(entree) IN
       /\ m.type = "reponse"
       /\ rep' = [rep EXCEPT ![m.canal] = m.canal # "getTime"]
       /\ valeur' =
            CASE m.canal = "getColor" ->
                   [valeur EXCEPT !.couleur = m.couleur, !.objet = m.objet,
                                  !.rang = m.rang]
              [] m.canal = "getJointState" -> [valeur EXCEPT !.pose = m.pose]
              [] OTHER -> valeur
    /\ entree' = Tail(entree)
    /\ lot' = lot - 1
    /\ UNCHANGED <<requetes, sortie, cmdPince, appels, varsMemoire>>

(* The sim...Callback functions: store the value, raise the flag. *)
CallbackReponse ==
    /\ Actif("lot") /\ lot > 0
    /\ LET m == Head(entree) IN
       /\ m.type = "reponse"
       /\ rep' = [rep EXCEPT ![m.canal] = TRUE]
       /\ valeur' =
            CASE m.canal = "getColor" ->
                   [valeur EXCEPT !.couleur = m.couleur, !.objet = m.objet,
                                  !.rang = m.rang]
              [] m.canal = "getJointState" -> [valeur EXCEPT !.pose = m.pose]
              [] OTHER -> valeur
    /\ entree' = Tail(entree)
    /\ lot' = lot - 1
    /\ UNCHANGED <<requetes, sortie, cmdPince, appels, varsMemoire>>

(* The callback of an order starts, inside whatever was waiting. *)
CallbackOrdre ==
    /\ Actif("lot") /\ lot > 0
    /\ Head(entree).type = "ordre"
    /\ appels' = Callback(Head(entree)) \o appels
    /\ entree' = Tail(entree)
    /\ lot' = lot - 1
    /\ UNCHANGED <<requetes, sortie, cmdPince, rep, valeur, varsMemoire>>

FinLot ==
    /\ Actif("lot") /\ lot = 0
    /\ Depile
    /\ UNCHANGED <<varsTopics, lot, rep, valeur, varsMemoire>>
-----------------------------------------------------------------------------
(* Robot::init asks for the handles of the joints, then tells the command. *)
InitDemande ==
    /\ Libre("init")
    /\ Demande("getObjectHandle", Simple)
    /\ Remplace(<<[Courant EXCEPT !.attend = "getObjectHandle"]>>)
    /\ UNCHANGED <<entree, sortie, cmdPince, lot, rep, valeur, varsMemoire>>

InitFin ==
    /\ Recu("init", "getObjectHandle")
    /\ Publie(0)
    /\ Depile
    /\ UNCHANGED <<requetes, entree, cmdPince, lot, valeur, Rpos,
                   couleur_transportee, tache, erreurs, evacues>>

(* Mutant: the pose is published before Rpos is computed.                  *)
NouveauRposTropTot(cible, code) ==
    /\ Rpos' = cible
    /\ Demande("setJointState", Requete("", 0, SansCube, Rpos))
    /\ Remplace(<<[Etape("consigne", cible.pos, code)
                      EXCEPT !.attend = "setJointState"]>>)
    /\ UNCHANGED <<entree, sortie, cmdPince, lot, rep, valeur,
                   couleur_transportee, tache, retour, erreurs, evacues>>

(* EnvoyerRobot, EnvoyerJoints, DescendreBras and MonterBras: a new Rpos   *)
(* is published, and polled until it is reached.                           *)
NouveauRpos(cible, code) ==
    /\ Rpos' = cible
    /\ Demande("setJointState", Requete("", 0, SansCube, cible))
    /\ Remplace(<<[Etape("consigne", cible.pos, code)
                      EXCEPT !.attend = "setJointState"]>>)
    /\ UNCHANGED <<entree, sortie, cmdPince, lot, rep, valeur,
                   couleur_transportee, tache, retour, erreurs, evacues>>

EnvoyerRobot == Libre("envoyer") /\ NouveauRpos(Pose(Courant.pos, 0), 2)
EnvoyerJoints == Libre("joints") /\ NouveauRpos(Pose(0, 0), 2)
DescendreBras == Libre("descendre") /\ NouveauRpos([Rpos EXCEPT !.bas = @ + 1], 4)
MonterBras == Libre("monter") /\ NouveauRpos([Rpos EXCEPT !.bas = @ - 1], 5)

ConsigneRecue ==
    /\ Recu("consigne", "setJointState")
    /\ Demande("getJointState", Simple)
    /\ Remplace(<<[Courant EXCEPT !.op = "sonder", !.attend = "getJointState"]>>)
    /\ UNCHANGED <<entree, sortie, cmdPince, lot, valeur, varsMemoire>>

PositionNonAtteinte ==
    /\ Recu("sonder", "getJointState")
    /\ valeur.pose # Rpos
    /\ Demande("getJointState", Simple)
    /\ UNCHANGED <<entree, sortie, cmdPince, appels, lot, valeur, varsMemoire>>

(* Mutant: the pose read is not compared with Rpos.                        *)
PositionAtteinteSansTest ==
    /\ Recu("sonder", "getJointState")
    /\ Publie(Courant.arg)
    /\ Depile
    /\ UNCHANGED <<requetes, entree, cmdPince, lot, valeur, Rpos,
                   couleur_transportee, tache, erreurs, evacues>>

PositionAtteinte ==
    /\ Recu("sonder", "getJointState")
    /\ valeur.pose = Rpos
    /\ Publie(Courant.arg)
    /\ Depile
    /\ UNCHANGED <<requetes, entree, cmdPince, lot, valeur, Rpos,
                   couleur_transportee, tache, erreurs, evacues>>

(* FermerPince (6) and OuvrirPince (7).  When the last code published is   *)
(* already that one, nothing is waited for and nothing is returned.        *)
PinceDejaFaite ==
    /\ Libre("pince")
    /\ retour = Courant.arg
    /\ cmdPince' = IF Courant.arg = 6 THEN 1 ELSE 0
    /\ Depile
    /\ UNCHANGED <<requetes, entree, sortie, lot, rep, valeur, varsMemoire>>

PinceCommande ==
    /\ Libre("pince")
    /\ retour # Courant.arg
    /\ cmdPince' = IF Courant.arg = 6 THEN 1 ELSE 0
    /\ Demande("getTime", Simple)
    /\ Remplace(<<[Courant EXCEPT !.attend = "getTime"]>>)
    /\ UNCHANGED <<entree, sortie, lot, rep, valeur, varsMemoire>>

(* The first answer is t0; later ones may still be too early. *)
PinceAttend ==
    /\ Recu("pince", "getTime") \/ Recu("serrage", "getTime")
    /\ Demande("getTime", Simple)
    /\ Remplace(<<[Courant EXCEPT !.op = "serrage"]>>)
    /\ UNCHANGED <<entree, sortie, cmdPince, lot, valeur, varsMemoire>>

PinceFin ==
    /\ Recu("serrage", "getTime")
    /\ Publie(Courant.arg)
    /\ Depile
    /\ UNCHANGED <<requetes, entree, cmdPince, lot, valeur, Rpos,
                   couleur_transportee, tache, erreurs, evacues>>

(* The end of DeplacerPieceCallback. *)
RetourFin ==
    /\ Libre("retour")
    /\ Publie(Courant.arg)
    /\ Depile
    /\ UNCHANGED <<requetes, entree, cmdPince, lot, rep, valeur, Rpos,
                   couleur_transportee, tache, erreurs, evacues>>
=============================================================================
