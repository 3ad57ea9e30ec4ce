---------------------------- MODULE RobotPieces -----------------------------
(***************************************************************************)
(* What the robot node does to the pieces: it knows them only by asking    *)
(* the simulator for the colour of each cube of a post or shuttle, one     *)
(* GetColor at a time, and by writing whole stacks back.                   *)
(***************************************************************************)
EXTENDS Robot

VarsSansFile == <<entree, sortie, cmdPince, lot>>

Lectures == {"lirePrise", "lirePose", "lireDebut", "lireFin", "lireEvac"}

Lire(op, pos, objet) == [Etape(op, pos, 0) EXCEPT !.objet = objet]

(* The searches for the first free place stop at a 0, the other readings   *)
(* take every cube.                                                        *)
Lu(e) ==
    \/ Len(e.lues) = NB_CUBE
    \/ /\ e.op \in {"lireDebut", "lireFin"}
       /\ e.lues # <<>>
       /\ e.lues[Len(e.lues)] = 0

LectureLibre == appels # <<>> /\ Courant.op \in Lectures /\ Courant.attend = ""

(* Mutant: the cubes are asked for from rank 0.                            *)
LireCouleurRangZero ==
    /\ LectureLibre
    /\ ~Lu(Courant)
    /\ Demande("getColor", Requete(Courant.objet, Len(Courant.lues),
                                   SansCube, Pose(0, 0)))
    /\ Remplace(<<[Courant EXCEPT !.attend = "getColor"]>>)
    /\ UNCHANGED <<VarsSansFile, rep, valeur, varsMemoire>>

LireCouleur ==
    /\ LectureLibre
    /\ ~Lu(Courant)
    /\ Demande("getColor", Requete(Courant.objet, Len(Courant.lues) + 1,
                                   SansCube, Pose(0, 0)))
    /\ Remplace(<<[Courant EXCEPT !.attend = "getColor"]>>)
    /\ UNCHANGED <<VarsSansFile, rep, valeur, varsMemoire>>

CouleurRecue ==
    /\ \E op \in Lectures : Recu(op, "getColor")
    /\ Remplace(<<[Courant EXCEPT !.lues = Append(@, valeur.couleur),
                                  !.attend = ""]>>)
    /\ UNCHANGED <<varsTopics, lot, valeur, varsMemoire>>

(* ChangeColor or ChangeShuttleColor: the step waits under the name op. *)
CanalPeinture(objet) ==
    IF objet \in Navettes THEN "changeShuttleColor" ELSE "changeColor"

Peindre(op, rang, contenu) ==
    LET canal == CanalPeinture(Courant.objet) IN
    /\ Demande(canal, Requete(Courant.objet, 0, contenu, Pose(0, 0)))
    /\ Remplace(<<[Courant EXCEPT !.op = op, !.arg = rang, !.attend = canal]>>)

Peint(op) ==
    \E canal \in {"changeColor", "changeShuttleColor"} : Recu(op, canal)

(* The colours read, as a whole stack: the array starts with zeros. *)
Complete(lues) == [i \in 1..NB_CUBE |-> IF i <= Len(lues) THEN lues[i] ELSE 0]
-----------------------------------------------------------------------------
(* Colorer(position, type), for a prise or a pose.                         *)
Colorer(op) == Libre(op)
LectureDe(op) == IF op = "prise" THEN "lirePrise" ELSE "lirePose"

(* No shuttle: what the gripper carries is forgotten. *)
ColorerSansNavette ==
    /\ \E op \in {"prise", "pose"} : Colorer(op)
    /\ Courant.pos \in PositionsNavette
    /\ navette[Courant.pos] = AucuneNavette
    /\ couleur_transportee' = SansCube
    /\ Depile
    /\ UNCHANGED <<varsTopics, lot, rep, valeur, Rpos, tache, retour, erreurs,
                   evacues>>

ColorerNavette ==
    \E op \in {"prise", "pose"} :
        /\ Colorer(op)
        /\ Courant.pos \in PositionsNavette
        /\ navette[Courant.pos] # AucuneNavette
        /\ Remplace(<<Lire(LectureDe(op), Courant.pos, navette[Courant.pos])>>)
        /\ UNCHANGED <<varsTopics, lot, rep, valeur, varsMemoire>>

(* A piece taken or put on a post stops the task of that post, which is    *)
(* reported as an error and, to the command, as finished.                  *)
ColorerPoste ==
    \E op \in {"prise", "pose"} :
        /\ Colorer(op)
        /\ Courant.pos \in PositionsPoste
        /\ Remplace(<<Lire(LectureDe(op), Courant.pos, NomPoste(Courant.pos))>>)
        /\ \/ /\ tache[Courant.pos]
              /\ erreurs' = erreurs \cup {3}
              /\ tache' = [tache EXCEPT ![Courant.pos] = FALSE]
              /\ Publie(CodeTache(Courant.pos))
           \/ /\ ~tache[Courant.pos]
              /\ UNCHANGED <<erreurs, tache, retour, sortie>>
        /\ UNCHANGED <<requetes, entree, cmdPince, lot, rep, valeur, Rpos,
                       couleur_transportee, evacues>>

(* The place receives what the gripper carries. *)
ColorerPeint ==
    /\ \/ Libre("lirePrise") /\ Lu(Courant) /\ Peindre("peindrePrise", 0, couleur_transportee)
       \/ Libre("lirePose") /\ Lu(Courant) /\ Peindre("peindrePose", 0, couleur_transportee)
    /\ UNCHANGED <<VarsSansFile, rep, valeur, varsMemoire>>

(* Then the gripper holds what was read (prise) or nothing (pose). *)
FinPrise ==
    /\ Peint("peindrePrise")
    /\ couleur_transportee' = Complete(Courant.lues)
    /\ Depile
    /\ UNCHANGED <<varsTopics, lot, valeur, Rpos, tache, retour, erreurs, evacues>>

(* Mutant: the gripper is not emptied by a pose.                           *)
FinPoseGarde ==
    /\ Peint("peindrePose")
    /\ erreurs' = IF Complete(Courant.lues) # SansCube
                  THEN erreurs \cup {66} ELSE erreurs
    /\ Depile
    /\ UNCHANGED <<varsTopics, lot, valeur, Rpos, couleur_transportee, tache,
                   retour, evacues>>

FinPose ==
    /\ Peint("peindrePose")
    /\ couleur_transportee' = SansCube
    /\ erreurs' = IF Complete(Courant.lues) # SansCube
                  THEN erreurs \cup {66} ELSE erreurs
    /\ Depile
    /\ UNCHANGED <<varsTopics, lot, valeur, Rpos, tache, retour, evacues>>
-----------------------------------------------------------------------------
(* faireTacheCallback: the time, then colorerPosteDebutTask. *)
FaireTache ==
    /\ Libre("tache")
    /\ Demande("getTime", Simple)
    /\ Remplace(<<[Courant EXCEPT !.attend = "getTime"]>>)
    /\ UNCHANGED <<VarsSansFile, rep, valeur, varsMemoire>>

TacheHeure ==
    /\ Recu("tache", "getTime")
    /\ Remplace(<<Lire("lireDebut", Courant.pos, NomPoste(Courant.pos))>>)
    /\ UNCHANGED <<varsTopics, lot, valeur, varsMemoire>>

PosteVide(lues) == Len(lues) = 1
PostePlein(lues) == Len(lues) = NB_CUBE /\ lues[NB_CUBE] # 0

(* Mutant: the refusal is not reported to the command.                     *)
TacheImpossibleMuette ==
    /\ Libre("lireDebut") /\ Lu(Courant)
    /\ \/ PosteVide(Courant.lues) /\ erreurs' = erreurs \cup {1}
       \/ PostePlein(Courant.lues) /\ erreurs' = erreurs \cup {2}
    /\ Depile
    /\ UNCHANGED <<varsTopics, lot, rep, valeur, Rpos, couleur_transportee,
                   tache, retour, evacues>>

(* No product, or no place for a cube: an error, and the task is reported  *)
(* as finished.                                                            *)
TacheImpossible ==
    /\ Libre("lireDebut") /\ Lu(Courant)
    /\ \/ PosteVide(Courant.lues) /\ erreurs' = erreurs \cup {1}
       \/ PostePlein(Courant.lues) /\ erreurs' = erreurs \cup {2}
    /\ Publie(CodeTache(Courant.pos))
    /\ Depile
    /\ UNCHANGED <<requetes, entree, cmdPince, lot, rep, valeur, Rpos,
                   couleur_transportee, tache, evacues>>

TacheColore ==
    /\ Libre("lireDebut") /\ Lu(Courant)
    /\ ~PosteVide(Courant.lues) /\ ~PostePlein(Courant.lues)
    /\ Peindre("peindreDebut", 0,
               [Complete(Courant.lues) EXCEPT
                   ![Len(Courant.lues)] = CouleurEnCours(Courant.pos)])
    /\ UNCHANGED <<VarsSansFile, rep, valeur, varsMemoire>>

(* Mutant: task_en_cours_ is not set.                                      *)
DebutTaskOublie ==
    /\ Peint("peindreDebut")
    /\ Depile
    /\ UNCHANGED <<varsTopics, lot, valeur, varsMemoire>>

(* Poste::debutTask, whether or not a task was already under way. *)
DebutTask ==
    /\ Peint("peindreDebut")
    /\ tache' = [tache EXCEPT ![Courant.pos] = TRUE]
    /\ Depile
    /\ UNCHANGED <<varsTopics, lot, valeur, Rpos, couleur_transportee, retour,
                   erreurs, evacues>>
-----------------------------------------------------------------------------
(* update, called by main about once a second. *)
Update ==
    /\ appels = <<>>
    /\ \E p \in PositionsPoste : tache[p]
    /\ appels' = <<[Etape("update", 0, 0) EXCEPT !.attend = "getTimeUpdate"]>>
    /\ Demande("getTimeUpdate", Simple)
    /\ UNCHANGED <<VarsSansFile, rep, valeur, varsMemoire>>

UpdateHeure ==
    /\ Recu("update", "getTimeUpdate")
    /\ Remplace(<<Etape("verifier", 1, 0), Etape("verifier", 4, 0)>>)
    /\ UNCHANGED <<varsTopics, lot, valeur, varsMemoire>>

(* Poste::updateTask says no: no task, or not yet over. *)
TacheContinue ==
    /\ Libre("verifier")
    /\ Depile
    /\ UNCHANGED <<varsTopics, lot, rep, valeur, varsMemoire>>

(* It says yes, and colorerPosteFinTask begins. *)
TacheEchue ==
    /\ Libre("verifier")
    /\ tache[Courant.pos]
    /\ tache' = [tache EXCEPT ![Courant.pos] = FALSE]
    /\ Remplace(<<Lire("lireFin", Courant.pos, NomPoste(Courant.pos))>>)
    /\ UNCHANGED <<varsTopics, lot, rep, valeur, Rpos, couleur_transportee, retour,
                   erreurs, evacues>>

(* The last cube takes the final colour.  On an empty post the code writes *)
(* before the array and goes on with the index -1, here the rank 0.        *)
DernierCube(lues) == IF PostePlein(lues) THEN NB_CUBE ELSE Len(lues) - 1

(* Mutant: the end is published before the cube has its colour.            *)
FinTaskTropTot ==
    /\ Libre("lireFin") /\ Lu(Courant)
    /\ LET rang == DernierCube(Courant.lues) IN
       Peindre("peindreFin", rang,
               [i \in 1..NB_CUBE |-> IF i = rang THEN CouleurTache(Courant.pos)
                                     ELSE Complete(Courant.lues)[i]])
    /\ Publie(CodeTache(Courant.pos))
    /\ UNCHANGED <<entree, cmdPince, lot, rep, valeur, Rpos,
                   couleur_transportee, tache, erreurs, evacues>>

FinTask ==
    /\ Libre("lireFin") /\ Lu(Courant)
    /\ LET rang == DernierCube(Courant.lues) IN
       Peindre("peindreFin", rang,
               [i \in 1..NB_CUBE |-> IF i = rang THEN CouleurTache(Courant.pos)
                                     ELSE Complete(Courant.lues)[i]])
    /\ UNCHANGED <<VarsSansFile, rep, valeur, varsMemoire>>

FinTaskPeint ==
    /\ Peint("peindreFin")
    /\ Remplace(<<[Courant EXCEPT !.op = "confirmer", !.attend = ""]>>)
    /\ UNCHANGED <<varsTopics, lot, valeur, varsMemoire>>

(* update reads the cube back until the simulator shows the final colour. *)
Confirmer ==
    /\ Libre("confirmer")
    /\ Demande("getColor", Requete(Courant.objet, Courant.arg, SansCube, Pose(0, 0)))
    /\ Remplace(<<[Courant EXCEPT !.attend = "getColor"]>>)
    /\ UNCHANGED <<VarsSansFile, rep, valeur, varsMemoire>>

PasEncoreCouleur ==
    /\ Recu("confirmer", "getColor")
    /\ valeur.couleur # CouleurTache(Courant.pos)
    /\ Remplace(<<[Courant EXCEPT !.attend = ""]>>)
    /\ UNCHANGED <<varsTopics, lot, valeur, varsMemoire>>

TacheTerminee ==
    /\ Recu("confirmer", "getColor")
    /\ valeur.couleur = CouleurTache(Courant.pos)
    /\ Publie(CodeTache(Courant.pos))
    /\ Depile
    /\ UNCHANGED <<requetes, entree, cmdPince, lot, valeur, Rpos,
                   couleur_transportee, tache, erreurs, evacues>>

(* stopTacheCallback, sent by commande_locale when a product is overwritten. *)
StopTache ==
    /\ Libre("stopTache")
    /\ tache' = [tache EXCEPT ![Courant.pos] = FALSE]
    /\ Publie(CodeTache(Courant.pos))
    /\ Depile
    /\ UNCHANGED <<requetes, entree, cmdPince, lot, rep, valeur, Rpos,
                   couleur_transportee, erreurs, evacues>>
-----------------------------------------------------------------------------
(* Evacuer: read post 3 for the log, then empty it. *)
Evacuer ==
    /\ Libre("evacuer")
    /\ Remplace(<<Lire("lireEvac", Courant.pos, NomPoste(Courant.pos))>>)
    /\ UNCHANGED <<varsTopics, lot, rep, valeur, varsMemoire>>

EvacuerEfface ==
    /\ Libre("lireEvac") /\ Lu(Courant)
    /\ evacues' = evacues \cup {Courant.lues[1]}
    /\ Peindre("peindreEvac", 0, SansCube)
    /\ UNCHANGED <<VarsSansFile, rep, valeur, Rpos, couleur_transportee, tache,
                   retour, erreurs>>

EvacuerFin ==
    /\ Peint("peindreEvac")
    /\ Depile
    /\ UNCHANGED <<varsTopics, lot, valeur, varsMemoire>>
-----------------------------------------------------------------------------
Mouvement ==
    \/ EnvoyerRobot \/ EnvoyerJoints \/ DescendreBras \/ MonterBras
    \/ ConsigneRecue \/ PositionNonAtteinte \/ PositionAtteinte
    \/ PinceDejaFaite \/ PinceCommande \/ PinceAttend \/ PinceFin \/ RetourFin

Pieces ==
    \/ LireCouleur \/ CouleurRecue
    \/ ColorerSansNavette \/ ColorerNavette \/ ColorerPoste \/ ColorerPeint
    \/ FinPrise \/ FinPose
    \/ FaireTache \/ TacheHeure \/ TacheImpossible \/ TacheColore \/ DebutTask
    \/ UpdateHeure \/ TacheContinue \/ TacheEchue \/ FinTask
    \/ FinTaskPeint \/ Confirmer \/ PasEncoreCouleur \/ TacheTerminee
    \/ StopTache \/ Evacuer \/ EvacuerEfface \/ EvacuerFin

Appels ==
    \/ SpinPrincipal \/ SpinOnce \/ CallbackReponse \/ CallbackOrdre \/ FinLot
    \/ InitDemande \/ InitFin \/ Update

RobotNext == Appels \/ Mouvement \/ Pieces
=============================================================================
