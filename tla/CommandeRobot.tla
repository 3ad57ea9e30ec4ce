--------------------------- MODULE CommandeRobot ----------------------------
(***************************************************************************)
(* The command, one robot node and the simulator.  The command is any      *)
(* program written on RobotsInterface that waits for the end of an order   *)
(* before it gives one of the same kind; which kinds it lets run together  *)
(* is the parameter Compatibles, so that the same modules answer both      *)
(* "what works when orders are given one at a time" and "what goes wrong   *)
(* when, as the shipped Petri net does, they overlap".                     *)
(***************************************************************************)
EXTENDS RobotPieces, RobotsInterface, Simulateur

CONSTANTS
    Programmes,   \* sets of orders: a command gives the orders of one
    Compatibles,  \* sets of kinds of orders it lets run together
    Prudent,      \* TRUE: a piece is moved from a full place to an empty
                  \* one, a task is given on a product with room left
    MaxBas,       \* bound: times the arm is lowered or raised in a row
    MaxSortie     \* bound: returns not yet read by the command

VARIABLES
    programme, \* the orders this command gives
    demandes   \* kinds of orders given and not yet known to be finished

varsMonde == <<varsSimulateur, varsTopics, navette>>
vars == <<varsRobot, varsInterface, varsMonde, programme, demandes>>

Genre(m) ==
    CASE m.ordre = "deplacer"  -> "deplacer"
      [] m.ordre = "tache"     -> IF m.posA = 1 THEN "tache1" ELSE "tache4"
      [] m.ordre = "evacuer"   -> "evacuer"
      [] m.ordre = "stopTache" -> "stopTache"
      [] OTHER                 -> "bras"

Genres == {"deplacer", "tache1", "tache4", "evacuer", "stopTache", "bras"}

ASSUME CommandeAssumption ==
    /\ UNION Programmes \subseteq OrdresPossibles
    /\ Compatibles \subseteq SUBSET Genres
    /\ Prudent \in BOOLEAN
    /\ MaxBas \in Nat /\ MaxSortie \in Nat \ {0}

Init ==
    /\ InitTopics
    /\ InitRobot
    /\ InitInterface
    /\ InitSimulateur
    /\ programme \in Programmes
    /\ demandes = {}

Occupe(pos) ==
    IF pos \in PositionsPoste THEN cubes[NomPoste(pos)][1] # 0
    ELSE navette[pos] # AucuneNavette /\ cubes[navette[pos]][1] # 0
Vide(pos) ==
    IF pos \in PositionsPoste THEN cubes[NomPoste(pos)] = SansCube
    ELSE navette[pos] # AucuneNavette /\ cubes[navette[pos]] = SansCube

OrdreSense(m) ==
    /\ m.ordre = "deplacer" => Occupe(m.posA) /\ Vide(m.posB)
    /\ m.ordre = "tache" => Occupe(m.posA) /\ cubes[NomPoste(m.posA)][NB_CUBE] = 0

(* main_commande waits for the robots before anything else. *)
DonneOrdre(m) ==
    /\ m \in programme
    /\ robotInit = 1
    /\ Genre(m) \notin demandes
    /\ demandes \cup {Genre(m)} \in Compatibles
    /\ Prudent => OrdreSense(m)
    /\ m.ordre = "descendre" => Rpos.bas < MaxBas
    /\ m.ordre = "monter" => Rpos.bas > -MaxBas
    /\ PublieOrdre(m)
    /\ demandes' = demandes \cup {Genre(m)}
    /\ UNCHANGED <<varsRobot, varsSimulateur, navette, programme>>

(* The node has nothing to do and nothing is on its way. *)
AuRepos ==
    /\ appels = <<>> /\ entree = <<>> /\ sortie = <<>>
    /\ \A c \in Canaux : requetes[c] = <<>>

(* What the command looks at before it goes on.  Evacuer has no return and *)
(* sleeps one second instead, and the returns of the elementary orders do  *)
(* not tell one order from another: for these the pause is taken to be     *)
(* long enough for the robot to have finished.                             *)
Constate(k) ==
    /\ k \in demandes
    /\ CASE k = "deplacer" -> FinDeplacerPiece = 1
         [] k = "tache1"   -> TacheFinie(1) = 1
         [] k = "tache4"   -> TacheFinie(4) = 1
         [] OTHER          -> AuRepos
    /\ demandes' = demandes \ {k}
    /\ UNCHANGED <<varsRobot, varsInterface, varsMonde, programme>>

Retour ==
    /\ RetourRobotCallback
    /\ UNCHANGED <<varsRobot, varsSimulateur, navette, programme, demandes>>

(* The bound MaxSortie only keeps the command from lagging further behind. *)
Robot ==
    /\ RobotNext
    /\ Len(sortie') <= MaxSortie
    /\ UNCHANGED <<varsInterface, varsSimulateur, navette, programme, demandes>>

Scene(canal) == Repond(canal) /\ UNCHANGED <<varsRobot, varsInterface, navette, programme, demandes>>

Bras == BrasBouge /\ UNCHANGED <<varsRobot, varsInterface, navette, programme, demandes>>

(* The stops hold the shuttles while a piece is moved. *)
Navette(p) ==
    /\ "deplacer" \notin demandes
    /\ NavetteBouge(p)
    /\ UNCHANGED <<varsRobot, varsInterface, programme, demandes>>

Next ==
    \/ \E m \in UNION Programmes : DonneOrdre(m)
    \/ \E k \in Genres : Constate(k)
    \/ Retour
    \/ Robot
    \/ \E c \in Canaux : Scene(c)
    \/ Bras
    \/ \E p \in PositionsNavette : Navette(p)

Spec == Init /\ [][Next]_vars

(* The node and the simulator keep running, the command keeps reading its  *)
(* returns, and time passes: a task and a gripper end some day.            *)
TempsPasse(A) == A /\ UNCHANGED <<varsInterface, varsSimulateur, navette, programme, demandes>>

FairSpec ==
    /\ Spec
    /\ WF_vars(Robot)
    /\ WF_vars(Retour)
    /\ WF_vars(Bras)
    /\ \A c \in Canaux : WF_vars(Scene(c))
    /\ WF_vars(\E k \in Genres : Constate(k))
    /\ SF_vars(TempsPasse(PinceFin))
    /\ SF_vars(TempsPasse(TacheEchue))
    /\ WF_vars(TempsPasse(Update))
-----------------------------------------------------------------------------
Ops == {"init", "envoyer", "joints", "descendre", "monter", "consigne", "sonder",
        "pince", "serrage", "retour", "prise", "pose", "peindrePrise",
        "peindrePose", "tache", "peindreDebut", "update", "verifier",
        "peindreFin", "confirmer", "stopTache", "evacuer", "peindreEvac", "lot"}
       \cup Lectures

EtapeType ==
    [op : Ops, pos : 0..4, arg : 0..(10 + NB_CUBE), objet : Objets \cup {""},
     lues : UNION {[1..n -> Couleurs] : n \in 0..NB_CUBE},
     attend : Canaux \cup {""}]

PoseType == [pos : 0..4, bas : Int]

TypeOK ==
    /\ \A i \in DOMAIN appels : appels[i] \in EtapeType
    /\ lot \in 0..Len(entree)
    /\ rep \in [Canaux -> BOOLEAN]
    /\ valeur.couleur \in Couleurs
    /\ Rpos \in PoseType /\ consigne \in PoseType /\ pose \in PoseType
    /\ couleur_transportee \in Cubes
    /\ tache \in [PositionsPoste -> BOOLEAN]
    /\ retour \in 0..10
    /\ erreurs \subseteq {1, 2, 3, 66}
    /\ cubes \in [Objets -> Cubes]
    /\ programme \in Programmes /\ demandes \subseteq Genres
    /\ Len(sortie) <= MaxSortie

(* An answer is used for the question it answers: when a callback goes on  *)
(* with valueSim_getColor, it is the colour of the cube it asked for.      *)
RangDemande(e) == IF e.op = "confirmer" THEN e.arg ELSE Len(e.lues) + 1

ReponsePourLaQuestion ==
    appels # <<>> /\ Courant.attend = "getColor" /\ rep["getColor"]
        => valeur.objet = Courant.objet /\ valeur.rang = RangDemande(Courant)

(* No wake-up is lost: every callback that waits on a channel has an       *)
(* answer to come, or there already.                                       *)
Attentes(c) == Cardinality({i \in DOMAIN appels : appels[i].attend = c})
EnRoute(c) ==
    Len(requetes[c])
    + Cardinality({i \in DOMAIN entree :
                     entree[i].type = "reponse" /\ entree[i].canal = c})
    + (IF rep[c] THEN 1 ELSE 0)

AttenteServie == \A c \in Canaux : Attentes(c) <= EnRoute(c)

(* From the first reading of a place to the writing of it, the arm is      *)
(* lowered over that place.                                                *)
BrasSurPlace ==
    \A i \in DOMAIN appels :
        appels[i].op \in {"lirePrise", "lirePose", "peindrePrise", "peindrePose"}
            => pose = Pose(appels[i].pos, 1)

(* At rest every product of the start is at exactly one place of the       *)
(* scene, or was evacuated.                                                *)
Premiers(p) == {o \in Objets : cubes[o][1] = p}

ProduitsConserves ==
    AuRepos =>
        /\ couleur_transportee = SansCube
        /\ \A p \in Produits :
             (\E o \in Objets : CubesInitiaux[o][1] = p) =>
                 \/ Cardinality(Premiers(p)) = 1
                 \/ Premiers(p) = {} /\ p \in evacues

(* At rest a half-transparent cube stands for a task under way, and        *)
(* conversely.                                                             *)
CubesCoherents ==
    AuRepos => \A p \in PositionsPoste :
        tache[p] <=> \E i \in 1..NB_CUBE : cubes[NomPoste(p)][i] = CouleurEnCours(p)

(* When the command reads that a task it asked for is over, the post shows *)
(* the finished cube and the robot holds no task there.                    *)
TacheFinieExacte ==
    \A p \in PositionsPoste :
        (IF p = 1 THEN "tache1" ELSE "tache4") \in demandes /\ TacheFinie(p) = 1 =>
            /\ ~tache[p]
            /\ \E i \in 1..NB_CUBE : cubes[NomPoste(p)][i] = CouleurTache(p)
            /\ \A i \in 1..NB_CUBE : cubes[NomPoste(p)][i] # CouleurEnCours(p)

(* When it reads that DeplacerPiece is over, the gripper is empty and the  *)
(* arm is up again.                                                        *)
FinDeplacerExacte ==
    "deplacer" \in demandes /\ FinDeplacerPiece = 1 =>
        couleur_transportee = SansCube /\ pose = Rpos /\ Rpos.bas = 0

(* Every order ends: given one at a time, the command is free again and    *)
(* again.                                                                  *)
OrdreTermine == []<>(demandes = {})
=============================================================================
