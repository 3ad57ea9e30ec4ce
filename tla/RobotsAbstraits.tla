-------------------------- MODULE RobotsAbstraits ---------------------------
(***************************************************************************)
(* What the four robot nodes do to the products, one step per product      *)
(* moved: the promises that CommandeRobot checks of one node, put together *)
(* for the net.  A product is its number, 0 stands for none; "taches" is   *)
(* what the stack of cubes of each product tells.                          *)
(*                                                                         *)
(* CommandeRobot checks them for orders given one at a time.  The net does *)
(* not keep to that, so the calls of each node are here too: a callback    *)
(* that begins inside another one, or inside the end of a task in update,  *)
(* shares its flags and answers (the run robot_reveil), and from then on   *)
(* this module does not know what the robot reads, nor whether it ends.    *)
(* Those meetings are kept in "conflits", which no action looks at.        *)
(***************************************************************************)
EXTENDS Integers, Sequences, SequencesExt

VARIABLES
    depl,     \* DeplacerPiece under way of each robot
    tache,    \* "repos" or "cours" for each post
    evac,     \* robot 2 has an evacuation to do
    pieces,   \* product at each place
    taches,   \* posts where each product was worked on
    evacues,  \* products evacuated
    retours,  \* ends published and not yet read by the command
    erreurs,  \* messages of the robots for the log, and shuttles not found
    publies,  \* orders whose callback has not begun
    pile,     \* calls of each robot that have begun, each inside the one before
    conflits, \* history: such pairs of calls, the first one for each robot
    bloques   \* robots in a wait that will not end

varsAppels == <<publies, pile, conflits, bloques>>
varsRobots == <<depl, tache, evac, pieces, taches, evacues, retours, erreurs, varsAppels>>

Robots == 1..4
Postes == 1..8
MaxTaches == 5

Poste(p) == <<"poste", p>>
Pince(r) == <<"pince", r>>
Navette(n) == <<"navette", n>>
Lieux == {Poste(p) : p \in Postes} \cup {Pince(r) : r \in Robots}
           \cup {Navette(n) : n \in 0..5}

(* computeFromNumPoste: robot and position of each post. *)
RobotEtPosition ==
    << <<1, 4>>, <<1, 1>>, <<2, 1>>, <<2, 4>>, <<3, 4>>, <<3, 1>>, <<4, 1>>, <<4, 4>> >>

PosteDe(r, pos) == CHOOSE p \in Postes : RobotEtPosition[p] = <<r, pos>>

(* The calls of a robot: DeplacerPieceCallback, faireTacheCallback, the end *)
(* of a task in update, Evacuer.                                            *)
Deplacement(r) == <<"deplacer", r>>
Debut(p) == <<"debut", p>>
Fin(p) == <<"fin", p>>
Evacuation == <<"evacuer", 2>>
Appels == {Deplacement(r) : r \in Robots} \cup {Evacuation}
            \cup {Debut(p) : p \in Postes} \cup {Fin(p) : p \in Postes}
RobotDe(a) == IF a[1] \in {"debut", "fin"} THEN RobotEtPosition[a[2]][1] ELSE a[2]

Repos == [phase |-> "repos", A |-> 0, B |-> 0]

InitRobots ==
    /\ depl = [r \in Robots |-> Repos]
    /\ tache = [p \in Postes |-> "repos"]
    /\ evac = FALSE
    /\ pieces = [l \in Lieux |-> 0]
    /\ taches = [q \in 1..6 |-> <<>>]
    /\ evacues = <<>>
    /\ retours = {}
    /\ erreurs = {}
    /\ publies = {} /\ pile = [r \in Robots |-> <<>>] /\ conflits = {} /\ bloques = {}

(* The orders of one transition reach the robots; AjouterProduit has put   *)
(* its product when the service returns.                                   *)
Recoivent(deplacer, postes, evacuer, ajouter) ==
    /\ depl' = [r \in Robots |->
                  IF \E d \in deplacer : d[1] = r
                  THEN LET d == CHOOSE d \in deplacer : d[1] = r
                       IN  [phase |-> "prise", A |-> d[2], B |-> d[3]]
                  ELSE depl[r]]
    /\ tache' = [p \in Postes |-> IF p \in postes THEN "cours" ELSE tache[p]]
    /\ evac' = (evac \/ evacuer)
    /\ pieces' = [l \in Lieux |->
                    IF \E a \in ajouter : l = Poste(a[1])
                    THEN (CHOOSE a \in ajouter : l = Poste(a[1]))[2]
                    ELSE pieces[l]]
    /\ publies' = publies \cup {Deplacement(d[1]) : d \in deplacer}
                          \cup {Debut(p) : p \in postes}
                          \cup (IF evacuer THEN {Evacuation} ELSE {})
    /\ UNCHANGED <<taches, evacues, retours, erreurs, pile, conflits, bloques>>

(* The call that runs: only the innermost one goes on. *)
EnTete(a) ==
    /\ RobotDe(a) \notin bloques
    /\ pile[RobotDe(a)] # <<>> /\ Last(pile[RobotDe(a)]) = a

Empile(a) == pile' = [pile EXCEPT ![RobotDe(a)] = Append(@, a)]
Depile(a) == pile' = [pile EXCEPT ![RobotDe(a)] = Front(@)]

(* The callback of an order begins, in whatever spinOnce the robot is.     *)
(* Inside another call it takes answers meant for that one, or raises a    *)
(* flag for both: values are wrong, or one of the two waits for ever.      *)
Commence(a) ==
    LET r == RobotDe(a) IN
    /\ a \in publies
    /\ publies' = publies \ {a}
    /\ Empile(a)
    /\ IF pile[r] = <<>> \/ \E c \in conflits : RobotDe(c[1]) = r
       THEN UNCHANGED conflits
       ELSE conflits' = conflits \cup {<<Last(pile[r]), a>>}
    /\ \/ UNCHANGED bloques
       \/ pile[r] # <<>> /\ bloques' = bloques \cup {r}
    /\ UNCHANGED <<depl, tache, evac, pieces, taches, evacues, retours, erreurs>>

(* faireTacheCallback has put its half transparent cube. *)
FinDebut(p) ==
    /\ EnTete(Debut(p)) /\ Depile(Debut(p))
    /\ UNCHANGED <<depl, tache, evac, pieces, taches, evacues, retours, erreurs>>
    /\ UNCHANGED <<publies, conflits, bloques>>

(* update finds the time of a task over; it is called by the main loop,    *)
(* so never inside a callback.                                             *)
CommenceFin(p) ==
    /\ tache[p] = "cours" /\ Debut(p) \notin publies
    /\ pile[RobotDe(Fin(p))] = <<>> /\ Empile(Fin(p))
    /\ UNCHANGED <<depl, tache, evac, pieces, taches, evacues, retours, erreurs>>
    /\ UNCHANGED <<publies, conflits, bloques>>

(* Mutant: the end is published with the piece still in the gripper.       *)
PriseTropTot(r, lieu) ==
    /\ depl[r].phase = "prise" /\ EnTete(Deplacement(r)) /\ lieu # "personne"
    /\ pieces' = [pieces EXCEPT ![Pince(r)] = pieces[lieu], ![lieu] = 0]
    /\ retours' = retours \cup {<<"deplacer", r>>}
    /\ depl' = [depl EXCEPT ![r].phase = "pose"]
    /\ UNCHANGED <<tache, evac, taches, evacues, erreurs, varsAppels>>

(* The robot takes what is at "lieu"; a piece taken from a post at work    *)
(* ends the task with an error.                                            *)
Prise(r, lieu) ==
    /\ depl[r].phase = "prise" /\ EnTete(Deplacement(r))
    /\ depl' = [depl EXCEPT ![r].phase = "pose"]
    /\ IF lieu = "personne"
       THEN /\ erreurs' = erreurs \cup {"pas de navette"}
            /\ UNCHANGED <<pieces, tache, retours>>
       ELSE /\ pieces' = [pieces EXCEPT ![Pince(r)] = pieces[lieu], ![lieu] = 0]
            /\ LET p == PosteDe(r, depl[r].A)
                   encours == depl[r].A \in {1, 4} /\ tache[p] = "cours"
               IN  /\ tache' = IF encours THEN [tache EXCEPT ![p] = "repos"] ELSE tache
                   /\ retours' = IF encours THEN retours \cup {<<"tache", p>>} ELSE retours
                   /\ erreurs' = IF encours THEN erreurs \cup {"traitement"} ELSE erreurs
    /\ UNCHANGED <<evac, taches, evacues, varsAppels>>

(* The robot puts it down: over whatever is there, or nowhere. *)
Pose(r, lieu) ==
    /\ depl[r].phase = "pose" /\ EnTete(Deplacement(r))
    /\ Depile(Deplacement(r))
    /\ depl' = [depl EXCEPT ![r] = Repos]
    /\ retours' = retours \cup {<<"deplacer", r>>}
    /\ IF lieu = "personne"
       THEN /\ erreurs' = erreurs \cup {"pas de navette"}
            /\ pieces' = [pieces EXCEPT ![Pince(r)] = 0]
       ELSE /\ erreurs' = IF pieces[lieu] # 0 THEN erreurs \cup {"ecrasement"} ELSE erreurs
            /\ pieces' = [pieces EXCEPT ![lieu] = pieces[Pince(r)], ![Pince(r)] = 0]
    /\ UNCHANGED <<tache, evac, taches, evacues, publies, conflits, bloques>>

(* A task ends; on an empty post or a full stack it is refused. *)
FinTache(p) ==
    /\ tache[p] = "cours" /\ EnTete(Fin(p))
    /\ Depile(Fin(p))
    /\ tache' = [tache EXCEPT ![p] = "repos"]
    /\ retours' = retours \cup {<<"tache", p>>}
    /\ LET q == pieces[Poste(p)] IN
       IF q = 0 \/ Len(taches[q]) = MaxTaches
       THEN /\ erreurs' = erreurs \cup {IF q = 0 THEN "poste vide" ELSE "produit plein"}
            /\ UNCHANGED taches
       ELSE taches' = [taches EXCEPT ![q] = Append(@, p)] /\ UNCHANGED erreurs
    /\ UNCHANGED <<depl, evac, pieces, evacues, publies, conflits, bloques>>

(* Mutant: the cubes stay on the post.                                     *)
EvacueSansVider ==
    /\ evac /\ EnTete(Evacuation)
    /\ Depile(Evacuation)
    /\ evac' = FALSE
    /\ evacues' = Append(evacues, pieces[Poste(3)])
    /\ UNCHANGED <<depl, tache, pieces, taches, retours, erreurs, publies, conflits, bloques>>

(* Robot 2 empties post 3. *)
Evacue ==
    /\ evac /\ EnTete(Evacuation)
    /\ Depile(Evacuation)
    /\ evac' = FALSE
    /\ evacues' = Append(evacues, pieces[Poste(3)])
    /\ pieces' = [pieces EXCEPT ![Poste(3)] = 0]
    /\ UNCHANGED <<depl, tache, taches, retours, erreurs, publies, conflits, bloques>>
=============================================================================
