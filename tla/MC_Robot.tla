------------------------------ MODULE MC_Robot ------------------------------
(***************************************************************************)
(* Robot 2 with the posts 3 (position 1) and 4 (position 4), one shuttle   *)
(* that carries a product at place 2, and two cubes per stack: a product   *)
(* and one task.                                                           *)
(***************************************************************************)
EXTENDS CommandeRobot

MCNavettes == {"navetteA"}
MCNumeroPoste == [p \in {1, 4} |-> IF p = 1 THEN 3 ELSE 4]
PilesDe(o, p) == [i \in 1..NB_CUBE |-> IF i = 1 THEN p ELSE 0]
MCCubes == [o \in {"poste1", "poste4"} \cup MCNavettes |->
              PilesDe(o, CASE o = "poste1" -> 0
                           [] o = "poste4" -> 24
                           [] OTHER -> 14)]
MCPlaces == [p \in {2, 3} |-> IF p = 2 THEN "navetteA" ELSE "66"]

Deplacer(A, B) == Ordre("deplacer", A, B, 0, 0)
Tache(p) == Ordre("tache", p, 0, 0, 0)
Evacuation == Ordre("evacuer", 0, 0, 0, 0)
Stop(p) == Ordre("stopTache", p, 0, 0, 0)

OrdresPieces == {Deplacer(2, 1), Deplacer(1, 2), Deplacer(4, 1), Tache(1), Tache(4),
                 Evacuation}
UnALaFois == {{g} : g \in Genres}

(* The overlaps of main_commande.cpp on robot 2: at the place 160 of its   *)
(* net the task of post 4 starts, then a piece is moved to post 3, worked  *)
(* on and evacuated before that task is waited for.                        *)
OrdresPetri == {Deplacer(2, 1), Tache(4), Evacuation}
EvacuerPendantTache == SUBSET {"evacuer", "tache4"}

(* No shuttle and no care: tasks on an empty or full post, a stop for a    *)
(* post where no task runs, a piece asked of a place without shuttle, an   *)
(* evacuation of an empty post.                                            *)
PlacesVides == [p \in {2, 3} |-> "66"]
CubesPostes == [o \in {"poste1", "poste4"} |->
                    PilesDe(o, IF o = "poste1" THEN 0 ELSE 24)]
OrdresImprudents ==
    {Deplacer(4, 1), Deplacer(2, 4), Tache(4), Stop(4), Evacuation}

OrdresBras ==
    {Ordre("position", 3, 0, 0, 0), Ordre("joints", 0, 0, 0, 0),
     Ordre("descendre", 0, 0, 0, 0), Ordre("monter", 0, 0, 0, 0),
     Ordre("fermer", 0, 0, 0, 0), Ordre("ouvrir", 0, 0, 0, 0),
     Ordre("controler", 1, 0, -1, 1)}

PiecesOuBras == {OrdresPieces, OrdresBras}
Imprudents == {OrdresImprudents}
Petri == {OrdresPetri}
=============================================================================
