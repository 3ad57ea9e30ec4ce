----------------------------- MODULE Simulateur -----------------------------
(***************************************************************************)
(* The CoppeliaSim scene as one robot node uses it; its scripts are not    *)
(* under src/.  Each channel answers its requests in order, the channels   *)
(* are independent.  The answer to GetColor is a bare Int32: objet and     *)
(* rang are kept beside it to say which question it answers, and no action *)
(* of the node reads them.                                                 *)
(***************************************************************************)
EXTENDS Topics

CONSTANTS CubesInitiaux, PlacesInitiales

ASSUME SceneAssumption ==
    /\ CubesInitiaux \in [Objets -> Cubes]
    /\ PlacesInitiales \in [PositionsNavette -> Navettes \cup {AucuneNavette}]

VARIABLES
    cubes,     \* colours shown on each post and shuttle
    consigne,  \* last pose asked for
    pose       \* pose of the arm

varsSimulateur == <<cubes, consigne, pose>>

InitSimulateur ==
    /\ cubes = CubesInitiaux
    /\ consigne = Pose(0, 0)
    /\ pose = Pose(0, 0)
    /\ navette = PlacesInitiales

CouleurDe(objet, rang) ==
    IF rang \in 1..NB_CUBE THEN cubes[objet][rang] ELSE 0

Reponse(canal, r) ==
    [type   |-> "reponse",
     canal  |-> canal,
     couleur |-> IF canal = "getColor" THEN CouleurDe(r.objet, r.rang) ELSE 0,
     pose   |-> IF canal = "getJointState" THEN pose ELSE Pose(0, 0),
     objet  |-> r.objet,
     rang   |-> r.rang]

(* The simulator executes the oldest request of a channel and answers. *)
Repond(canal) ==
    /\ requetes[canal] # <<>>
    /\ LET r == Head(requetes[canal]) IN
       /\ entree' = Append(entree, Reponse(canal, r))
       /\ cubes' = IF canal \in {"changeColor", "changeShuttleColor"}
                   THEN [cubes EXCEPT ![r.objet] = r.cubes] ELSE cubes
       /\ consigne' = IF canal = "setJointState" THEN r.pose ELSE consigne
    /\ requetes' = [requetes EXCEPT ![canal] = Tail(@)]
    /\ UNCHANGED <<sortie, cmdPince, pose, navette>>

(* The joints reach the pose they were given. *)
BrasBouge ==
    /\ pose # consigne
    /\ pose' = consigne
    /\ UNCHANGED <<varsTopics, cubes, consigne, navette>>

(* A shuttle comes to a place or leaves it, as the shuttle manager sees it. *)
NavetteBouge(p) ==
    /\ navette' \in [PositionsNavette -> Navettes \cup {AucuneNavette}]
    /\ \A q \in PositionsNavette \ {p} : navette'[q] = navette[q]
    /\ navette' # navette
    /\ \A n \in Navettes : ~(navette'[2] = n /\ navette'[3] = n)
    /\ UNCHANGED <<varsTopics, cubes, consigne, pose>>
=============================================================================
