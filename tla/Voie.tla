-------------------------------- MODULE Voie --------------------------------
(***************************************************************************)
(* The physical rail, which is not under src/ (a CoppeliaSim scene): where *)
(* the shuttles really are, the sensors at the ends of the sections, the   *)
(* switches.  It is modelled from what the nodes rely on: a sensor is high *)
(* while the first shuttle of its section stands on it, and a shuttle that *)
(* leaves it enters the next section behind those already there.           *)
(***************************************************************************)
EXTENDS Reseau

VARIABLES
    voie,     \* shuttles in each section, the one nearest the sensor first
    present,  \* level of the sensor of each section
    aig       \* "D" or "G" on a stop, "M" while the switch moves

varsVoie == <<voie, present, aig>>

InitVoie ==
    /\ voie = FileInitiale
    /\ present = [t \in Troncons |-> FALSE]
    /\ aig = AigInitial

(* The section the switch leads to now; 0 when it leads nowhere. *)
Sortie(t) ==
    LET a == id_aiguillage[t] IN
    IF a = 0 \/ aig[a] = "D" THEN successeur_droite[t]
    ELSE IF aig[a] = "G" THEN successeur_gauche[t]
    ELSE 0

Arrive(t) ==
    /\ voie[t] # <<>>
    /\ ~present[t]
    /\ present' = [present EXCEPT ![t] = TRUE]
    /\ UNCHANGED <<voie, aig>>

Quitte(t, s) ==
    /\ present[t]
    /\ present' = [present EXCEPT ![t] = FALSE]
    /\ voie' = [voie EXCEPT ![s] = Append(@, Head(voie[t])), ![t] = Tail(@)]
    /\ UNCHANGED aig

BougeAiguillage(a, pos) ==
    /\ aig[a] # pos
    /\ aig' = [aig EXCEPT ![a] = pos]
    /\ UNCHANGED <<voie, present>>

(* What the sensors show, gathered by inOutController in one message. *)
Image ==
    [PS |-> present,
     DD |-> [a \in Aiguillages |-> aig[a] = "D"],
     DG |-> [a \in Aiguillages |-> aig[a] = "G"]]
=============================================================================
