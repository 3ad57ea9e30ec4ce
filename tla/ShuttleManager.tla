--------------------------- MODULE ShuttleManager ---------------------------
(***************************************************************************)
(* The node Shuttle_manager (src/ros_ws/src/shuttles).  It never sees the  *)
(* shuttles: it keeps one queue of shuttle numbers per section, and moves  *)
(* the head of a queue when the sensor at the end of the section falls.    *)
(*                                                                         *)
(* The main loop is modelled step by step, because the sensor image it     *)
(* works on is only refreshed by the callbacks of spinOnce:                *)
(*   attente  waiting for /commande_locale/nbNavettes                      *)
(*   releve   copy the sensor image, find the falling edges                *)
(*   fronts   treat the edges in increasing order, then spinOnce           *)
(***************************************************************************)
EXTENDS Reseau

VARIABLES
    etape,        \* where the main loop is
    capteur,      \* class Capteurs: last Msg_SensorState received
    etat_capteur, \* sensor levels of the current iteration
    fronts,       \* falling edges of the iteration still to be treated
    file,         \* liste_file: the queues
    erreur_log,   \* sections named by the Msg_Erreur of code 4, in order
    reponse       \* last request to get_id_shuttle_at_poste and its answer

varsManager ==
    <<etape, capteur, etat_capteur, fronts, file, erreur_log, reponse>>

Aucune == 66     \* IdShuttle when the queue is empty
PerdUne == -1    \* maj: the switch was on neither stop

Minimum(S) == CHOOSE i \in S : \A j \in S : i <= j

(* The levels of an image before the first message. *)
CapteursAuRepos ==
    [PS |-> [t \in Troncons |-> FALSE],
     DD |-> [a \in Aiguillages |-> FALSE],
     DG |-> [a \in Aiguillages |-> FALSE]]

InitManager ==
    /\ etape = "attente"
    /\ capteur = CapteursAuRepos
    /\ etat_capteur = [t \in Troncons |-> FALSE]
    /\ fronts = {}
    /\ file = [t \in Troncons |-> <<>>]
    /\ erreur_log = <<>>
    /\ reponse = [num_capteur |-> 0, IdShuttle |-> Aucune]
-----------------------------------------------------------------------------
(* Mutants of maj: the two end stops exchanged; the left stop forgotten.   *)
majInverse(t) ==
    LET a == id_aiguillage[t] IN
    IF file[t] = <<>> THEN 0
    ELSE IF a = 0 \/ capteur.DG[a] THEN successeur_droite[t]
    ELSE IF capteur.DD[a] THEN successeur_gauche[t]
    ELSE PerdUne

majSansGauche(t) ==
    LET a == id_aiguillage[t] IN
    IF file[t] = <<>> THEN 0
    ELSE IF a = 0 \/ capteur.DD[a] THEN successeur_droite[t]
    ELSE PerdUne

(* FileAttente::maj: the queue the head of file t goes to. *)
maj(t) ==
    LET a == id_aiguillage[t] IN
    IF file[t] = <<>> THEN 0
    ELSE IF a = 0 \/ capteur.DD[a] THEN successeur_droite[t]
    ELSE IF capteur.DG[a] THEN successeur_gauche[t]
    ELSE PerdUne

(* nbNavettes arrived during the waiting loop: the queues are filled. *)
InitPosNavette ==
    /\ etape = "attente"
    /\ file' = FileInitiale
    /\ etape' = "releve"
    /\ UNCHANGED <<capteur, etat_capteur, fronts, erreur_log, reponse>>

(* mem_capteur = etat_capteur, then etat_capteur is read from the image. *)
Releve ==
    /\ etape = "releve"
    /\ etat_capteur' = capteur.PS
    /\ fronts' = {t \in Troncons : etat_capteur[t] /\ ~capteur.PS[t]}
    /\ etape' = "fronts"
    /\ UNCHANGED <<capteur, file, erreur_log, reponse>>

(* Mutants of TraiteFront: the shuttle is added to its new queue and not   *)
(* removed from the old one; a loss is not reported; a loss is reported    *)
(* and the shuttle kept; the loop stops when two edges come together.      *)
TraiteFrontMutant(perdue, gardee) ==
    /\ etape = "fronts"
    /\ fronts # {}
    /\ LET t == Minimum(fronts)
           suivante == maj(t)
       IN  /\ fronts' = fronts \ {t}
           /\ file' = [u \in Troncons |->
                 CASE u = suivante -> Append(file[u], Head(file[t]))
                   [] u = t /\ suivante > 0 -> IF gardee THEN file[t] ELSE Tail(file[t])
                   [] u = t /\ suivante = PerdUne -> IF perdue THEN file[t] ELSE Tail(file[t])
                   [] OTHER -> file[u]]
           /\ erreur_log' = IF suivante = PerdUne /\ perdue
                            THEN Append(erreur_log, t) ELSE erreur_log
    /\ UNCHANGED <<etape, capteur, etat_capteur, reponse>>

TraiteFrontSansRetrait == TraiteFrontMutant(TRUE, TRUE)
TraiteFrontSansErreur == TraiteFrontMutant(FALSE, FALSE)
TraiteFrontPerteGardee == TraiteFrontMutant(TRUE, FALSE)

TraiteFrontSeul ==
    /\ etape = "fronts"
    /\ \E t \in fronts :
          /\ fronts = {t}
          /\ maj(t) > 0
          /\ file' = [file EXCEPT ![maj(t)] = Append(@, Head(file[t])), ![t] = Tail(@)]
    /\ fronts' = {}
    /\ UNCHANGED <<etape, capteur, etat_capteur, erreur_log, reponse>>

(* The body of the loop over the sections, for the next falling edge. *)
TraiteFront ==
    /\ etape = "fronts"
    /\ fronts # {}
    /\ LET t == Minimum(fronts)
           suivante == maj(t)
       IN  /\ fronts' = fronts \ {t}
           /\ \/ /\ suivante > 0
                 /\ file' = [file EXCEPT ![suivante] = Append(@, Head(file[t])),
                                         ![t] = Tail(@)]
                 /\ UNCHANGED erreur_log
              \/ /\ suivante = PerdUne
                 /\ file' = [file EXCEPT ![t] = Tail(@)]
                 /\ erreur_log' = Append(erreur_log, t)
              \/ /\ suivante = 0
                 /\ UNCHANGED <<file, erreur_log>>
    /\ UNCHANGED <<etape, capteur, etat_capteur, reponse>>

(* Once the edges are treated (or in the waiting loop), spinOnce runs the  *)
(* callbacks.  The subscriber of the sensors keeps one message only, so at *)
(* most the last one is delivered per turn.                                *)
PretASpin == etape = "attente" \/ (etape = "fronts" /\ fronts = {})

FinDeTour == etape' = IF etape = "attente" THEN "attente" ELSE "releve"

CallbackCapteurs(msg) ==
    /\ PretASpin
    /\ capteur' = msg
    /\ FinDeTour
    /\ UNCHANGED <<etat_capteur, fronts, file, erreur_log, reponse>>

(* A turn without a sensor message. *)
SpinSansCapteurs ==
    /\ etape = "fronts" /\ fronts = {}
    /\ FinDeTour
    /\ UNCHANGED <<capteur, etat_capteur, fronts, file, erreur_log, reponse>>

(* Mutants of ShuttleAtPoste: -1 for an empty queue; the back of the queue *)
(* instead of its front.                                                   *)
Repondre(num_capteur, id) ==
    /\ etape = "fronts" /\ fronts = {}
    /\ reponse' = [num_capteur |-> num_capteur, IdShuttle |-> id]
    /\ UNCHANGED <<etape, capteur, etat_capteur, fronts, file, erreur_log>>

ShuttleAtPosteMoinsUn(num_capteur) ==
    Repondre(num_capteur,
             IF file[num_capteur] # <<>> THEN Head(file[num_capteur]) ELSE -1)

ShuttleAtPosteDernier(num_capteur) ==
    Repondre(num_capteur,
             IF file[num_capteur] # <<>>
             THEN file[num_capteur][Len(file[num_capteur])] ELSE Aucune)

(* Service get_id_shuttle_at_poste, for the section the request maps to.   *)
(* During the waiting loop liste_file is empty and the code would index    *)
(* past its end: requests are only modelled once the queues exist.         *)
ShuttleAtPoste(num_capteur) ==
    /\ etape = "fronts" /\ fronts = {}
    /\ reponse' = [num_capteur |-> num_capteur,
                   IdShuttle   |-> IF file[num_capteur] # <<>>
                                   THEN Head(file[num_capteur])
                                   ELSE Aucune]
    /\ UNCHANGED <<etape, capteur, etat_capteur, fronts, file, erreur_log>>
=============================================================================
