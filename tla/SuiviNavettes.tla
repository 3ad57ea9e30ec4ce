--------------------------- MODULE SuiviNavettes ----------------------------
(***************************************************************************)
(* The shuttle manager beside the rail it follows.  What it can promise    *)
(* depends on two things it does not control, which are parameters:        *)
(*                                                                         *)
(*   Cadence     the rail is slow for a 25 Hz loop: a sensor level lasts   *)
(*               until it has been sampled, a shuttle does not reach the   *)
(*               next sensor, nor another one this sensor, before the      *)
(*               departure before it was treated;                          *)
(*   Discipline  what the project's subject asks of the student's command: *)
(*               the switches are set early enough, so a shuttle leaves a  *)
(*               section only when the switch is on a stop that leads      *)
(*               somewhere, and the switch stays there until the manager   *)
(*               has treated the departure.                                *)
(***************************************************************************)
EXTENDS ShuttleManager, Voie

CONSTANTS Cadence, Discipline,
          Commandes   \* the switches that the command moves

ASSUME ModeAssumption ==
    /\ Cadence \in BOOLEAN
    /\ Discipline \in BOOLEAN
    /\ Commandes \subseteq Aiguillages

vars == <<varsManager, varsVoie>>

(* A shuttle has left the sensor of t and its queue does not know yet: the *)
(* edge is not sampled, is sampled but not found, or is found but waits.   *)
DepartEnCours(t) ==
    \/ capteur.PS[t] /\ ~present[t]
    \/ etape # "fronts" /\ etat_capteur[t] /\ ~capteur.PS[t]
    \/ t \in fronts

(* Some departure toward t is still unknown. *)
EntreeEnCours(t) == \E u \in Troncons : DepartEnCours(u) /\ Sortie(u) = t

Init == InitManager /\ InitVoie

ArriveCapteur(t) ==
    /\ Cadence => /\ etape # "attente"
                  /\ ~DepartEnCours(t)
                  /\ ~EntreeEnCours(t)
    /\ Arrive(t)
    /\ UNCHANGED varsManager

QuitteCapteur(t) ==
    /\ Cadence => capteur.PS[t]
    /\ \E s \in Successeurs(t) :
         /\ Discipline => s = Sortie(t)
         /\ Cadence /\ Discipline => ~EntreeEnCours(s)
         /\ Quitte(t, s)
    /\ UNCHANGED varsManager

OrdreAiguillage(a) ==
    /\ Discipline => \A t \in Troncons : DepartEnCours(t) => id_aiguillage[t] # a
    /\ \E pos \in {"D", "G", "M"} :
         /\ aig[a] = "M" \/ pos = "M"
         /\ BougeAiguillage(a, pos)
    /\ UNCHANGED varsManager

EnvNext ==
    \/ \E t \in Troncons : ArriveCapteur(t) \/ QuitteCapteur(t)
    \/ \E a \in Commandes : OrdreAiguillage(a)

ManagerNext ==
    /\ \/ InitPosNavette
       \/ Releve
       \/ TraiteFront
       \/ CallbackCapteurs(Image)
       \/ SpinSansCapteurs
       \/ \E c \in TronconsPoste : ShuttleAtPoste(c)
    /\ UNCHANGED varsVoie

Next == ManagerNext \/ EnvNext

Spec == Init /\ [][Next]_vars

(* roscpp keeps running the loop, the sensors keep publishing; nothing     *)
(* forces a shuttle to move.                                               *)
Equite ==
    /\ WF_vars(InitPosNavette /\ UNCHANGED varsVoie)
    /\ WF_vars(Releve /\ UNCHANGED varsVoie)
    /\ WF_vars(TraiteFront /\ UNCHANGED varsVoie)
    /\ SF_vars(CallbackCapteurs(Image) /\ UNCHANGED varsVoie)

FairSpec == Spec /\ Equite
-----------------------------------------------------------------------------
CapteursType ==
    [PS : [Troncons -> BOOLEAN],
     DD : [Aiguillages -> BOOLEAN],
     DG : [Aiguillages -> BOOLEAN]]

TypeOK ==
    /\ etape \in {"attente", "releve", "fronts"}
    /\ capteur \in CapteursType
    /\ etat_capteur \in [Troncons -> BOOLEAN]
    /\ fronts \subseteq Troncons
    /\ file \in [Troncons -> Seq(Navettes)]
    /\ erreur_log \in Seq(Troncons)
    /\ reponse \in [num_capteur : TronconsPoste \cup {0},
                    IdShuttle : Navettes \cup {Aucune}]
    /\ voie \in [Troncons -> Seq(Navettes)]
    /\ present \in [Troncons -> BOOLEAN]
    /\ aig \in [Aiguillages -> {"D", "G", "M"}]

(* Whatever the switches and the sensors do, missed edges included, the    *)
(* manager never holds a shuttle twice: add_navette_in_queue is always     *)
(* matched by delete_navette_in_queue on the queue it came from.           *)
UneSeuleFile ==
    \A s, t \in Troncons :
        \A i \in DOMAIN file[s], j \in DOMAIN file[t] :
            file[s][i] = file[t][j] => s = t /\ i = j

(* A sensor is high only because of a shuttle of its section. *)
NavettePresente == \A t \in Troncons : present[t] => voie[t] # <<>>

(* What every step keeps, whatever the mode: the inductive invariant of    *)
(* SuiviNavettes_proofs.                                                   *)
InvInductif == TypeOK /\ NavettePresente /\ UneSeuleFile

(* What the robots are told of a shuttle: the section whose queue holds    *)
(* it.  The tracking implements LieuNavettes: one shuttle at a time moves, *)
(* to a neighbouring section or, with an error in the log, out of sight.   *)
Lieu == [n \in Navettes |->
           IF etape = "attente" THEN 0
           ELSE IF \E t \in Troncons : \E i \in DOMAIN file[t] : file[t][i] = n
           THEN CHOOSE t \in Troncons : \E i \in DOMAIN file[t] : file[t][i] = n
           ELSE -1]

Abstrait == INSTANCE LieuNavettes WITH lieu <- Lieu, pertes <- Len(erreur_log)
ImplementeLieux == Abstrait!Spec

(* A shuttle that no queue holds any more was reported: as many errors of  *)
(* code 4 as shuttles missing.                                             *)
Suivies == UNION {{file[t][i] : i \in DOMAIN file[t]} : t \in Troncons}

PerteSignalee ==
    etape # "attente" =>
        Len(erreur_log) + Cardinality(Suivies) = Cardinality(Navettes)

(* The queues that the departures under way will give. *)
FileAttendue(t) ==
    (IF DepartEnCours(t) THEN Tail(file[t]) ELSE file[t])
    \o (IF EntreeEnCours(t)
        THEN <<Head(file[CHOOSE u \in Troncons :
                            DepartEnCours(u) /\ Sortie(u) = t])>>
        ELSE <<>>)

(* The point of the node: with a slow rail and switches set in time, the   *)
(* queues are the sections, up to the departures not yet treated.          *)
SuiviExact ==
    etape # "attente" =>
        \A t \in Troncons : voie[t] = FileAttendue(t)

(* With switches set in time no shuttle is ever declared lost. *)
PasDeFaussePerte == erreur_log = <<>>

(* The answer given to a robot while a shuttle stands in front of it names *)
(* that shuttle: a product is put on the right one.                        *)
ServiceNommeLaNavette ==
    [][\A c \in TronconsPoste :
         ShuttleAtPoste(c) /\ present[c] => reponse'.IdShuttle = Head(voie[c])]_vars

(* A departure does not stay unknown. *)
DepartTraite ==
    \A t \in Troncons : DepartEnCours(t) ~> ~DepartEnCours(t)

=============================================================================
