----------------------- MODULE ActionneursAiguillages -----------------------
(***************************************************************************)
(* From the node of the switches to the rail: the four callbacks of        *)
(* commande.cpp, StateSwitchCallBack of inOutController, and the switches  *)
(* of the scene (external).  A word of bits is the set of the switches     *)
(* whose bit is set.                                                       *)
(***************************************************************************)
EXTENDS Aiguillage, SequencesExt

CONSTANT MaxActionneurs  \* bound: messages under way to commande_locale

ASSUME ActionneursAssumption == MaxActionneurs \in Nat \ {0}

VARIABLES
    Vx, Dx,       \* locked and unlocked, as the command believes
    actionneurs,  \* topic Actionneurs_aiguillages
    mot,          \* last words sent to the scene
    cible,        \* stop each switch of the scene drives to
    aig           \* where it is: "D", "G", or "M" in between

varsActionneurs == <<Vx, Dx, actionneurs, mot, cible, aig>>

SansMot == [RD |-> {}, RG |-> {}, LOCK |-> {}]

InitActionneurs ==
    /\ Vx = [a \in Aiguillages |-> FALSE]
    /\ Dx = [a \in Aiguillages |-> FALSE]
    /\ actionneurs = <<>>
    /\ mot = SansMot
    /\ cible = AigInitial
    /\ aig = AigInitial

(* The i-th message may be the next one the command gets: a topic keeps    *)
(* its order, but each of the four has a connection of its own.            *)
Suivant(i) ==
    /\ i \in DOMAIN versCommande
    /\ \A j \in 1..(i - 1) : versCommande[j].sujet # versCommande[i].sujet

Recoit(i, sujets) ==
    /\ Suivant(i) /\ versCommande[i].sujet \in sujets
    /\ versCommande' = RemoveAt(versCommande, i)
    /\ UNCHANGED <<entree, lot, pile, Aig>>

DeverouilleAiguillagesCallback(i) ==
    /\ Recoit(i, {"Dev"})
    /\ Dx' = [Dx EXCEPT ![versCommande[i].aig] = TRUE]
    /\ Vx' = [Vx EXCEPT ![versCommande[i].aig] = FALSE]
    /\ UNCHANGED <<actionneurs, mot, cible, aig>>

VerouilleAiguillagesCallback(i) ==
    /\ Recoit(i, {"Ver"})
    /\ Dx' = [Dx EXCEPT ![versCommande[i].aig] = FALSE]
    /\ Vx' = [Vx EXCEPT ![versCommande[i].aig] = TRUE]
    /\ UNCHANGED <<actionneurs, mot, cible, aig>>

(* Mutant: bit i-1 for switch i.                                           *)
MotDecale(c, a) ==
    [RD |-> IF c = "D" THEN {a - 1} ELSE {},
     RG |-> IF c = "G" THEN {a - 1} ELSE {},
     LOCK |-> {b \in Aiguillages : ~Vx[b] /\ Dx[b]}]

(* RxD and RxG are low but for the one bit, raised for this message only. *)
Mot(c, a) ==
    [RD |-> IF c = "D" THEN {a} ELSE {},
     RG |-> IF c = "G" THEN {a} ELSE {},
     LOCK |-> {b \in Aiguillages : ~Vx[b] /\ Dx[b]}]

AiguillagesCallback(i) ==
    /\ Recoit(i, Cotes)
    /\ Len(actionneurs) < MaxActionneurs
    /\ actionneurs' =
         Append(actionneurs, Mot(versCommande[i].sujet, versCommande[i].aig))
    /\ UNCHANGED <<Vx, Dx, mot, cible, aig>>

(* commande_locale hands the three words to the scene, over the last ones. *)
StateSwitchCallBack ==
    /\ actionneurs # <<>>
    /\ mot' = Head(actionneurs)
    /\ actionneurs' = Tail(actionneurs)
    /\ UNCHANGED <<varsNoeud, Vx, Dx, cible, aig>>

(* A step of the scene reads the words it has now: an order overwritten    *)
(* between two steps is lost.                                              *)
PasScene ==
    /\ cible' = [a \in Aiguillages |->
                   IF a \in mot.RD THEN "D"
                   ELSE IF a \in mot.RG THEN "G" ELSE cible[a]]
    /\ cible' # cible
    /\ UNCHANGED <<varsNoeud, Vx, Dx, actionneurs, mot, aig>>

(* A switch leaves its stop, then reaches the other one; that takes longer *)
(* than the messages about it, which arrive meanwhile.                     *)
Bouge(a) ==
    /\ aig[a] # cible[a]
    /\ \A i \in DOMAIN versCommande : versCommande[i].aig # a
    /\ aig' = [aig EXCEPT ![a] = IF @ = "M" THEN cible[a] ELSE "M"]
    /\ UNCHANGED <<varsNoeud, Vx, Dx, actionneurs, mot, cible>>

ImageScene == [c \in Cotes |-> [a \in Aiguillages |-> aig[a] = c]]

(* The scene sends SwitchSensor; an image equal to the one the node has    *)
(* would change nothing, and one at a time is under way to it.             *)
EmetCapteur ==
    /\ \A i \in (lot + 1)..Len(entree) : entree[i].type # "capteur"
    /\ ImageScene # Aig
    /\ entree' = Append(entree, Capteur(ImageScene))
    /\ UNCHANGED <<lot, pile, Aig, versCommande, varsActionneurs>>
=============================================================================
