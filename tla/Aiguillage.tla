----------------------------- MODULE Aiguillage -----------------------------
(***************************************************************************)
(* The node of the switches (src/ros_ws/src/aiguillages): one process for  *)
(* all of them.  An order is a callback that asks the command for the move *)
(* and loops on spinOnce until the sensor shows the stop, so the orders    *)
(* that arrive meanwhile run inside it: "pile" is the stack of the loops   *)
(* under way, the innermost first.  As in Robot, a spinOnce takes all that *)
(* has arrived (lot) if something new has, and returns when it is treated. *)
(***************************************************************************)
EXTENDS Integers, Sequences, FiniteSets

CONSTANTS Aiguillages,  \* switch numbers
          AigInitial    \* stop of each switch at the start

Cotes == {"D", "G"}

ASSUME AiguillageAssumption ==
    /\ IsFiniteSet(Aiguillages)
    /\ AigInitial \in [Aiguillages -> Cotes]

VARIABLES
    entree,       \* sensor images and orders that reached the node
    lot,          \* how many of them the current spinOnce has still to treat
    pile,         \* loops that wait for a stop, innermost first
    Aig,          \* Aig["D"] is Aig_D, Aig["G"] is Aig_G
    versCommande  \* messages of the four topics /commande/...Aiguillage...

varsNoeud == <<entree, lot, pile, Aig, versCommande>>

Oppose(c) == IF c = "D" THEN "G" ELSE "D"
Sujet(s, a) == [sujet |-> s, aig |-> a]
Boucle(c, a) == [cote |-> c, aig |-> a, spin |-> FALSE]

Ordre(c, a) == [type |-> "ordre", cote |-> c, aig |-> a]
Capteur(image) == [type |-> "capteur", image |-> image]

(* The constructor leaves Aig_D and Aig_G unset. *)
InitNoeud ==
    /\ entree = <<>>
    /\ lot = 0
    /\ pile = <<>>
    /\ Aig \in [Cotes -> [Aiguillages -> BOOLEAN]]
    /\ versCommande = <<>>

Publie(messages) == versCommande' = versCommande \o messages

EnSpin == pile # <<>> => Head(pile).spin

(* The callbacks of the current spinOnce, in order of arrival. *)
SwitchSensorCallback ==
    /\ EnSpin /\ lot > 0
    /\ Head(entree).type = "capteur"
    /\ Aig' = Head(entree).image
    /\ entree' = Tail(entree)
    /\ lot' = lot - 1
    /\ UNCHANGED <<pile, versCommande>>

(* Mutant: the switch is not unlocked first.                               *)
CoteCallbackSansDev ==
    /\ EnSpin /\ lot > 0
    /\ Head(entree).type = "ordre"
    /\ LET c == Head(entree).cote
           a == Head(entree).aig
       IN IF Aig[c][a] THEN UNCHANGED <<pile, versCommande>>
          ELSE /\ Publie(<<Sujet(c, a)>>)
               /\ pile' = <<Boucle(c, a)>> \o pile
    /\ entree' = Tail(entree)
    /\ lot' = lot - 1
    /\ UNCHANGED Aig

(* Mutant: the callback looks at the opposite stop.                        *)
CoteCallbackInverse ==
    /\ EnSpin /\ lot > 0
    /\ Head(entree).type = "ordre"
    /\ LET c == Head(entree).cote
           a == Head(entree).aig
       IN IF Aig[Oppose(c)][a] THEN UNCHANGED <<pile, versCommande>>
          ELSE /\ Publie(<<Sujet("Dev", a), Sujet(c, a)>>)
               /\ pile' = <<Boucle(c, a)>> \o pile
    /\ entree' = Tail(entree)
    /\ lot' = lot - 1
    /\ UNCHANGED Aig

(* GaucheCallback and DroiteCallback up to their loop: nothing to do on    *)
(* the stop asked for, else unlock and move.                               *)
CoteCallback ==
    /\ EnSpin /\ lot > 0
    /\ Head(entree).type = "ordre"
    /\ LET c == Head(entree).cote
           a == Head(entree).aig
       IN IF Aig[c][a] THEN UNCHANGED <<pile, versCommande>>
          ELSE /\ Publie(<<Sujet("Dev", a), Sujet(c, a)>>)
               /\ pile' = <<Boucle(c, a)>> \o pile
    /\ entree' = Tail(entree)
    /\ lot' = lot - 1
    /\ UNCHANGED Aig

(* spinOnce starts, from main or from the innermost loop. *)
SpinOnce ==
    /\ Len(entree) > lot
    /\ lot' = Len(entree)
    /\ \/ pile = <<>> /\ lot = 0 /\ UNCHANGED pile
       \/ pile # <<>> /\ ~Head(pile).spin
          /\ pile' = [pile EXCEPT ![1].spin = TRUE]
    /\ UNCHANGED <<entree, Aig, versCommande>>

(* Mutant: the order is sent once.                                         *)
RenvoiJamais(b) == <<>>

(* The order is sent again while the sensor still shows the other stop;    *)
(* bound: not while the same one is still under way.                       *)
Renvoi(b) ==
    IF /\ Aig[Oppose(b.cote)][b.aig]
       /\ \A i \in DOMAIN versCommande : versCommande[i] # Sujet(b.cote, b.aig)
    THEN <<Sujet(b.cote, b.aig)>> ELSE <<>>

(* A turn of the loop whose spinOnce found nothing. *)
TourAVide ==
    /\ pile # <<>> /\ ~Head(pile).spin
    /\ Len(entree) = lot
    /\ Publie(Renvoi(Head(pile)))
    /\ UNCHANGED <<entree, lot, pile, Aig>>

(* Mutant: the end does not lock.                                          *)
FinDeTourSansVer ==
    /\ pile # <<>> /\ Head(pile).spin
    /\ lot = 0
    /\ LET b == Head(pile) IN
       /\ Publie(Renvoi(b))
       /\ pile' = IF Aig[b.cote][b.aig] THEN Tail(pile)
                  ELSE [pile EXCEPT ![1].spin = FALSE]
    /\ UNCHANGED <<entree, lot, Aig>>

(* spinOnce returns to the loop: send again, then either the stop is shown *)
(* and the switch is locked, or one more turn.                             *)
FinDeTour ==
    /\ pile # <<>> /\ Head(pile).spin
    /\ lot = 0
    /\ LET b == Head(pile) IN
       IF Aig[b.cote][b.aig]
       THEN /\ Publie(Renvoi(b) \o <<Sujet("Ver", b.aig)>>)
            /\ pile' = Tail(pile)
       ELSE /\ Publie(Renvoi(b))
            /\ pile' = [pile EXCEPT ![1].spin = FALSE]
    /\ UNCHANGED <<entree, lot, Aig>>

NoeudNext ==
    \/ SwitchSensorCallback \/ CoteCallback
    \/ SpinOnce \/ TourAVide \/ FinDeTour
=============================================================================
