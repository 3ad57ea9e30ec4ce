-------------------------- MODULE OrdresAiguillages -------------------------
(***************************************************************************)
(* The net gives orders to the switches through AigsInterface; the node,   *)
(* the command and the scene carry them out.  What the net waits for       *)
(* before it orders a switch again is the constant Attente:                *)
(*   "rien"   nothing;                                                     *)
(*   "butee"  the sensor shows the stop asked for before, and the messages *)
(*            of that move have arrived;                                   *)
(*   "repos"  a shuttle has passed meanwhile, so that nothing about this   *)
(*            switch is under way any more.                                *)
(***************************************************************************)
EXTENDS ActionneursAiguillages

CONSTANTS Attente,
          MaxOrdres   \* bound: orders given

ASSUME AttenteAssumption ==
    /\ Attente \in {"rien", "butee", "repos"}
    /\ MaxOrdres \in Nat

VARIABLES dernier,  \* side last asked of each switch
          ordres    \* orders still to be given

vars == <<varsNoeud, varsActionneurs, dernier, ordres>>

Init ==
    /\ InitNoeud
    /\ InitActionneurs
    /\ dernier = AigInitial
    /\ ordres = MaxOrdres

(* Something about switch a is still under way, from the node's input to   *)
(* the words the scene reads.                                              *)
EnVol(a) ==
    \/ \E i \in DOMAIN versCommande : versCommande[i].aig = a
    \/ \E i \in DOMAIN actionneurs : a \in actionneurs[i].RD \cup actionneurs[i].RG

EnCours(a) ==
    \/ \E i \in DOMAIN entree : entree[i].type = "ordre" /\ entree[i].aig = a
    \/ \E i \in DOMAIN pile : pile[i].aig = a
    \/ EnVol(a)

(* The node's image of switch a is right. *)
NoeudSait(a) == \A c \in Cotes : Aig[c][a] <=> (aig[a] = c)

(* The image that shows the stop is also among the node's messages. *)
ButeeVue(a) ==
    /\ aig[a] = dernier[a]
    /\ \/ NoeudSait(a)
       \/ \E i \in DOMAIN entree :
            entree[i].type = "capteur" /\ entree[i].image[aig[a]][a]

Peut(a) ==
    CASE Attente = "rien"  -> TRUE
      [] Attente = "butee" -> ButeeVue(a) /\ ~EnVol(a)
      [] Attente = "repos" -> aig[a] = dernier[a] /\ NoeudSait(a) /\ ~EnCours(a)

(* AigsInterface::Droite and Gauche. *)
Commande(c, a) ==
    /\ Peut(a)
    /\ ordres > 0
    /\ ordres' = ordres - 1
    /\ dernier' = [dernier EXCEPT ![a] = c]
    /\ entree' = Append(entree, Ordre(c, a))
    /\ UNCHANGED <<lot, pile, Aig, versCommande, varsActionneurs>>

CommandeNext ==
    \E i \in DOMAIN versCommande :
        \/ DeverouilleAiguillagesCallback(i)
        \/ VerouilleAiguillagesCallback(i)
        \/ AiguillagesCallback(i)

(* The next message of the topic of side c. *)
MoveRecu(c) ==
    \E i \in DOMAIN versCommande :
        versCommande[i].sujet = c /\ AiguillagesCallback(i)

SceneNext ==
    \/ PasScene
    \/ \E a \in Aiguillages : Bouge(a)
    \/ EmetCapteur

Suite == UNCHANGED <<dernier, ordres>>

Next ==
    \/ \E a \in Aiguillages, c \in Cotes : Commande(c, a)
    \/ NoeudNext /\ UNCHANGED varsActionneurs /\ Suite
    \/ CommandeNext /\ Suite
    \/ StateSwitchCallBack /\ Suite
    \/ SceneNext /\ Suite

Spec == Init /\ [][Next]_vars

(* Each process loops; the net owes no order.  No topic of the command is  *)
(* starved by another one and a switch is driven to its stop, although     *)
(* moves are held back while a message is under way (strong).              *)
Equite ==
    /\ WF_vars(NoeudNext /\ UNCHANGED varsActionneurs /\ Suite)
    /\ WF_vars((\E i \in DOMAIN versCommande : DeverouilleAiguillagesCallback(i)) /\ Suite)
    /\ WF_vars((\E i \in DOMAIN versCommande : VerouilleAiguillagesCallback(i)) /\ Suite)
    /\ \A c \in Cotes : SF_vars(MoveRecu(c) /\ Suite)
    /\ WF_vars(StateSwitchCallBack /\ Suite)
    /\ WF_vars(PasScene /\ Suite)
    /\ WF_vars(EmetCapteur /\ Suite)
    /\ \A a \in Aiguillages : SF_vars(Bouge(a) /\ Suite)

FairSpec == Spec /\ Equite
-----------------------------------------------------------------------------
MessagesNoeud ==
    {Ordre(c, a) : c \in Cotes, a \in Aiguillages}
      \cup {Capteur(i) : i \in [Cotes -> [Aiguillages -> BOOLEAN]]}

Mots == [RD : SUBSET Aiguillages, RG : SUBSET Aiguillages, LOCK : SUBSET Aiguillages]

TypeOK ==
    /\ entree \in Seq(MessagesNoeud)
    /\ lot \in 0..Len(entree)
    /\ pile \in Seq([cote : Cotes, aig : Aiguillages, spin : BOOLEAN])
    /\ Aig \in [Cotes -> [Aiguillages -> BOOLEAN]]
    /\ versCommande \in Seq([sujet : Cotes \cup {"Dev", "Ver"}, aig : Aiguillages])
    /\ Vx \in [Aiguillages -> BOOLEAN]
    /\ Dx \in [Aiguillages -> BOOLEAN]
    /\ actionneurs \in Seq(Mots)
    /\ mot \in Mots
    /\ cible \in [Aiguillages -> Cotes]
    /\ aig \in [Aiguillages -> Cotes \cup {"M"}]
    /\ dernier \in [Aiguillages -> Cotes]
    /\ ordres \in Nat

(* A switch is unlocked before it starts to move and locked after: the     *)
(* command believes it unlocked all the while it moves.                    *)
BougeDeverrouille ==
    \A a \in Aiguillages : aig[a] = "M" => Dx[a] /\ ~Vx[a]

(* Once nothing about a switch is under way, the command does not believe  *)
(* it unlocked: "Verouillage de l'aiguillage" ends every move.             *)
VerrouilleAuRepos ==
    \A a \in Aiguillages : ~EnCours(a) => ~Dx[a]

(* Once nothing is under way each switch is on the side last asked: what   *)
(* the node logs, "On bouge a droite, aig numero ...", is what happened.   *)
DernierOrdre ==
    \A a \in Aiguillages : ~EnCours(a) /\ aig[a] = cible[a] => aig[a] = dernier[a]

(* Seen from the net the whole chain is PositionAiguillages: a switch goes *)
(* to the side asked for and stays there.                                  *)
Position == INSTANCE PositionAiguillages WITH cote <- dernier, position <- aig
ImplementePosition == Position!Spec

(* Whatever the net asks, even opposite orders nested in each other, every *)
(* loop of the node ends.                                                  *)
ToutFinit == []<>(pile = <<>> /\ entree = <<>>)
=============================================================================
