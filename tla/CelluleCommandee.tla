-------------------------- MODULE CelluleCommandee --------------------------
(***************************************************************************)
(* The net of main_commande on the rail of the cell with its two shuttles, *)
(* the switches and the four robots.  The messages to the stops are taken  *)
(* at once, a switch goes to the side asked for as in PositionAiguillages. *)
(*                                                                         *)
(* The net does not look at everything it relies on: it counts on a robot  *)
(* being slower than a shuttle between two stops, and on shuttles of about *)
(* the same speed.  This is put as rounds: in a round each shuttle that is *)
(* not held reaches at least its next sensor and at most Allure of them,   *)
(* each switch its stop, and no robot does more than one step of its work. *)
(***************************************************************************)
EXTENDS Voie, Cellule, CommandeNet, RobotsAbstraits, SequencesExt

Checker == INSTANCE Verificateur

CONSTANTS Allure,     \* sections a shuttle may run while another runs one
          MaxPauses   \* bound: how often the user pauses the simulation

ASSUME RythmeAssumption == Allure \in Nat \ {0} /\ MaxPauses \in Nat

(* The net reads the sensors of the sections of the cell. *)
ASSUME CelluleAssumption == TronconsCellule \subseteq Troncons

VARIABLES
    arrets,  \* closed stops
    ergots,  \* pins that are out
    cote,    \* side asked of each switch
    marche,  \* the simulation runs
    pauses,  \* pauses still to come
    fait,    \* sensors each shuttle has reached in this round
    neuf,    \* work of the robots that began in this round
    duree,   \* of the last task of each post
    journal, \* log: entries and exits of products
    tempo,   \* log: ends of the tasks on each product
    manques  \* history: sensors whose level the net waited for and missed

varsActionneurs == <<arrets, ergots, cote>>
varsRythme == <<fait, neuf>>
varsJournal == <<duree, journal, tempo>>
varsMarche == <<marche, pauses>>
vars == <<varsVoie, varsNet, varsRobots, varsActionneurs, varsMarche, varsRythme, varsJournal, manques>>

Init ==
    /\ InitVoie /\ InitNet /\ InitRobots
    /\ arrets = {}
    /\ ergots = {}
    /\ cote = AigInitial
    /\ marche = FALSE /\ pauses = MaxPauses
    /\ fait = [n \in Navettes |-> 0] /\ neuf = {}
    /\ duree = [p \in Postes |-> 0] /\ journal = <<>>
    /\ tempo = [q \in 1..6 |-> <<>>]
    /\ manques = {}

(* What the sensors show, for the values the net reads. *)
Capteurs ==
    {PS(i) : i \in {t \in 1..24 : present[t]}}
      \cup {CapteurCP(i) : i \in {c \in 1..10 : present[CP(c)]}}
      \cup {DG(a) : a \in {b \in Aiguillages : aig[b] = "G"}}

Capteur(t) == IF t <= 24 THEN PS(t) ELSE CapteurCP(t - 24)

(* The net has had the level of sensor t. *)
Vu(t) == present[t] <=> Capteur(t) \in vus

(* The row that fired last keeps the loop from spinOnce: FaireTache and    *)
(* Evacuer sleep for a second, AjouterProduit waits for its service.       *)
Dort ==
    /\ position > 1
    /\ \E o \in Transitions[position - 1].ordres : o[1] \in {"tache", "evacuer", "ajouter"}

(* The cell runs and the net plays it; each level lasts longer than a turn *)
(* of its loop, but for the turns in which it sleeps.                      *)
Change(t) == marche /\ play /\ (Vu(t) \/ Dort)

Attendu(t) ==
    \E k \in DOMAIN Transitions :
        /\ M[Transitions[k].place] # 0
        /\ Capteur(t) \in Transitions[k].hauts \cup Transitions[k].bas

Manque(t) == manques' = IF Vu(t) \/ ~Attendu(t) THEN manques ELSE manques \cup {t}

(* A transition and all its orders. *)
Transition(k) ==
    /\ Tire(k)
    /\ LET O == Transitions[k].ordres
           d == {m \in Robots \X (1..4) \X (1..4) : Deplacer(m[1], m[2], m[3]) \in O}
           t == {x \in Postes \X Durees : FaireTache(x[1], x[2]) \in O}
           n == {x \in Postes \X (1..6) : Ajouter(x[1], x[2]) \in O}
       IN /\ arrets' = (arrets \ {i \in 1..24 : Ouvrir(i) \in O}) \cup {i \in 1..24 : Stop(i) \in O}
          /\ ergots' = ergots \cup {i \in 1..8 : Ergot(i) \in O}
          /\ cote' = [a \in Aiguillages |-> IF Gauche(a) \in O THEN "G"
                                            ELSE IF Droite(a) \in O THEN "D" ELSE cote[a]]
          /\ Recoivent(d, {x[1] : x \in t}, Evacuer \in O, n)
          /\ neuf' = neuf \cup {<<"deplacer", m[1]>> : m \in d} \cup {<<"tache", x[1]>> : x \in t}
          /\ duree' = [p \in Postes |-> IF \E x \in t : x[1] = p
                                       THEN (CHOOSE x \in t : x[1] = p)[2] ELSE duree[p]]
          /\ journal' = journal \o SetToSeq({Checker!NouveauProduit(x[2]) : x \in n})
    /\ UNCHANGED <<varsVoie, varsMarche, fait, tempo, manques>>

Tour ==
    /\ SpinOnce(Capteurs, retours, marche)
    /\ retours' = {}
    /\ UNCHANGED <<depl, tache, evac, pieces, taches, evacues, erreurs, varsAppels, manques>>
    /\ UNCHANGED <<varsVoie, varsActionneurs, varsMarche, varsRythme, varsJournal>>

(* The user at the keyboard of commande_locale. *)
Play ==
    /\ ~marche
    /\ marche' = TRUE
    /\ UNCHANGED <<pauses, varsVoie, varsNet, varsRobots, varsActionneurs, varsRythme, varsJournal, manques>>

Pause ==
    /\ marche /\ pauses > 0
    /\ marche' = FALSE
    /\ pauses' = pauses - 1
    /\ UNCHANGED <<varsVoie, varsNet, varsRobots, varsActionneurs, varsRythme, varsJournal, manques>>

(* A shuttle is held at a closed stop, or behind another one. *)
Tenue(t) == present[t] /\ t \in arrets

Libres == {n \in Navettes : \E t \in Troncons :
             voie[t] # <<>> /\ Head(voie[t]) = n /\ ~Tenue(t)}

ArriveCapteur(t) ==
    /\ Change(t)
    /\ Manque(t)
    /\ Arrive(t)
    /\ fait[Head(voie[t])] < Allure
    /\ fait' = [fait EXCEPT ![Head(voie[t])] = @ + 1]
    /\ UNCHANGED <<varsNet, varsRobots, varsActionneurs, varsMarche, neuf, varsJournal>>

(* The switches between t and s lead from t to s: the one after t, and     *)
(* when another section joins in s by a switch of its own, that one too.   *)
Passage(t, s) ==
    /\ Sortie(t) = s /\ s # 0
    /\ \A u \in Troncons :
         /\ id_aiguillage[u] # id_aiguillage[t] /\ id_aiguillage[u] # 0
         /\ s \in Successeurs(u)
         => aig[id_aiguillage[u]] = (IF successeur_droite[u] = s THEN "G" ELSE "D")

QuitteCapteur(t) ==
    /\ Change(t)
    /\ Manque(t)
    /\ present[t] /\ t \notin arrets
    /\ Passage(t, Sortie(t))
    /\ Quitte(t, Sortie(t))
    /\ UNCHANGED <<varsNet, varsRobots, varsActionneurs, varsMarche, varsRythme, varsJournal>>

BougeVersCote(a) ==
    /\ marche
    /\ aig[a] # cote[a]
    /\ BougeAiguillage(a, IF aig[a] = "M" THEN cote[a] ELSE "M")
    /\ UNCHANGED <<varsNet, varsRobots, varsActionneurs, varsMarche, varsRythme, varsJournal, manques>>

(* The place that position pos of robot r is now. *)
LieuDe(r, pos) ==
    IF pos \in {1, 4} THEN Poste(PosteDe(r, pos))
    ELSE LET t == NumCapteur(r, pos) IN
         IF present[t] THEN Navette(Head(voie[t])) ELSE "personne"

Travaille(activite) ==
    /\ marche
    /\ activite \notin neuf

RobotPrend(r) ==
    /\ Travaille(<<"deplacer", r>>)
    /\ Prise(r, LieuDe(r, depl[r].A))
    /\ neuf' = neuf \cup {<<"deplacer", r>>}
    /\ UNCHANGED <<varsVoie, varsNet, varsActionneurs, varsMarche, fait, varsJournal, manques>>

RobotPose(r) ==
    /\ Travaille(<<"deplacer", r>>)
    /\ Pose(r, LieuDe(r, depl[r].B))
    /\ UNCHANGED <<varsVoie, varsNet, varsActionneurs, varsMarche, varsRythme, varsJournal, manques>>

(* A callback begins.  An order to a robot is begun while the cell is      *)
(* paused too; the rest needs the answers of the simulator.                *)
RobotEcoute ==
    /\ \E a \in publies : Commence(a)
    /\ UNCHANGED <<varsVoie, varsNet, varsActionneurs, varsMarche, varsRythme, varsJournal, manques>>

RobotTravaille(p) ==
    /\ \/ marche /\ FinDebut(p)
       \/ Travaille(<<"tache", p>>) /\ CommenceFin(p)
    /\ UNCHANGED <<varsVoie, varsNet, varsActionneurs, varsMarche, varsRythme, varsJournal, manques>>

RobotTermine(p) ==
    /\ Travaille(<<"tache", p>>)
    /\ FinTache(p)
    /\ tempo' = IF taches' = taches THEN tempo
                ELSE [tempo EXCEPT ![pieces[Poste(p)]] = Append(@, <<p, duree[p]>>)]
    /\ UNCHANGED <<varsVoie, varsNet, varsActionneurs, varsMarche, varsRythme, duree, journal, manques>>

RobotEvacue ==
    /\ marche
    /\ Evacue
    /\ LET q == pieces[Poste(3)] IN
       journal' = Append(journal, Checker!Sortie(q, IF q = 0 THEN <<>> ELSE taches[q]))
    /\ UNCHANGED <<varsVoie, varsNet, varsActionneurs, varsMarche, varsRythme, duree, tempo, manques>>

(* Everyone has had the time of one section: more than the loop of the     *)
(* command sleeps, and than a robot takes to read a place and write it.    *)
Ronde ==
    /\ neuf # {} \/ \E n \in Navettes : fait[n] > 0
    /\ \A n \in Libres : fait[n] > 0
    /\ \A a \in Aiguillages : aig[a] = cote[a]
    /\ ~Dort /\ publies = {}
    /\ \A r \in Robots \ bloques : pile[r] \in {<<>>, <<Deplacement(r)>>}
    /\ fait' = [n \in Navettes |-> 0] /\ neuf' = {}
    /\ UNCHANGED <<varsVoie, varsNet, varsRobots, varsActionneurs, varsMarche, varsJournal, manques>>

Rail == \E t \in Troncons : ArriveCapteur(t) \/ QuitteCapteur(t)

Next ==
    \/ \E k \in DOMAIN Transitions : Transition(k)
    \/ Tour \/ Play \/ Pause
    \/ Rail
    \/ \E a \in Aiguillages : BougeVersCote(a)
    \/ \E r \in Robots : RobotPrend(r) \/ RobotPose(r)
    \/ RobotEcoute
    \/ \E p \in Postes : RobotTravaille(p) \/ RobotTermine(p)
    \/ RobotEvacue
    \/ Ronde

Spec == Init /\ [][Next]_vars

(* The cell does not stop for ever while it can do something: the rounds   *)
(* leave no one behind, so nothing more is asked of any part.              *)
FairSpec == Spec /\ WF_vars(Next)
-----------------------------------------------------------------------------
TypeOK ==
    /\ M \in [Places -> Int]
    /\ position \in 0..(Len(Transitions) + 1)
    /\ vus \subseteq ({"PS", "CP", "deplacer", "tache"} \X (1..24)) \cup {DG(a) : a \in Aiguillages}
    /\ retours \subseteq {"deplacer", "tache"} \X (1..8)
    /\ produit_a_ajouter \subseteq 11..86
    /\ pieces \in [Lieux -> 0..6]
    /\ tache \in [Postes -> {"repos", "cours"}]
    /\ arrets \subseteq 1..24 /\ ergots \subseteq 1..8
    /\ cote \in [Aiguillages -> {"D", "G"}]
    /\ fait \in [Navettes -> 0..Allure]
    /\ publies \subseteq Appels /\ bloques \subseteq Robots
    /\ pile \in [Robots -> Seq(Appels)]
    /\ manques \subseteq Troncons

Chaine == Places \ ({141, 142} \cup Produits)

(* The net is safe: its story has one mark, the branch that stops the      *)
(* second shuttle at PS2 at most one, and the products are marked before   *)
(* the first transition takes their marks back.                            *)
MarquageSain ==
    /\ \A p \in Places : M[p] \in {0, 1}
    /\ \E p \in Chaine : M[p] = 1 /\ \A q \in Chaine \ {p} : M[q] = 0
    /\ M[141] + M[142] <= 1

(* Whatever the speeds, no robot is ordered a second DeplacerPiece before  *)
(* the end of the last one, nor a FaireTache on a post at work, nor to take*)
(* a piece from a post at work or put one there.  It is not that robots    *)
(* get one order at a time: robot 2 does not (RisquesConnus).              *)
OrdresPrudents ==
    [][/\ \A r \in Robots :
            depl'[r].phase = "prise" /\ depl'[r] # depl[r] =>
                /\ depl[r].phase = "repos"
                /\ \A p \in Postes :
                     p \in {PosteDe(r, x) : x \in {depl'[r].A, depl'[r].B} \cap {1, 4}}
                       => tache[p] = "repos"
       /\ \A k \in DOMAIN Transitions, p \in Postes :
            position <= k /\ position' = k + 1
            /\ (\E d \in Durees : FaireTache(p, d) \in Transitions[k].ordres) =>
                /\ tache[p] = "repos"
                /\ \A r \in Robots : p \notin {PosteDe(r, x) : x \in {depl[r].A, depl[r].B} \cap {1, 4}}]_vars

(* Whatever the speeds, a switch is ordered to its other side only when it *)
(* is on the side last asked for.  It is the first condition of Attente =  *)
(* "repos" in OrdresAiguillages; that the node knows it, and that its loop *)
(* is over, are not looked at here.                                        *)
AiguillageAuRepos ==
    [][\A a \in Aiguillages : cote'[a] # cote[a] => aig[a] = cote[a]]_vars

(* A shuttle that may leave its stop finds the switches set behind it: as  *)
(* long as the net is played it moves none under a shuttle (its last row   *)
(* does: it turns switches 1 and 2 wherever the shuttles are).             *)
AiguillagePret ==
    M[PlaceFin] = 0 =>
        \A t \in Troncons :
            present[t] /\ t \notin arrets => Passage(t, Sortie(t))

(* The shipped net gives robot 2 several orders at a time (rows 160 to     *)
(* 200), and it alone: the calls that meet are the end of the task of      *)
(* post 4 in update with the three orders given while that task runs, and  *)
(* FaireTache(4) or Evacuer with the move that follows, if the second that *)
(* the command sleeps was not enough.  The one level that a sleep may hide *)
(* from the row that waits for it is PS20's, in the second after           *)
(* FaireTache(6) opened the way to it.                                     *)
RisquesConnus ==
    /\ manques \subseteq {20}
    /\ conflits \subseteq
         ({Fin(4)} \X {Deplacement(2), Debut(3), Evacuation})
           \cup ({Debut(4), Evacuation} \X {Deplacement(2)})
           \cup ({Deplacement(2)} \X {Debut(4), Evacuation})

(* As long as the calls of no robot meet, no robot works on an empty place,*)
(* on a full stack, on a shuttle that is not there, or crushes a product:  *)
(* nothing for the checker to find.                                        *)
SansErreur == conflits = {} => erreurs = {}

(* What checker.py says of the shipped net on the shipped configuration,   *)
(* if the calls of no robot met: both products came out, once, in the order*)
(* of their operations; the only complaint is the time of product 6 on     *)
(* post 5, where the net works a second time, for 1 s.  When the log has   *)
(* lost the line of the first of the two products added in a row (the run  *)
(* journal), the checker stops with an IndexError.                         *)
VerdictDuNet ==
    LET Verdict(log) == Checker!Verdict(Checker!ProductConfiguration, log, tempo, erreurs)
    IN  position = 0 /\ ~evac /\ conflits = {} =>
          /\ Verdict(journal) = {<<"duree", 6, 5>>}
          /\ Verdict(SelectSeq(journal, LAMBDA l : l # Checker!NouveauProduit(2)))
               = {<<"IndexError">>}

(* The story of the net comes to its end, unless the calls of a robot meet *)
(* or a level the net waits for went by while it slept.                    *)
PetriTermine ==
    <>((position = 0 /\ ~evac) \/ conflits # {} \/ manques # {})
=============================================================================
