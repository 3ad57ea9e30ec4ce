---------------------------- MODULE CommandeNet -----------------------------
(***************************************************************************)
(* The Petri net of main_commande.cpp and the loop that plays it.  The net *)
(* is a table with one row per "if" of the loop, in the order of the text: *)
(* its place, what it reads, what it orders, the places it marks.  The     *)
(* loop goes once through the table with the values of one spinOnce: a row *)
(* further down may fire in the same turn on a mark just put, a row above  *)
(* has to wait for the next turn.                                          *)
(***************************************************************************)
EXTENDS Integers, Sequences

VARIABLES
    M,            \* the marking
    position,     \* next row of the turn, 0 when the net is over
    vus,          \* what the sensors show, the ends of moves and of tasks
    play,         \* the simulation runs, as the command was told
    produit_a_ajouter  \* codes 10*post+product that wait for their mark

varsNet == <<M, position, vus, play, produit_a_ajouter>>

PS(i) == <<"PS", i>>
CapteurCP(i) == <<"CP", i>>
DG(i) == <<"DG", i>>
FinDeplacerPiece(r) == <<"deplacer", r>>
TacheFinie(p) == <<"tache", p>>

Stop(i) == <<"stop", i>>
Ouvrir(i) == <<"ouvrir", i>>
Ergot(i) == <<"ergot", i>>
Droite(a) == <<"droite", a>>
Gauche(a) == <<"gauche", a>>
Deplacer(r, A, B) == <<"deplacer", r, A, B>>
FaireTache(p, t) == <<"tache", p, t>>
Durees == 1..6
Evacuer == <<"evacuer">>
Ajouter(p, produit) == <<"ajouter", p, produit>>

(* A row: place, values that must be high, values that must be low, orders, *)
(* places marked.                                                           *)
Ligne(place, hauts, bas, ordres, vers) ==
    [place |-> place, hauts |-> hauts, bas |-> bas, ordres |-> ordres, vers |-> vers]

PlaceFin == 1000

Transitions == <<
  Ligne(0,   {}, {}, {Ajouter(3, 2), Ajouter(7, 6), Stop(10)}, {10}),
  Ligne(10,  {PS(1)}, {}, {Stop(2), FaireTache(7, 3)}, {20}),
  Ligne(20,  {PS(2), TacheFinie(7)}, {},
             {Deplacer(2, 1, 2), Deplacer(4, 1, 3), Ergot(1)}, {30}),
  Ligne(30,  {FinDeplacerPiece(2), FinDeplacerPiece(4)}, {},
             {Ouvrir(2), Ouvrir(10), Droite(2), Stop(6), Stop(14)}, {40}),
  Ligne(40,  {PS(6), PS(14)}, {}, {Deplacer(3, 2, 1), Gauche(3), Gauche(10)}, {50}),
  Ligne(50,  {DG(3), DG(10), FinDeplacerPiece(3)}, {},
             {Ouvrir(6), Stop(22), FaireTache(6, 6)}, {60}),
  Ligne(60,  {PS(20)}, {}, {}, {70}),
  Ligne(70,  {}, {PS(20)}, {Droite(10), Droite(3)}, {80}),
  Ligne(80,  {PS(22), TacheFinie(6)}, {},
             {Deplacer(3, 1, 4), Deplacer(1, 3, 4), Ergot(8)}, {90}),
  Ligne(90,  {FinDeplacerPiece(1), FinDeplacerPiece(3)}, {},
             {FaireTache(5, 3), FaireTache(1, 4)}, {100}),
  Ligne(100, {TacheFinie(5)}, {}, {FaireTache(5, 1), Ouvrir(14), Stop(15)}, {110}),
  Ligne(110, {TacheFinie(1), TacheFinie(5)}, {},
             {Deplacer(1, 4, 3), Deplacer(3, 4, 3)}, {120}),
  Ligne(120, {FinDeplacerPiece(1), FinDeplacerPiece(3)}, {},
             {Ouvrir(22), Ouvrir(15)}, {130}),
  Ligne(130, {PS(1)}, {}, {Gauche(11), Gauche(12)}, {140}),
  Ligne(140, {CapteurCP(1)}, {}, {Stop(3)}, {141, 150}),
  Ligne(141, {PS(2)}, {}, {}, {142}),
  Ligne(142, {}, {PS(2)}, {Stop(2)}, {}),
  Ligne(150, {PS(3)}, {}, {Deplacer(2, 3, 4)}, {160}),
  Ligne(160, {FinDeplacerPiece(2)}, {}, {FaireTache(4, 5)}, {170}),
  Ligne(170, {PS(2)}, {}, {Deplacer(2, 2, 1)}, {180}),
  Ligne(180, {FinDeplacerPiece(2)}, {}, {FaireTache(3, 1)}, {182}),
  Ligne(182, {TacheFinie(3)}, {}, {Evacuer}, {190}),
  Ligne(190, {TacheFinie(4)}, {}, {Deplacer(2, 4, 1)}, {200}),
  Ligne(200, {FinDeplacerPiece(2)}, {},
             {Evacuer, Ouvrir(3), Ouvrir(2), Gauche(3), Gauche(10)}, {210}),
  Ligne(210, {PS(6)}, {}, {}, {220}),
  Ligne(220, {}, {PS(6)}, {}, {230}),
  Ligne(230, {PS(6)}, {}, {}, {240}),
  Ligne(240, {}, {PS(6)}, {Gauche(1), Gauche(2)}, {PlaceFin}) >>

Produits == {532, 576}
Places == {Transitions[k].place : k \in DOMAIN Transitions} \cup {PlaceFin} \cup Produits

InitNet ==
    /\ M = [p \in Places |-> IF p = 0 THEN 1 ELSE 0]
    /\ position = 1
    /\ vus = {FinDeplacerPiece(r) : r \in 1..4}
    /\ play = FALSE
    /\ produit_a_ajouter = {}

(* Mutant: the rows do not wait for the robot nor for its shuttle.         *)
TirableSansAttente(k) ==
    LET t == Transitions[k] IN
    /\ M[t.place] # 0
    /\ (t.hauts \ {DG(3), DG(10), FinDeplacerPiece(3), PS(20)}) \subseteq vus

(* The condition of a row, with the values of the last spinOnce. *)
Tirable(k) ==
    LET t == Transitions[k] IN
    /\ M[t.place] # 0
    /\ t.hauts \subseteq vus
    /\ t.bas \cap vus = {}

(* The next row of the turn that fires. *)
Prochaine(k) ==
    /\ play
    /\ position # 0 /\ position <= k
    /\ Tirable(k)
    /\ \A j \in position..(k - 1) : ~Tirable(j)

(* Mutant: "M[141]--" is missing. *)
RetireesSans141(t) ==
    ({t.place} \ {141}) \cup (IF t.place = 10 THEN Produits ELSE {})

(* The first row after the start also takes the two products back. *)
Retirees(t) == {t.place} \cup (IF t.place = 10 THEN Produits ELSE {})

(* Mutants: no order clears anything; any order clears all the ends. *)
EffaceRien(ordres) == {}

EffaceTout(ordres) ==
    IF ordres = {} THEN {} ELSE {v \in vus : v[1] \in {"deplacer", "tache"}}

(* An order clears the value the net will wait on. *)
Efface(ordres) ==
    {FinDeplacerPiece(r) : r \in {x \in 1..4 : \E A, B \in 1..4 : Deplacer(x, A, B) \in ordres}}
      \cup {TacheFinie(p) : p \in {x \in 1..8 : \E d \in Durees : FaireTache(x, d) \in ordres}}

(* Mutant: the code is stored with the offset of its mark. *)
AjoutesMarques(ordres) ==
    {500 + c : c \in {x \in 11..86 : Ajouter(x \div 10, x % 10) \in ordres}}

(* ProductAddPushBack: the codes of the products that were put. *)
Ajoutes(ordres) ==
    {c \in 11..86 : Ajouter(c \div 10, c % 10) \in ordres}

Tire(k) ==
    /\ Prochaine(k)
    /\ LET t == Transitions[k] IN
       /\ M' = [p \in Places |->
                  M[p] - (IF p \in Retirees(t) THEN 1 ELSE 0)
                       + (IF p \in t.vers THEN 1 ELSE 0)]
       /\ vus' = vus \ Efface(t.ordres)
       /\ produit_a_ajouter' = produit_a_ajouter \cup Ajoutes(t.ordres)
    /\ position' = k + 1
    /\ UNCHANGED play

(* The end of the turn: spinOnce brings new values and tells whether the   *)
(* simulation runs; the products added meanwhile are marked; in PlaceFin   *)
(* the net is left for good.                                               *)
SpinOnce(capteurs, fins, enMarche) ==
    /\ play => \A k \in DOMAIN Transitions : position \in 1..k => ~Tirable(k)
    /\ vus' = capteurs \cup {v \in vus : v[1] \in {"deplacer", "tache"}} \cup fins
    /\ play' = enMarche
    /\ position' = IF position = 0 \/ (play /\ M[PlaceFin] # 0) THEN 0 ELSE 1
    /\ IF enMarche /\ position' # 0
       THEN /\ M' = [p \in Places |->
                       M[p] + (IF p - 500 \in produit_a_ajouter THEN 1 ELSE 0)]
            /\ produit_a_ajouter' = {}
       ELSE UNCHANGED <<M, produit_a_ajouter>>
=============================================================================
