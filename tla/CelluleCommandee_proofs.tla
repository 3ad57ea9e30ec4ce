----------------------- MODULE CelluleCommandee_proofs ----------------------
(***************************************************************************)
(* What the net of main_commande.cpp keeps true whatever the rail, the     *)
(* number of shuttles, their speeds, the robots and the pauses do: it is   *)
(* safe (NetSain), its orders to the robots and to the switches are        *)
(* prudent (OrdresToujoursPrudents, AiguillagesToujoursAuRepos), and its   *)
(* variables keep their types (TypesDeLaCellule).                          *)
(*                                                                         *)
(* The marking says where the story is (InvNet); the place says in its     *)
(* turn which moves, tasks and switches can be under way (InvOrdres), read *)
(* from the table by the lemmas of the second part.                        *)
(***************************************************************************)
EXTENDS CelluleCommandee, SequenceTheorems, TLAPS

Place(k) == Transitions[k].place

(* The places of the table, in ascending order. *)
LEMMA PlacesDesLignes ==
    /\ DOMAIN Transitions = 1..28
    /\ \A k \in 1..28 : Place(k) \in Nat /\ Place(k) <= 240
    /\ Place(1) = 0 /\ Place(2) = 10 /\ Place(15) = 140
    /\ Place(16) = 141 /\ Place(17) = 142 /\ Place(18) = 150
    /\ \A k \in 1..27 : Place(k) < Place(k + 1)
    /\ \A k \in 3..28 : Place(k) > 10
    /\ \A k \in 1..14 : Place(k) < 140
    /\ \A k \in 18..28 : Place(k) > 142
<1>1. DOMAIN Transitions = 1..28
  BY DEF Transitions
<1>2. \A k \in 1..28 : Place(k) \in Nat /\ Place(k) <= 240
  BY SMTT(60) DEF Place, Transitions, Ligne
<1>3. /\ Place(1) = 0 /\ Place(2) = 10 /\ Place(15) = 140
      /\ Place(16) = 141 /\ Place(17) = 142 /\ Place(18) = 150
  BY DEF Place, Transitions, Ligne
<1>4. \A k \in 1..27 : Place(k) < Place(k + 1)
  BY SMTT(60) DEF Place, Transitions, Ligne
<1>5. /\ \A k \in 3..28 : Place(k) > 10
      /\ \A k \in 1..14 : Place(k) < 140
      /\ \A k \in 18..28 : Place(k) > 142
  BY SMTT(60) DEF Place, Transitions, Ligne
<1>6. QED BY <1>1, <1>2, <1>3, <1>4, <1>5

LEMMA PlacesDuNet ==
    /\ Places \subseteq Nat
    /\ Chaine = {Place(k) : k \in (1..28) \ (16..17)} \cup {PlaceFin}
    /\ Places = Chaine \cup {141, 142, 532, 576}
<1>1. Places = {Place(k) : k \in 1..28} \cup {PlaceFin, 532, 576}
  BY PlacesDesLignes DEF Places, Produits, Place
<1>2. \A k \in (1..28) \ (16..17) : Place(k) \notin {141, 142, 532, 576}
  <2>1. TAKE k \in (1..28) \ (16..17)
  <2>2. Place(k) \in Nat /\ Place(k) <= 240
    BY PlacesDesLignes
  <2>3. CASE k \in 1..14
    <3>1. Place(k) < 140
      BY <2>3, PlacesDesLignes
    <3>2. QED BY <2>2, <3>1
  <2>4. CASE k = 15
    BY <2>4, PlacesDesLignes
  <2>5. CASE k \in 18..28
    <3>1. Place(k) > 142
      BY <2>5, PlacesDesLignes
    <3>2. QED BY <2>2, <3>1
  <2>6. k \in 1..14 \/ k = 15 \/ k \in 18..28
    OBVIOUS
  <2>7. QED BY <2>3, <2>4, <2>5, <2>6
<1>3. 1000 \notin {141, 142, 532, 576}
  OBVIOUS
<1>4. Chaine = {Place(k) : k \in (1..28) \ (16..17)} \cup {PlaceFin}
  BY <1>1, <1>2, <1>3, PlacesDesLignes DEF Chaine, Produits, PlaceFin
<1>5. {141, 142} \subseteq {Place(k) : k \in 1..28}
  BY PlacesDesLignes
<1>6. Places \subseteq Nat
  <2>1. \A k \in 1..28 : Place(k) \in Nat
    BY PlacesDesLignes
  <2>2. PlaceFin \in Nat
    BY DEF PlaceFin
  <2>3. QED BY <1>1, <2>1, <2>2
<1>7. Places = Chaine \cup {141, 142, 532, 576}
  BY <1>1, <1>5 DEF Chaine, Produits
<1>8. QED BY <1>4, <1>6, <1>7

(* The rows of the story go forward, from one of its places to one further *)
(* down; row 15 opens the branch.                                          *)
LEMMA LignesDuRecit ==
    ASSUME NEW k \in 1..28, k \notin 16..17
    PROVE  /\ Place(k) \in Chaine
           /\ \E q \in Chaine :
                /\ q > Place(k)
                /\ k < 15 => q <= 140
                /\ k = 1 => q = 10
                /\ Transitions[k].vers = IF k = 15 THEN {141, q} ELSE {q}
<1>1. \A j \in 1..27 : j \notin 15..17 => Transitions[j].vers = {Place(j + 1)}
  BY SMTT(60) DEF Place, Transitions, Ligne
<1>2. /\ Transitions[15].vers = {141, Place(18)}
      /\ Transitions[28].vers = {PlaceFin}
  BY DEF Place, Transitions, Ligne
<1>3. Place(k) \in Chaine
  BY PlacesDuNet
<1>4. CASE k = 15
  <2>1. Place(18) \in Chaine
    BY PlacesDuNet
  <2>2. Place(18) > Place(15)
    BY PlacesDesLignes
  <2>3. QED BY <1>2, <1>3, <1>4, <2>1, <2>2
<1>5. CASE k = 28
  <2>1. PlaceFin \in Chaine /\ PlaceFin > Place(k)
    BY <1>5, PlacesDesLignes, PlacesDuNet DEF PlaceFin
  <2>2. QED BY <1>2, <1>3, <1>5, <2>1
<1>6. CASE k \in (1..27) \ {15}
  <2>1. Place(k + 1) \in Chaine
    BY <1>6, PlacesDuNet
  <2>2. k < 15 => Place(k + 1) <= 140
    <3>1. CASE k < 14
      <4>1. k + 1 \in 1..14
        BY <1>6, <3>1
      <4>2. Place(k + 1) < 140 /\ Place(k + 1) \in Nat
        BY <4>1, PlacesDesLignes
      <4>3. QED BY <4>2
    <3>2. CASE k = 14
      BY <3>2, PlacesDesLignes
    <3>3. QED BY <1>6, <3>1, <3>2
  <2>3. k = 1 => Place(k + 1) = 10
    BY PlacesDesLignes
  <2>4. Transitions[k].vers = {Place(k + 1)} /\ Place(k) < Place(k + 1)
    BY <1>1, <1>6, PlacesDesLignes
  <2>5. QED BY <1>3, <1>6, <2>1, <2>2, <2>3, <2>4
<1>7. k = 15 \/ k = 28 \/ k \in (1..27) \ {15}
  OBVIOUS
<1>8. QED BY <1>4, <1>5, <1>6, <1>7

(* Only the first row adds products; only the second waits for PS1 to take *)
(* their marks.                                                            *)
LEMMA LignesDesProduits ==
    /\ Ajoutes(Transitions[1].ordres) = {32, 76}
    /\ \A k \in 2..28 : Ajoutes(Transitions[k].ordres) = {}
    /\ PS(1) \in Transitions[2].hauts
    /\ Transitions[16].vers = {142} /\ Transitions[17].vers = {}
    /\ Tirable(1) <=> M[0] # 0
<1>1. Ajoutes(Transitions[1].ordres) = {32, 76}
  BY SMTT(60) DEF Transitions, Ligne, Ajoutes, Ajouter, Stop
<1>2. \A k \in 2..28 : \A o \in Transitions[k].ordres : o[1] # "ajouter"
  BY SMTT(60) DEF Transitions, Ligne, Ajouter, Stop, Deplacer, Gauche, Droite,
                  Ouvrir, Ergot, FaireTache, Evacuer
<1>3. \A k \in 2..28 : Ajoutes(Transitions[k].ordres) = {}
  BY <1>2 DEF Ajoutes, Ajouter
<1>4. PS(1) \in Transitions[2].hauts
      /\ Transitions[16].vers = {142} /\ Transitions[17].vers = {}
  BY DEF Transitions, Ligne
<1>5. Tirable(1) <=> M[0] # 0
  BY DEF Transitions, Ligne, Tirable
<1>6. QED BY <1>1, <1>3, <1>4, <1>5
LEMMA ChaineDuNet ==
    /\ 0 \in Chaine /\ PlaceFin \in Chaine /\ PlaceFin > 10
    /\ {141, 142, 532, 576} \cap Chaine = {}
    /\ Places = Chaine \cup {141, 142, 532, 576}
    /\ Chaine' = Chaine
    /\ \A c \in Chaine : c \in Nat /\ (c = 0 \/ c = 10 \/ c > 10)
<1>1. Place(1) \in Chaine
  BY PlacesDuNet
<1>2. 0 \in Chaine
  BY <1>1, PlacesDesLignes
<1>3. {141, 142, 532, 576} \cap Chaine = {}
  BY DEF Chaine, Produits
<1>4. Chaine' = Chaine
  BY DEF Chaine, Places, Produits, Transitions
<1>5. \A k \in 1..28 : Place(k) \in Nat /\ (Place(k) = 0 \/ Place(k) = 10 \/ Place(k) > 10)
  <2>1. TAKE k \in 1..28
  <2>2. k = 1 \/ k = 2 \/ k \in 3..28
    OBVIOUS
  <2>3. QED BY <2>2, PlacesDesLignes
<1>6. \A c \in Chaine : c \in Nat /\ (c = 0 \/ c = 10 \/ c > 10)
  BY <1>5, PlacesDuNet DEF PlaceFin
<1>7. QED
  BY <1>2, <1>3, <1>4, <1>6, PlacesDuNet DEF PlaceFin
-----------------------------------------------------------------------------
(* The mark of the story is in c: before the branch is opened it is empty; *)
(* the products are waiting or marked between row 1 and row 2 only.  The   *)
(* turn that fires row 1 plays it first, on values of the sensors read     *)
(* while no shuttle had moved.                                             *)
ProduitsSains(c) ==
    /\ c = 0 =>
         /\ produit_a_ajouter = {} /\ M[532] = 0 /\ M[576] = 0
         /\ play => position = 1 /\ PS(1) \notin vus
         /\ ~play => ~present[1]
    /\ c = 10 =>
         \/ /\ produit_a_ajouter = {32, 76} /\ M[532] = 0 /\ M[576] = 0
            /\ play => PS(1) \notin vus
         \/ produit_a_ajouter = {} /\ M[532] = 1 /\ M[576] = 1
    /\ c > 10 => produit_a_ajouter = {} /\ M[532] = 0 /\ M[576] = 0

RecitEn(c) ==
    /\ M[c] = 1
    /\ \A q \in Chaine \ {c} : M[q] = 0
    /\ M[141] \in {0, 1} /\ M[142] \in {0, 1} /\ M[141] + M[142] <= 1
    /\ c <= 140 => M[141] = 0 /\ M[142] = 0
    /\ ProduitsSains(c)

InvNet ==
    /\ M \in [Places -> Int]
    /\ position \in 0..29
    /\ position = 0 => M[PlaceFin] # 0
    /\ \A v \in retours : v[1] # "PS"
    /\ \E c \in Chaine : RecitEn(c)

LEMMA InvNetImplique == InvNet => MarquageSain
<1> SUFFICES ASSUME InvNet PROVE MarquageSain
  OBVIOUS
<1>1. PICK c \in Chaine : RecitEn(c)
  BY DEF InvNet
<1>2. \A p \in Chaine : M[p] \in {0, 1}
  BY <1>1 DEF RecitEn
<1>3. c \in Nat /\ (c = 0 \/ c = 10 \/ c > 10)
  BY ChaineDuNet
<1>4. M[532] \in {0, 1} /\ M[576] \in {0, 1}
  BY <1>1, <1>3 DEF RecitEn, ProduitsSains
<1>5. \A p \in Places : M[p] \in {0, 1}
  BY <1>1, <1>2, <1>4, PlacesDuNet DEF RecitEn
<1>6. QED
  BY <1>1, <1>5 DEF MarquageSain, RecitEn

LEMMA InvNetInitial == Init => InvNet
<1> SUFFICES ASSUME Init PROVE InvNet
  OBVIOUS
<1> USE DEF Init, InitNet, InitVoie, InitRobots
<1>1. /\ 0 \in Chaine /\ PlaceFin \in Chaine
      /\ {141, 142, 532, 576} \cap Chaine = {}
      /\ Places = Chaine \cup {141, 142, 532, 576}
  BY ChaineDuNet
<1>2. 1 \in Troncons
  BY CelluleAssumption DEF TronconsCellule, liste_file
<1>3. ProduitsSains(0)
  BY <1>1, <1>2 DEF ProduitsSains
<1>4. RecitEn(0)
  BY <1>1, <1>3 DEF RecitEn
<1>5. QED
  <2>1. M \in [Places -> Int]
    OBVIOUS
  <2>2. position \in 0..29 /\ position # 0
    OBVIOUS
  <2>3. retours = {}
    OBVIOUS
  <2>4. QED BY <1>1, <1>4, <2>1, <2>2, <2>3 DEF InvNet

(* The beginnings and ends of the calls of the robots: they change nothing *)
(* that the invariants below look at.                                      *)
AppelsSeuls == RobotEcoute \/ \E p \in Postes : RobotTravaille(p)

LEMMA AppelsIntacts ==
    AppelsSeuls => /\ UNCHANGED <<varsVoie, varsNet, varsActionneurs, varsMarche, varsRythme, varsJournal>>
              /\ UNCHANGED <<depl, tache, evac, pieces, taches, evacues, retours, erreurs>>
<1>1. ASSUME RobotEcoute
      PROVE  /\ UNCHANGED <<varsVoie, varsNet, varsActionneurs, varsMarche, varsRythme, varsJournal>>
             /\ UNCHANGED <<depl, tache, evac, pieces, taches, evacues, retours, erreurs>>
  BY <1>1 DEF RobotEcoute, Commence
<1>2. ASSUME NEW p \in Postes, RobotTravaille(p)
      PROVE  /\ UNCHANGED <<varsVoie, varsNet, varsActionneurs, varsMarche, varsRythme, varsJournal>>
             /\ UNCHANGED <<depl, tache, evac, pieces, taches, evacues, retours, erreurs>>
  BY <1>2 DEF RobotTravaille, FinDebut, CommenceFin
<1>3. QED  BY <1>1, <1>2 DEF AppelsSeuls

(* Nobody but the command plays the net, and the robots do not publish     *)
(* levels of sensors; no shuttle moves before the net is played.           *)
LEMMA LesAutresSteps ==
    ASSUME InvNet,
           \/ Play \/ Pause \/ Rail \/ RobotEvacue \/ Ronde \/ AppelsSeuls
           \/ \E a \in Aiguillages : BougeVersCote(a)
           \/ \E r \in Robots : RobotPrend(r) \/ RobotPose(r)
           \/ \E p \in Postes : RobotTermine(p)
    PROVE  /\ UNCHANGED varsNet
           /\ \A v \in retours' : v[1] # "PS"
           /\ ~play => UNCHANGED present
<1> USE DEF InvNet, varsNet
<1>1. CASE Play \/ Pause \/ Ronde
  BY <1>1 DEF Play, Pause, Ronde, varsRobots, varsVoie
<1>2. CASE Rail
  BY <1>2 DEF Rail, ArriveCapteur, QuitteCapteur, Change, varsRobots
<1>3. CASE RobotEvacue
  BY <1>3 DEF RobotEvacue, Evacue, varsVoie
<1>4. ASSUME NEW a \in Aiguillages, BougeVersCote(a)
      PROVE  /\ UNCHANGED varsNet
             /\ \A v \in retours' : v[1] # "PS"
             /\ UNCHANGED present
  BY <1>4 DEF BougeVersCote, BougeAiguillage, varsRobots
<1>5. ASSUME NEW r \in Robots, RobotPrend(r)
      PROVE  /\ UNCHANGED varsNet
             /\ \A v \in retours' : v[1] # "PS"
             /\ UNCHANGED present
  <2>1. UNCHANGED varsNet /\ UNCHANGED present
    BY <1>5 DEF RobotPrend, Prise, varsVoie
  <2>2. \A v \in retours' : v \in retours \/ \E x : v = <<"tache", x>> \/ v = <<"deplacer", x>>
    BY <1>5 DEF RobotPrend, Prise
  <2>3. QED BY <2>1, <2>2
<1>6. ASSUME NEW r \in Robots, RobotPose(r)
      PROVE  /\ UNCHANGED varsNet
             /\ \A v \in retours' : v[1] # "PS"
             /\ UNCHANGED present
  <2>1. UNCHANGED varsNet /\ UNCHANGED present
    BY <1>6 DEF RobotPose, Pose, varsVoie
  <2>2. \A v \in retours' : v \in retours \/ \E x : v = <<"tache", x>> \/ v = <<"deplacer", x>>
    BY <1>6 DEF RobotPose, Pose
  <2>3. QED BY <2>1, <2>2
<1>7. ASSUME NEW p \in Postes, RobotTermine(p)
      PROVE  /\ UNCHANGED varsNet
             /\ \A v \in retours' : v[1] # "PS"
             /\ UNCHANGED present
  <2>1. UNCHANGED varsNet /\ UNCHANGED present
    BY <1>7 DEF RobotTermine, FinTache, varsVoie
  <2>2. \A v \in retours' : v \in retours \/ \E x : v = <<"tache", x>> \/ v = <<"deplacer", x>>
    BY <1>7 DEF RobotTermine, FinTache
  <2>3. QED BY <2>1, <2>2
<1>8. CASE AppelsSeuls
  BY <1>8, AppelsIntacts DEF varsVoie
<1>9. QED
  BY <1>1, <1>2, <1>3, <1>4, <1>5, <1>6, <1>7, <1>8

(* The other steps leave the marking alone. *)
LEMMA LesAutresPreservent ==
    ASSUME InvNet, UNCHANGED varsNet,
           \A v \in retours' : v[1] # "PS",
           ~play => UNCHANGED present
    PROVE  InvNet'
<1>1. PICK c \in Chaine : RecitEn(c)
  BY DEF InvNet
<1>2. ProduitsSains(c)'
  BY <1>1 DEF ProduitsSains, RecitEn, varsNet
<1>3. RecitEn(c)'
  BY <1>1, <1>2 DEF RecitEn, varsNet
<1>4. Chaine' = Chaine
  BY DEF Chaine, Places, Produits, Transitions
<1>5. QED
  BY <1>1, <1>3 DEF InvNet, varsNet

(* The values of a spinOnce: the level of PS1 is that of its sensor. *)
LEMMA NiveauDePS1 ==
    ASSUME InvNet, Tour, PS(1) \in vus'
    PROVE  present[1]
<1>1. vus' = Capteurs \cup {v \in vus : v[1] \in {"deplacer", "tache"}} \cup retours
  BY DEF Tour, SpinOnce
<1>2. PS(1)[1] = "PS"
  BY DEF PS
<1>3. PS(1) \in Capteurs
  BY <1>1, <1>2 DEF InvNet
<1>4. QED
  BY <1>3 DEF Capteurs, PS, CapteurCP, DG

LEMMA TourPreserve ==
    ASSUME InvNet, Tour
    PROVE  InvNet'
<1> USE DEF InvNet
<1>1. PICK c \in Chaine : RecitEn(c)
  OBVIOUS
<1>2. /\ play /\ position = 1 => M[0] = 0
      /\ play' = marche
      /\ position' = IF position = 0 \/ (play /\ M[PlaceFin] # 0) THEN 0 ELSE 1
      /\ IF marche /\ position' # 0
         THEN /\ M' = [p \in Places |->
                         M[p] + (IF p - 500 \in produit_a_ajouter THEN 1 ELSE 0)]
              /\ produit_a_ajouter' = {}
         ELSE UNCHANGED <<M, produit_a_ajouter>>
      /\ retours' = {} /\ UNCHANGED present
  BY PlacesDesLignes, LignesDesProduits DEF Tour, SpinOnce, varsVoie
<1>3. /\ 0 \in Chaine /\ PlaceFin \in Chaine /\ PlaceFin > 10
      /\ {141, 142, 532, 576} \cap Chaine = {}
      /\ Places = Chaine \cup {141, 142, 532, 576}
      /\ Chaine' = Chaine
  BY ChaineDuNet
<1>4. c \in Nat /\ (c = 0 \/ c = 10 \/ c > 10)
  BY ChaineDuNet
<1>5. produit_a_ajouter \in {{}, {32, 76}}
  BY <1>1, <1>4 DEF RecitEn, ProduitsSains
<1>6. CASE ~(marche /\ position' # 0)
  <2>1. M' = M /\ produit_a_ajouter' = produit_a_ajouter
    BY <1>2, <1>6
  <2>2. position' = 0 => M[PlaceFin] # 0
    BY <1>2
  <2>3. position' = 0 => c = PlaceFin
    BY <1>1, <1>3, <2>2 DEF RecitEn
  <2>4. c # PlaceFin => ~play'
    BY <1>2, <1>6, <2>3
  <2>5. c = 0 => ~present[1]
    BY <1>1, <1>2 DEF RecitEn, ProduitsSains
  <2>6. ProduitsSains(c)'
    BY <1>1, <1>2, <1>3, <2>1, <2>4, <2>5 DEF RecitEn, ProduitsSains
  <2>7. RecitEn(c)'
    BY <1>1, <1>3, <2>1, <2>6 DEF RecitEn
  <2>8. QED BY <1>1, <1>2, <1>3, <2>1, <2>2, <2>7
<1>7. CASE marche /\ position' # 0
  <2>1. /\ M' = [p \in Places |->
                 M[p] + (IF p - 500 \in produit_a_ajouter THEN 1 ELSE 0)]
        /\ produit_a_ajouter' = {}
    BY <1>2, <1>7
  <2>2. Places \subseteq Nat
    BY PlacesDuNet
  <2>3. \A p \in Places \ {532, 576} : M'[p] = M[p]
    <3>1. TAKE p \in Places \ {532, 576}
    <3>2. p - 500 \notin produit_a_ajouter
      BY <1>5, <2>2
    <3>3. QED BY <2>1, <3>2
  <2>4. \A p \in {532, 576} :
           M'[p] = M[p] + (IF produit_a_ajouter = {} THEN 0 ELSE 1)
    BY <1>3, <1>5, <2>1
  <2>5. M' \in [Places -> Int]
    BY <2>1
  <2>6. c = 0 => ~present[1]
    BY <1>1, <1>2 DEF RecitEn, ProduitsSains
  <2>7. c = 0 => PS(1) \notin vus'
    BY <2>6, NiveauDePS1
  <2>8. position' = 1
    BY <1>2, <1>7
  <2>9. ProduitsSains(c)'
    BY <1>1, <1>2, <1>4, <1>7, <2>1, <2>4, <2>7, <2>8 DEF RecitEn, ProduitsSains
  <2>10. RecitEn(c)'
    BY <1>1, <1>3, <2>3, <2>9 DEF RecitEn
  <2>11. QED BY <1>1, <1>2, <1>3, <2>5, <2>8, <2>10
<1>8. QED BY <1>6, <1>7

(* What a row does to the net, for the rest of the proof. *)
LEMMA EffetDeLigne ==
    ASSUME InvNet, NEW k \in 1..28, Transition(k)
    PROVE  /\ play /\ play' /\ position <= k /\ position' = k + 1
           /\ M[Place(k)] # 0
           /\ k = 2 => PS(1) \in vus
           /\ M' = [p \in Places |->
                      M[p] - (IF p = Place(k) \/ (k = 2 /\ p \in {532, 576}) THEN 1 ELSE 0)
                           + (IF p \in Transitions[k].vers THEN 1 ELSE 0)]
           /\ vus' \subseteq vus
           /\ produit_a_ajouter' = produit_a_ajouter \cup (IF k = 1 THEN {32, 76} ELSE {})
           /\ retours' = retours
<1>1. Place(k) = 10 <=> k = 2
  <2>1. k = 1 \/ k = 2 \/ k \in 3..28
    OBVIOUS
  <2>2. QED BY <2>1, PlacesDesLignes
<1>2. \A p : p \in Retirees(Transitions[k])
             <=> p = Place(k) \/ (k = 2 /\ p \in {532, 576})
  BY <1>1 DEF Retirees, Produits, Place
<1>3. Ajoutes(Transitions[k].ordres) = IF k = 1 THEN {32, 76} ELSE {}
  <2>1. k = 1 \/ k \in 2..28
    OBVIOUS
  <2>2. QED BY <2>1, LignesDesProduits
<1>4. Prochaine(k) /\ Tirable(k)
  BY DEF Transition, Tire, Prochaine
<1>5. k = 2 => PS(1) \in vus
  BY <1>4, LignesDesProduits DEF Tirable
<1>6. M' = [p \in Places |->
              M[p] - (IF p \in Retirees(Transitions[k]) THEN 1 ELSE 0)
                   + (IF p \in Transitions[k].vers THEN 1 ELSE 0)]
  BY DEF Transition, Tire
<1>7. QED
  BY <1>2, <1>3, <1>4, <1>5, <1>6
     DEF Transition, Tire, Prochaine, Tirable, Place, Recoivent

LEMMA TransitionPreserve ==
    ASSUME InvNet, NEW k \in 1..28, Transition(k)
    PROVE  InvNet'
<1>0. /\ play /\ play' /\ position' = k + 1
      /\ M[Place(k)] # 0
      /\ k = 2 => PS(1) \in vus
      /\ M' = [p \in Places |->
                 M[p] - (IF p = Place(k) \/ (k = 2 /\ p \in {532, 576}) THEN 1 ELSE 0)
                      + (IF p \in Transitions[k].vers THEN 1 ELSE 0)]
      /\ vus' \subseteq vus
      /\ produit_a_ajouter' = produit_a_ajouter \cup (IF k = 1 THEN {32, 76} ELSE {})
      /\ retours' = retours
  BY EffetDeLigne
<1>1. PICK c \in Chaine : RecitEn(c)
  BY DEF InvNet
<1>2. /\ c \in Nat /\ (c = 0 \/ c = 10 \/ c > 10)
      /\ {141, 142, 532, 576} \cap Chaine = {}
      /\ Places = Chaine \cup {141, 142, 532, 576}
      /\ Chaine' = Chaine
  BY ChaineDuNet
<1>3. M \in [Places -> Int]
  BY DEF InvNet
<1>4. M' \in [Places -> Int]
  BY <1>0, <1>3
<1>5. /\ position' \in 0..29 /\ position' # 0
      /\ \A v \in retours' : v[1] # "PS"
  BY <1>0 DEF InvNet
<1>6. CASE k \notin 16..17
  <2>1. PICK q \in Chaine :
               /\ Place(k) \in Chaine
               /\ q > Place(k) /\ (k < 15 => q <= 140) /\ (k = 1 => q = 10)
               /\ Transitions[k].vers = IF k = 15 THEN {141, q} ELSE {q}
    <3>1. /\ Place(k) \in Chaine
          /\ \E q \in Chaine :
               /\ q > Place(k) /\ (k < 15 => q <= 140) /\ (k = 1 => q = 10)
               /\ Transitions[k].vers = IF k = 15 THEN {141, q} ELSE {q}
      BY <1>6, LignesDuRecit
    <3>2. QED BY <3>1
  <2>2. Place(k) = c
    BY <1>0, <1>1, <2>1 DEF RecitEn
  <2>3. q \in Nat /\ q # c
    BY <1>2, <2>1, <2>2, ChaineDuNet
  <2>4. M'[q] = 1 /\ \A p \in Chaine \ {q} : M'[p] = 0
    <3>1. M'[q] = 1
      BY <1>0, <1>1, <1>2, <2>1, <2>2, <2>3 DEF RecitEn
    <3>2. M'[c] = 0
      BY <1>0, <1>1, <1>2, <2>1, <2>2, <2>3 DEF RecitEn
    <3>3. ASSUME NEW p \in Chaine, p # q, p # c PROVE M'[p] = 0
      BY <1>0, <1>1, <1>2, <2>1, <2>2, <3>3 DEF RecitEn
    <3>4. QED BY <3>1, <3>2, <3>3
  <2>5. /\ M'[142] = M[142]
        /\ M'[141] = M[141] + (IF k = 15 THEN 1 ELSE 0)
    BY <1>0, <1>2, <1>3, <2>1, <2>2
  <2>6. k = 15 => c = 140
    BY <2>2, PlacesDesLignes
  <2>7. k > 15 => c > 140
    BY <1>6, <2>2, PlacesDesLignes
  <2>8. k < 15 => c <= 140
    BY <2>2, PlacesDesLignes
  <2>9. /\ M'[141] \in {0, 1} /\ M'[142] \in {0, 1} /\ M'[141] + M'[142] <= 1
        /\ q <= 140 => M'[141] = 0 /\ M'[142] = 0
    BY <1>1, <1>2, <2>1, <2>2, <2>3, <2>5, <2>6, <2>7, <2>8 DEF RecitEn
  <2>10. ProduitsSains(q)'
    <3>1. CASE k = 1
      <4>1. c = 0 /\ q = 10
        BY <2>1, <2>2, <3>1, PlacesDesLignes
      <4>2. produit_a_ajouter' = {32, 76} /\ PS(1) \notin vus'
        BY <1>0, <1>1, <3>1, <4>1 DEF RecitEn, ProduitsSains
      <4>3. M'[532] = 0 /\ M'[576] = 0
        BY <1>0, <1>1, <1>2, <1>3, <2>1, <3>1, <4>1 DEF RecitEn, ProduitsSains
      <4>4. QED BY <4>1, <4>2, <4>3 DEF ProduitsSains
    <3>2. CASE k = 2
      <4>1. c = 10 /\ q > 10
        BY <2>1, <2>2, <3>2, PlacesDesLignes
      <4>2. produit_a_ajouter = {} /\ M[532] = 1 /\ M[576] = 1
        BY <1>0, <1>1, <3>2, <4>1 DEF RecitEn, ProduitsSains
      <4>3. M'[532] = 0 /\ M'[576] = 0
        BY <1>0, <1>2, <1>3, <2>1, <2>2, <3>2, <4>1, <4>2
      <4>4. QED BY <1>0, <2>3, <3>2, <4>1, <4>2, <4>3 DEF ProduitsSains
    <3>3. CASE k > 2
      <4>1. c > 10 /\ q > 10
        BY <1>2, <2>1, <2>2, <2>3, <3>3, PlacesDesLignes
      <4>2. produit_a_ajouter = {} /\ M[532] = 0 /\ M[576] = 0
        BY <1>1, <4>1 DEF RecitEn, ProduitsSains
      <4>3. M'[532] = 0 /\ M'[576] = 0
        BY <1>0, <1>2, <1>3, <2>1, <2>2, <3>3, <4>2
      <4>4. QED BY <1>0, <2>3, <3>3, <4>1, <4>2, <4>3 DEF ProduitsSains
    <3>4. QED BY <3>1, <3>2, <3>3
  <2>11. RecitEn(q)'
    BY <2>4, <2>9, <2>10 DEF RecitEn
  <2>12. \E x \in Chaine' : RecitEn(x)'
    BY <1>2, <2>11
  <2>13. QED BY <1>4, <1>5, <2>12 DEF InvNet
<1>7. CASE k \in 16..17
  <2>1. /\ Place(k) = IF k = 16 THEN 141 ELSE 142
        /\ Transitions[k].vers = IF k = 16 THEN {142} ELSE {}
    <3>1. Place(16) = 141 /\ Place(17) = 142
      BY PlacesDesLignes
    <3>2. Transitions[16].vers = {142} /\ Transitions[17].vers = {}
      BY LignesDesProduits
    <3>3. k = 16 \/ k = 17
      BY <1>7
    <3>4. QED BY <3>1, <3>2, <3>3
  <2>2. \A p \in Places \ {141, 142} : M'[p] = M[p]
    BY <1>0, <1>3, <1>7, <2>1
  <2>3. /\ M'[141] = IF k = 16 THEN M[141] - 1 ELSE M[141]
        /\ M'[142] = IF k = 16 THEN M[142] + 1 ELSE M[142] - 1
    BY <1>0, <1>2, <1>3, <1>7, <2>1
  <2>4. M[Place(k)] = 1 /\ c > 140
    BY <1>0, <1>1, <1>2, <1>7, <2>1 DEF RecitEn
  <2>5. /\ M'[141] \in {0, 1} /\ M'[142] \in {0, 1} /\ M'[141] + M'[142] <= 1
    BY <1>1, <1>7, <2>1, <2>3, <2>4 DEF RecitEn
  <2>6. ProduitsSains(c)'
    <3>1. c > 10 /\ c # 0 /\ c # 10
      BY <1>2, <2>4
    <3>2. produit_a_ajouter = {} /\ M[532] = 0 /\ M[576] = 0
      BY <1>1, <3>1 DEF RecitEn, ProduitsSains
    <3>3. M'[532] = 0 /\ M'[576] = 0
      BY <1>2, <2>2, <3>2
    <3>4. produit_a_ajouter' = {}
      BY <1>0, <1>7, <3>2
    <3>5. QED BY <3>1, <3>3, <3>4 DEF ProduitsSains
  <2>7. RecitEn(c)'
    BY <1>1, <1>2, <2>2, <2>4, <2>5, <2>6 DEF RecitEn
  <2>8. QED BY <1>1, <1>2, <1>4, <1>5, <2>7 DEF InvNet
<1>8. QED BY <1>6, <1>7

LEMMA BegaieNet == ASSUME InvNet, UNCHANGED vars PROVE InvNet'
<1>1. UNCHANGED varsNet /\ UNCHANGED retours /\ UNCHANGED present
  BY DEF vars, varsNet, varsRobots, varsVoie
<1>2. QED
  BY <1>1, LesAutresPreservent DEF InvNet

(* MarquageSain of main_commande.cpp, for every rail, number of shuttles,  *)
(* speed and number of pauses.                                             *)
THEOREM NetSain == Spec => []MarquageSain
<1>1. Init => InvNet
  BY InvNetInitial
<1>2. InvNet /\ [Next]_vars => InvNet'
  <2> SUFFICES ASSUME InvNet, [Next]_vars PROVE InvNet'
    OBVIOUS
  <2>1. ASSUME NEW k \in DOMAIN Transitions, Transition(k) PROVE InvNet'
    BY <2>1, TransitionPreserve, PlacesDesLignes
  <2>2. CASE Tour
    BY <2>2, TourPreserve
  <2>3. CASE \/ Play \/ Pause \/ Rail \/ RobotEvacue \/ Ronde \/ AppelsSeuls
             \/ \E a \in Aiguillages : BougeVersCote(a)
             \/ \E r \in Robots : RobotPrend(r) \/ RobotPose(r)
             \/ \E p \in Postes : RobotTermine(p)
    <3>1. /\ UNCHANGED varsNet
          /\ \A v \in retours' : v[1] # "PS"
          /\ ~play => UNCHANGED present
      BY <2>3, LesAutresSteps
    <3>2. QED BY <3>1, LesAutresPreservent
  <2>4. CASE UNCHANGED vars
    BY <2>4, BegaieNet
  <2>5. QED
    BY <2>1, <2>2, <2>3, <2>4 DEF Next, AppelsSeuls
<1>3. QED
  BY <1>1, <1>2, InvNetImplique, PTL DEF Spec
-----------------------------------------------------------------------------
(* The moves, the tasks and the switches under way when the story of the   *)
(* net is at place c: what the table has ordered and not yet waited for.   *)
Mouvements(c) ==
    CASE c = 30 -> {<<2, 1, 2>>, <<4, 1, 3>>}
      [] c = 50 -> {<<3, 2, 1>>}
      [] c = 90 -> {<<3, 1, 4>>, <<1, 3, 4>>}
      [] c = 120 -> {<<1, 4, 3>>, <<3, 4, 3>>}
      [] c = 160 -> {<<2, 3, 4>>}
      [] c = 180 -> {<<2, 2, 1>>}
      [] c = 200 -> {<<2, 4, 1>>}
      [] OTHER -> {}

Travaux(c) ==
    CASE c = 20 -> {7}
      [] c \in {60, 70, 80} -> {6}
      [] c \in {100, 110} -> {1, 5}
      [] c \in {170, 180, 190} -> {4}
      [] c = 182 -> {3, 4}
      [] OTHER -> {}

Tourne(c) ==
    CASE c \in {40, 60, 70} -> {2}
      [] c \in {50, 80, 90} -> {2, 3, 10}
      [] c \in 140..200 -> {11, 12}
      [] c \in 210..240 -> {3, 10, 11, 12}
      [] c = PlaceFin -> {1, 2, 3, 10, 11, 12}
      [] OTHER -> {}

(* An end is published once, and once read it is not published again: a    *)
(* value that the net sees is that of the last order.                      *)
RobotEn(r, c) ==
    IF \E m \in Mouvements(c) : m[1] = r
    THEN \/ /\ depl[r].phase \in {"prise", "pose"}
            /\ <<r, depl[r].A, depl[r].B>> \in Mouvements(c)
            /\ FinDeplacerPiece(r) \notin vus \cup retours
         \/ depl[r] = Repos /\ ~(FinDeplacerPiece(r) \in vus /\ FinDeplacerPiece(r) \in retours)
    ELSE depl[r] = Repos /\ FinDeplacerPiece(r) \notin retours

PosteEn(p, c) ==
    IF p \in Travaux(c)
    THEN \/ tache[p] = "cours" /\ TacheFinie(p) \notin vus \cup retours
         \/ tache[p] = "repos" /\ ~(TacheFinie(p) \in vus /\ TacheFinie(p) \in retours)
    ELSE tache[p] = "repos" /\ TacheFinie(p) \notin retours

(* The switches that the net does not wait for are given a round by the    *)
(* robots: the move of robot 3 ordered in place 80 takes one at least.     *)
AigEn(c) ==
    /\ \A a \in Aiguillages \ Tourne(c) : aig[a] = cote[a]
    /\ \A a \in Aiguillages \cap {3, 10} :
         /\ c <= 50 /\ DG(a) \in vus => aig[a] = "G" /\ cote[a] = "G"
         /\ c = 50 => cote[a] = "G"
    /\ c = 90 => \/ \A a \in Aiguillages : aig[a] = cote[a]
                 \/ <<"deplacer", 3>> \in neuf /\ depl[3].phase = "prise"

OrdresEn(c) ==
    /\ \A r \in Robots : RobotEn(r, c)
    /\ \A p \in Postes : PosteEn(p, c)
    /\ AigEn(c)

TypesOrdres ==
    /\ depl \in [Robots -> [phase : {"repos", "prise", "pose"}, A : 0..4, B : 0..4]]
    /\ tache \in [Postes -> {"repos", "cours"}]
    /\ aig \in [Aiguillages -> {"D", "G", "M"}] /\ cote \in [Aiguillages -> {"D", "G"}]
    /\ \A v \in retours : v[1] \in {"deplacer", "tache"}

InvOrdres ==
    /\ TypesOrdres
    /\ \A c \in Chaine : M[c] # 0 => OrdresEn(c)

Recit == (1..28) \ (16..17)
Suivante(k) == IF k = 28 THEN PlaceFin ELSE IF k = 15 THEN 150 ELSE Place(k + 1)

(* The tasks that the row of place c orders, those it waits for, and the   *)
(* switches it turns.                                                      *)
TachesDe(c) ==
    CASE c = 10 -> {7}
      [] c = 50 -> {6}
      [] c = 90 -> {1, 5}
      [] c = 100 -> {5}
      [] c = 160 -> {4}
      [] c = 180 -> {3}
      [] OTHER -> {}

TachesAttendues(c) ==
    CASE c = 20 -> {7}
      [] c = 80 -> {6}
      [] c = 100 -> {5}
      [] c = 110 -> {1, 5}
      [] c = 182 -> {3}
      [] c = 190 -> {4}
      [] OTHER -> {}

AigsDe(c) ==
    CASE c = 30 -> {2}
      [] c \in {40, 70, 200} -> {3, 10}
      [] c = 130 -> {11, 12}
      [] c = 240 -> {1, 2}
      [] OTHER -> {}
-----------------------------------------------------------------------------
(* The rows of the table, read for what they order and wait for.           *)
LEMMA LesPlaces ==
    \A k \in 1..28 : Place(k) =
      <<0, 10, 20, 30, 40, 50, 60, 70, 80, 90, 100, 110, 120, 130, 140, 141, 142, 150,
        160, 170, 180, 182, 190, 200, 210, 220, 230, 240>>[k]
BY SMTT(60) DEF Place, Transitions, Ligne

LEMMA LesSuivantes ==
    \A k \in 1..28 : Suivante(k) =
      <<10, 20, 30, 40, 50, 60, 70, 80, 90, 100, 110, 120, 130, 140, 150, 142, 150,
        160, 170, 180, 182, 190, 200, 210, 220, 230, 240, 1000>>[k]
BY SMTT(60), LesPlaces DEF Suivante, PlaceFin

LEMMA VersLaSuivante ==
    \A k \in Recit :
      Transitions[k].vers = IF k = 15 THEN {141, Suivante(k)} ELSE {Suivante(k)}
<1>1. \A j \in 1..27 : j \notin 15..17 => Transitions[j].vers = {Place(j + 1)}
  BY SMTT(60) DEF Place, Transitions, Ligne
<1>2. /\ Transitions[15].vers = {141, 150}
      /\ Transitions[28].vers = {PlaceFin}
  BY DEF Transitions, Ligne
<1>3. ASSUME NEW k \in Recit, k # 15
      PROVE  Transitions[k].vers = {Suivante(k)}
  <2>1. k = 28 \/ (k \in 1..27 /\ k \notin 15..17)
    BY <1>3 DEF Recit
  <2>2. QED  BY <1>1, <1>2, <1>3, <2>1 DEF Suivante
<1>4. Transitions[15].vers = {141, Suivante(15)}
  BY <1>2 DEF Suivante
<1>5. QED  BY <1>3, <1>4

LEMMA OrdresMouvements ==
    \A k \in Recit : \A r, A, B :
      Deplacer(r, A, B) \in Transitions[k].ordres <=> <<r, A, B>> \in Mouvements(Suivante(k))
BY SMTT(120)
   DEF Recit, Suivante, Place, Transitions, Ligne, Deplacer, FaireTache, Stop, Ouvrir,
       Ergot, Droite, Gauche, Evacuer, Ajouter, Mouvements, PlaceFin

LEMMA AttentesMouvements ==
    \A k \in Recit : \A m \in Mouvements(Place(k)) :
      FinDeplacerPiece(m[1]) \in Transitions[k].hauts
BY SMTT(120) DEF Recit, Place, Transitions, Ligne, Mouvements, FinDeplacerPiece, PlaceFin

LEMMA OrdresTaches ==
    \A k \in Recit :
      /\ \A p, d : FaireTache(p, d) \in Transitions[k].ordres => p \in TachesDe(Place(k))
      /\ \A p \in TachesDe(Place(k)) :
           p \in Postes /\ \E d \in Durees : FaireTache(p, d) \in Transitions[k].ordres
<1>1. \A k \in Recit : \A p, d :
        FaireTache(p, d) \in Transitions[k].ordres => p \in TachesDe(Place(k))
  BY SMTT(120)
     DEF Recit, Place, Transitions, Ligne, TachesDe, Deplacer, FaireTache, Stop, Ouvrir,
         Ergot, Droite, Gauche, Evacuer, Ajouter
<1>2. \A k \in Recit : \A p \in TachesDe(Place(k)) :
        p \in Postes /\ \E d \in Durees : FaireTache(p, d) \in Transitions[k].ordres
  BY SMTT(120)
     DEF Recit, Place, Transitions, Ligne, TachesDe, FaireTache, Durees, Postes
<1>3. QED  BY <1>1, <1>2

LEMMA AttentesTaches ==
    \A k \in Recit : \A p :
      TacheFinie(p) \in Transitions[k].hauts <=> p \in TachesAttendues(Place(k))
BY SMTT(120)
   DEF Recit, Place, Transitions, Ligne, TachesAttendues, TacheFinie, FinDeplacerPiece,
       PS, CapteurCP, DG

LEMMA OrdresAigs ==
    \A k \in Recit : \A a :
      Gauche(a) \in Transitions[k].ordres \/ Droite(a) \in Transitions[k].ordres
        => a \in AigsDe(Place(k))
BY SMTT(120)
   DEF Recit, Place, Transitions, Ligne, AigsDe, Deplacer, FaireTache, Stop, Ouvrir,
       Ergot, Droite, Gauche, Evacuer, Ajouter

(* From one place of the story to the next, what is under way is what was, *)
(* less what the row waited for, and what it orders.                       *)
LEMMA DUnePlaceALAutre ==
    ASSUME NEW k \in Recit, NEW c, NEW q, c = Place(k), q = Suivante(k)
    PROVE  /\ \A p : p \in Travaux(q) <=>
                       p \in TachesDe(c) \/ p \in Travaux(c) \ TachesAttendues(c)
           /\ TachesDe(c) \cap Travaux(c) \subseteq TachesAttendues(c)
           /\ AigsDe(c) \cap Tourne(c) = {} /\ AigsDe(c) \subseteq Tourne(q)
           /\ c \notin {50, 90} => Tourne(c) \subseteq Tourne(q)
           /\ c = 50 => Tourne(c) \ {3, 10} \subseteq Tourne(q)
           /\ q <= 50 => c <= 40
           /\ q = 50 => c = 40
           /\ c = 40 => k = 5
           /\ c = 50 => k = 6
           /\ q = 90 => c = 80 /\ <<3, 1, 4>> \in Mouvements(q)
BY SMTT(120), LesPlaces, LesSuivantes
   DEF Recit, Travaux, TachesDe, TachesAttendues, AigsDe, Tourne, Mouvements, PlaceFin

(* The posts between which a robot moves a piece are not at work.          *)
LEMMA PostesDesRobots ==
    /\ PosteDe(2, 1) = 3 /\ PosteDe(4, 1) = 7 /\ PosteDe(3, 1) = 6
    /\ PosteDe(3, 4) = 5 /\ PosteDe(1, 4) = 1 /\ PosteDe(2, 4) = 4
<1>1. /\ RobotEtPosition[1] = <<1, 4>> /\ RobotEtPosition[2] = <<1, 1>>
      /\ RobotEtPosition[3] = <<2, 1>> /\ RobotEtPosition[4] = <<2, 4>>
      /\ RobotEtPosition[5] = <<3, 4>> /\ RobotEtPosition[6] = <<3, 1>>
      /\ RobotEtPosition[7] = <<4, 1>> /\ RobotEtPosition[8] = <<4, 4>>
  BY DEF RobotEtPosition
<1>2. ASSUME NEW p \in Postes, NEW q \in Postes, RobotEtPosition[p] = RobotEtPosition[q]
      PROVE  p = q
  BY <1>1, <1>2, SMTT(60) DEF Postes
<1>3. ASSUME NEW p \in Postes, NEW r, NEW x, RobotEtPosition[p] = <<r, x>>
      PROVE  PosteDe(r, x) = p
  BY <1>2, <1>3 DEF PosteDe
<1>4. QED  BY <1>1, <1>3 DEF Postes

LEMMA MouvementsLibres ==
    ASSUME NEW c, NEW m \in Mouvements(c)
    PROVE  /\ m[1] \in Robots /\ m[2] \in 1..4 /\ m[3] \in 1..4 /\ m = <<m[1], m[2], m[3]>>
           /\ \A x \in {m[2], m[3]} \cap {1, 4} : PosteDe(m[1], x) \in Postes \ Travaux(c)
<1>1. m \in Robots \X (1..4) \X (1..4)
  BY SMTT(60) DEF Mouvements, Robots
<1>2. \A x \in {m[2], m[3]} \cap {1, 4} : PosteDe(m[1], x) \in Postes \ Travaux(c)
  BY SMTT(60), PostesDesRobots DEF Mouvements, Travaux, Postes
<1>3. QED  BY <1>1, <1>2

(* The rows of the side branch order no robot and no switch.               *)
LEMMA LignesDeCote ==
    \A k \in 16..17 : Transitions[k].ordres \subseteq {Stop(2)}
BY SMTT(60) DEF Transitions, Ligne
-----------------------------------------------------------------------------
(* A row of the story takes its mark from one place to the next.           *)
LEMMA LeRecitAvance ==
    ASSUME InvNet, NEW k \in Recit, Transition(k)
    PROVE  /\ Place(k) \in Chaine /\ M[Place(k)] # 0
           /\ \A c \in Chaine : M'[c] # 0 => c = Suivante(k)
           /\ Transitions[k].hauts \subseteq vus
<1>0. k \in 1..28 /\ k \notin 16..17 /\ (k = 15 => Place(k) # 141)
  BY LesPlaces DEF Recit
<1>1. PICK c \in Chaine : RecitEn(c)
  BY DEF InvNet
<1>2. /\ M[Place(k)] # 0
      /\ M' = [p \in Places |->
                 M[p] - (IF p = Place(k) \/ (k = 2 /\ p \in {532, 576}) THEN 1 ELSE 0)
                      + (IF p \in Transitions[k].vers THEN 1 ELSE 0)]
  BY <1>0, EffetDeLigne
<1>3. Place(k) \in Chaine
  BY <1>0, LignesDuRecit
<1>4. c = Place(k)
  BY <1>1, <1>2, <1>3 DEF RecitEn
<1>5. ASSUME NEW d \in Chaine, d # Suivante(k)
      PROVE  M'[d] = 0
  <2>1. d \in Places /\ d \notin {141, 142, 532, 576}
    BY ChaineDuNet
  <2>2. d \notin Transitions[k].vers
    <3>1. Transitions[k].vers = {Suivante(k)} \/ Transitions[k].vers = {141, Suivante(k)}
      BY VersLaSuivante
    <3>2. QED  BY <1>5, <2>1, <3>1
  <2>3. M'[d] = M[d] - (IF d = Place(k) THEN 1 ELSE 0)
    <3>1. M[d] \in Int
      BY <2>1 DEF InvNet
    <3>2. QED  BY <1>2, <2>1, <2>2, <3>1
  <2>4. QED  BY <1>1, <1>4, <2>3 DEF RecitEn
<1>6. Transitions[k].hauts \subseteq vus
  BY DEF Transition, Tire, Prochaine, Tirable
<1>7. QED  BY <1>2, <1>3, <1>5, <1>6

(* When a row of the story fires, no robot moves a piece, no end is on its *)
(* way, and the tasks it waited for are over.                              *)
LEMMA RobotsLibres ==
    ASSUME InvNet, InvOrdres, NEW k \in Recit, Transition(k)
    PROVE  /\ OrdresEn(Place(k))
           /\ \A r \in Robots : depl[r] = Repos /\ FinDeplacerPiece(r) \notin retours
           /\ \A p \in Postes : p \notin Travaux(Place(k)) \ TachesAttendues(Place(k))
                => tache[p] = "repos" /\ TacheFinie(p) \notin retours
<1>1. OrdresEn(Place(k)) /\ Transitions[k].hauts \subseteq vus
  BY LeRecitAvance DEF InvOrdres
<1>2. ASSUME NEW r \in Robots
      PROVE  depl[r] = Repos /\ FinDeplacerPiece(r) \notin retours
  <2>1. RobotEn(r, Place(k))
    BY <1>1 DEF OrdresEn
  <2>2. (\E m \in Mouvements(Place(k)) : m[1] = r) => FinDeplacerPiece(r) \in vus
    BY <1>1, AttentesMouvements
  <2>3. QED  BY <2>1, <2>2 DEF RobotEn
<1>3. ASSUME NEW p \in Postes, p \notin Travaux(Place(k)) \ TachesAttendues(Place(k))
      PROVE  tache[p] = "repos" /\ TacheFinie(p) \notin retours
  <2>1. PosteEn(p, Place(k))
    BY <1>1 DEF OrdresEn
  <2>2. p \in Travaux(Place(k)) => TacheFinie(p) \in vus
    BY <1>1, <1>3, AttentesTaches
  <2>3. QED  BY <2>1, <2>2 DEF PosteEn
<1>4. QED  BY <1>1, <1>2, <1>3

(* What a row orders, as the robots and the switches receive it.           *)
LEMMA CeQuOrdonne ==
    ASSUME NEW k \in Recit, Transition(k)
    PROVE  /\ \A r \in Robots :
                IF \E m \in Mouvements(Suivante(k)) : m[1] = r
                THEN /\ \E m \in Mouvements(Suivante(k)) :
                          m[1] = r /\ depl'[r] = [phase |-> "prise", A |-> m[2], B |-> m[3]]
                     /\ FinDeplacerPiece(r) \notin vus'
                     /\ <<"deplacer", r>> \in neuf'
                ELSE depl'[r] = depl[r]
           /\ \A p \in Postes :
                IF p \in TachesDe(Place(k))
                THEN tache'[p] = "cours" /\ TacheFinie(p) \notin vus'
                ELSE tache'[p] = tache[p]
           /\ \A a \in Aiguillages : cote'[a] # cote[a] => a \in AigsDe(Place(k))
           /\ \A a \in Aiguillages : Gauche(a) \in Transitions[k].ordres => cote'[a] = "G"
           /\ vus' \subseteq vus /\ UNCHANGED <<retours, aig>>
<1> DEFINE O == Transitions[k].ordres
           d == {m \in Robots \X (1..4) \X (1..4) : Deplacer(m[1], m[2], m[3]) \in O}
           t == {x \in Postes \X Durees : FaireTache(x[1], x[2]) \in O}
           n == {x \in Postes \X (1..6) : Ajouter(x[1], x[2]) \in O}
<1>1. /\ vus' = vus \ Efface(O)
      /\ Recoivent(d, {x[1] : x \in t}, Evacuer \in O, n)
      /\ neuf' = neuf \cup {<<"deplacer", m[1]>> : m \in d} \cup {<<"tache", x[1]>> : x \in t}
      /\ cote' = [a \in Aiguillages |-> IF Gauche(a) \in O THEN "G"
                                        ELSE IF Droite(a) \in O THEN "D" ELSE cote[a]]
      /\ aig' = aig /\ retours' = retours
  BY DEF Transition, Tire, Recoivent, varsVoie
<1>2. d = Mouvements(Suivante(k))
  <2>1. \A m \in d : m \in Mouvements(Suivante(k))
    BY OrdresMouvements
  <2>2. \A m \in Mouvements(Suivante(k)) : m \in d
    <3> TAKE m \in Mouvements(Suivante(k))
    <3>1. m \in Robots \X (1..4) \X (1..4) /\ m = <<m[1], m[2], m[3]>>
      BY MouvementsLibres
    <3>2. Deplacer(m[1], m[2], m[3]) \in O
      BY <3>1, OrdresMouvements
    <3>3. QED  BY <3>1, <3>2
  <2>3. QED  BY <2>1, <2>2
<1>3. \A p : p \in {x[1] : x \in t} <=> p \in TachesDe(Place(k))
  <2>1. \A x \in t : x[1] \in TachesDe(Place(k))
    BY OrdresTaches
  <2>2. \A p \in TachesDe(Place(k)) : \E x \in t : x[1] = p
    <3> TAKE p \in TachesDe(Place(k))
    <3>1. p \in Postes
      BY OrdresTaches
    <3>2. PICK u \in Durees : FaireTache(p, u) \in O
      BY OrdresTaches
    <3>3. <<p, u>> \in t
      BY <3>1, <3>2
    <3>4. QED  BY <3>3
  <2>3. QED  BY <2>1, <2>2
<1> HIDE DEF O, d, t, n
<1>4. ASSUME NEW r \in Robots, NEW m \in Mouvements(Suivante(k)), m[1] = r
      PROVE  FinDeplacerPiece(r) \notin vus'
  <2>1. m[2] \in 1..4 /\ m[3] \in 1..4 /\ <<r, m[2], m[3]>> \in Mouvements(Suivante(k))
    BY <1>4, MouvementsLibres
  <2>2. Deplacer(r, m[2], m[3]) \in O
    BY <2>1, OrdresMouvements DEF O
  <2>3. FinDeplacerPiece(r) \in Efface(O)
    BY <2>1, <2>2 DEF Efface, Robots
  <2>4. QED  BY <1>1, <2>3
<1>5. ASSUME NEW r \in Robots
      PROVE  IF \E m \in Mouvements(Suivante(k)) : m[1] = r
             THEN /\ \E m \in Mouvements(Suivante(k)) :
                       m[1] = r /\ depl'[r] = [phase |-> "prise", A |-> m[2], B |-> m[3]]
                  /\ <<"deplacer", r>> \in neuf'
             ELSE depl'[r] = depl[r]
  <2>1. depl'[r] = IF \E m \in d : m[1] = r
                   THEN LET m == CHOOSE m \in d : m[1] = r
                        IN  [phase |-> "prise", A |-> m[2], B |-> m[3]]
                   ELSE depl[r]
    BY <1>1 DEF Recoivent
  <2>2. CASE \E m \in Mouvements(Suivante(k)) : m[1] = r
    <3>1. PICK m : m = (CHOOSE x \in d : x[1] = r)
      OBVIOUS
    <3>2. m \in d /\ m[1] = r
      BY <1>2, <2>2, <3>1
    <3>3. depl'[r] = [phase |-> "prise", A |-> m[2], B |-> m[3]]
      BY <2>1, <3>1, <3>2
    <3>4. <<"deplacer", r>> \in neuf'
      BY <1>1, <3>2
    <3>5. QED  BY <1>2, <2>2, <3>2, <3>3, <3>4
  <2>3. CASE ~ \E m \in Mouvements(Suivante(k)) : m[1] = r
    BY <1>2, <2>1, <2>3
  <2>4. QED  BY <2>2, <2>3
<1>6. ASSUME NEW p \in Postes
      PROVE  IF p \in TachesDe(Place(k))
             THEN tache'[p] = "cours" /\ TacheFinie(p) \notin vus'
             ELSE tache'[p] = tache[p]
  <2>1. tache'[p] = IF p \in TachesDe(Place(k)) THEN "cours" ELSE tache[p]
    BY <1>1, <1>3 DEF Recoivent
  <2>2. ASSUME p \in TachesDe(Place(k))
        PROVE  TacheFinie(p) \notin vus'
    <3>1. PICK u \in Durees : FaireTache(p, u) \in O
      BY <2>2, OrdresTaches DEF O
    <3>2. TacheFinie(p) \in Efface(O)
      BY <3>1 DEF Efface, Postes
    <3>3. QED  BY <1>1, <3>2
  <2>3. QED  BY <2>1, <2>2
<1>7. ASSUME NEW a \in Aiguillages
      PROVE  /\ cote'[a] # cote[a] => a \in AigsDe(Place(k))
             /\ Gauche(a) \in Transitions[k].ordres => cote'[a] = "G"
  BY <1>1, OrdresAigs DEF O
<1>8. QED  BY <1>1, <1>4, <1>5, <1>6, <1>7

LEMMA OrdresDuRecit ==
    ASSUME InvNet, InvOrdres, NEW k \in Recit, Transition(k)
    PROVE  OrdresEn(Suivante(k))'
<1>1. PICK c, q : c = Place(k) /\ q = Suivante(k)
  OBVIOUS
<1>2. /\ OrdresEn(c)
      /\ \A r \in Robots : depl[r] = Repos /\ FinDeplacerPiece(r) \notin retours
      /\ \A p \in Postes : p \notin Travaux(c) \ TachesAttendues(c)
           => tache[p] = "repos" /\ TacheFinie(p) \notin retours
  BY <1>1, RobotsLibres
<1>3. /\ \A r \in Robots :
           IF \E m \in Mouvements(q) : m[1] = r
           THEN /\ \E m \in Mouvements(q) :
                     m[1] = r /\ depl'[r] = [phase |-> "prise", A |-> m[2], B |-> m[3]]
                /\ FinDeplacerPiece(r) \notin vus'
                /\ <<"deplacer", r>> \in neuf'
           ELSE depl'[r] = depl[r]
      /\ \A p \in Postes :
           IF p \in TachesDe(c)
           THEN tache'[p] = "cours" /\ TacheFinie(p) \notin vus'
           ELSE tache'[p] = tache[p]
      /\ \A a \in Aiguillages : cote'[a] # cote[a] => a \in AigsDe(c)
      /\ vus' \subseteq vus /\ UNCHANGED <<retours, aig>>
  BY <1>1, CeQuOrdonne
<1>4. /\ \A p : p \in Travaux(q) <=> p \in TachesDe(c) \/ p \in Travaux(c) \ TachesAttendues(c)
      /\ TachesDe(c) \cap Travaux(c) \subseteq TachesAttendues(c)
      /\ AigsDe(c) \cap Tourne(c) = {} /\ AigsDe(c) \subseteq Tourne(q)
      /\ c \notin {50, 90} => Tourne(c) \subseteq Tourne(q)
      /\ c = 50 => Tourne(c) \ {3, 10} \subseteq Tourne(q)
      /\ q <= 50 => c <= 40
      /\ q = 50 => c = 40
      /\ c = 40 => k = 5
      /\ c = 50 => k = 6
      /\ q = 90 => c = 80 /\ <<3, 1, 4>> \in Mouvements(q)
  BY <1>1, DUnePlaceALAutre
<1>5. ASSUME NEW r \in Robots
      PROVE  RobotEn(r, q)'
  <2>1. CASE \E m \in Mouvements(q) : m[1] = r
    <3>1. PICK m \in Mouvements(q) :
             m[1] = r /\ depl'[r] = [phase |-> "prise", A |-> m[2], B |-> m[3]]
      BY <1>3, <2>1
    <3>2. m = <<r, m[2], m[3]>>
      BY <3>1, MouvementsLibres
    <3>3. FinDeplacerPiece(r) \notin vus' \cup retours'
      BY <1>2, <1>3, <2>1
    <3>4. depl'[r].phase = "prise" /\ <<r, depl'[r].A, depl'[r].B>> \in Mouvements(q)
      BY <3>1, <3>2
    <3>5. QED  BY <2>1, <3>3, <3>4 DEF RobotEn
  <2>2. CASE ~ \E m \in Mouvements(q) : m[1] = r
    <3>1. depl'[r] = Repos /\ FinDeplacerPiece(r) \notin retours'
      BY <1>2, <1>3, <2>2
    <3>2. QED  BY <2>2, <3>1 DEF RobotEn
  <2>3. QED  BY <2>1, <2>2
<1>6. ASSUME NEW p \in Postes
      PROVE  PosteEn(p, q)'
  <2>1. CASE p \in TachesDe(c)
    <3>1. tache'[p] = "cours" /\ TacheFinie(p) \notin vus' /\ p \in Travaux(q)
      BY <1>3, <1>4, <2>1
    <3>2. TacheFinie(p) \notin retours'
      BY <1>2, <1>3, <1>4, <2>1
    <3>3. QED  BY <3>1, <3>2 DEF PosteEn
  <2>2. CASE p \notin TachesDe(c) /\ p \in Travaux(c) \ TachesAttendues(c)
    <3>1. PosteEn(p, c) /\ p \in Travaux(c) /\ p \in Travaux(q)
      BY <1>2, <1>4, <2>2 DEF OrdresEn
    <3>2. tache'[p] = tache[p] /\ retours' = retours /\ vus' \subseteq vus
      BY <1>3, <2>2
    <3>3. QED  BY <3>1, <3>2 DEF PosteEn
  <2>3. CASE p \notin TachesDe(c) /\ p \notin Travaux(c) \ TachesAttendues(c)
    <3>1. p \notin Travaux(q) /\ tache'[p] = "repos" /\ TacheFinie(p) \notin retours'
      BY <1>2, <1>3, <1>4, <2>3
    <3>2. QED  BY <3>1 DEF PosteEn
  <2>4. QED  BY <2>1, <2>2, <2>3
<1>7. AigEn(q)'
  <2>0. AigEn(c)
    BY <1>2 DEF OrdresEn
  <2>1. ASSUME NEW a \in Aiguillages \ Tourne(q)
        PROVE  aig'[a] = cote'[a]
    <3>1. cote'[a] = cote[a] /\ aig'[a] = aig[a]
      BY <1>3, <1>4
    <3>2. CASE a \notin Tourne(c)
      BY <2>0, <3>1, <3>2 DEF AigEn
    <3>3. CASE c = 50 /\ a \in {3, 10}
      <4>1. DG(a) \in vus
        <5>1. k = 6
          BY <1>4, <3>3
        <5>2. DG(3) \in Transitions[6].hauts /\ DG(10) \in Transitions[6].hauts
          BY DEF Transitions, Ligne
        <5>3. QED  BY <3>3, <5>1, <5>2, LeRecitAvance
      <4>2. aig[a] = "G" /\ cote[a] = "G"
        BY <2>0, <3>3, <4>1 DEF AigEn
      <4>3. QED  BY <3>1, <4>2
    <3>4. CASE c = 90
      <4>1. depl[3].phase # "prise"
        BY <1>2 DEF Robots, Repos
      <4>2. aig[a] = cote[a]
        BY <2>0, <3>4, <4>1 DEF AigEn
      <4>3. QED  BY <3>1, <4>2
    <3>5. QED  BY <1>4, <3>2, <3>3, <3>4
  <2>2. ASSUME NEW a \in Aiguillages \cap {3, 10}, c = 40
        PROVE  cote'[a] = "G"
    <3>1. k = 5
      BY <1>4, <2>2
    <3>2. Gauche(3) \in Transitions[5].ordres /\ Gauche(10) \in Transitions[5].ordres
      BY DEF Transitions, Ligne
    <3>3. QED  BY <3>1, <3>2, CeQuOrdonne
  <2>3. ASSUME NEW a \in Aiguillages \cap {3, 10}, q <= 50, DG(a) \in vus'
        PROVE  aig'[a] = "G" /\ cote'[a] = "G"
    <3>1. c \in Nat /\ c <= 40 /\ DG(a) \in vus
      BY <1>1, <1>3, <1>4, <2>3, PlacesDesLignes DEF Recit
    <3>2. aig[a] = "G" /\ cote[a] = "G"
      BY <2>0, <3>1 DEF AigEn
    <3>3. c # 40 => a \notin AigsDe(c)
      BY <3>1 DEF AigsDe
    <3>4. QED  BY <1>3, <2>2, <3>2, <3>3
  <2>4. ASSUME q = 90
        PROVE  <<"deplacer", 3>> \in neuf' /\ depl'[3].phase = "prise"
    <3>1. <<3, 1, 4>> \in Mouvements(q) /\ 3 \in Robots
      BY <1>4, <2>4 DEF Robots
    <3>2. \E m \in Mouvements(q) : m[1] = 3
      BY <3>1
    <3>3. <<"deplacer", 3>> \in neuf'
      BY <1>3, <3>1, <3>2
    <3>4. \E m \in Mouvements(q) : depl'[3] = [phase |-> "prise", A |-> m[2], B |-> m[3]]
      BY <1>3, <3>1, <3>2
    <3>5. depl'[3].phase = "prise"
      BY <3>4
    <3>6. QED  BY <3>3, <3>5
  <2>5. QED  BY <1>4, <2>1, <2>2, <2>3, <2>4 DEF AigEn
<1>8. QED  BY <1>1, <1>5, <1>6, <1>7 DEF OrdresEn

(* The rows of the side branch leave the robots and the switches alone.    *)
LEMMA OrdresDeCote ==
    ASSUME NEW k \in 16..17, Transition(k)
    PROVE  /\ \A r \in Robots : depl'[r] = depl[r]
           /\ \A p \in Postes : tache'[p] = tache[p]
           /\ \A a \in Aiguillages : cote'[a] = cote[a]
           /\ UNCHANGED <<retours, aig>>
           /\ vus' \subseteq vus /\ neuf \subseteq neuf'
           /\ \A p, d : FaireTache(p, d) \notin Transitions[k].ordres
<1> DEFINE O == Transitions[k].ordres
           d == {m \in Robots \X (1..4) \X (1..4) : Deplacer(m[1], m[2], m[3]) \in O}
           t == {x \in Postes \X Durees : FaireTache(x[1], x[2]) \in O}
           n == {x \in Postes \X (1..6) : Ajouter(x[1], x[2]) \in O}
<1>1. /\ vus' \subseteq vus /\ neuf \subseteq neuf'
      /\ Recoivent(d, {x[1] : x \in t}, Evacuer \in O, n)
      /\ cote' = [a \in Aiguillages |-> IF Gauche(a) \in O THEN "G"
                                        ELSE IF Droite(a) \in O THEN "D" ELSE cote[a]]
      /\ aig' = aig
  BY DEF Transition, Tire, varsVoie
<1>2. O \subseteq {Stop(2)}
  BY LignesDeCote
<1>3. /\ \A r, A, B : Deplacer(r, A, B) \notin O
      /\ \A p, u : FaireTache(p, u) \notin O
      /\ \A a : Gauche(a) \notin O /\ Droite(a) \notin O
  BY <1>2 DEF Stop, Deplacer, FaireTache, Gauche, Droite
<1>4. d = {} /\ t = {}
  BY <1>3
<1>5. /\ \A r \in Robots : depl'[r] = depl[r]
      /\ \A p \in Postes : tache'[p] = tache[p]
      /\ retours' = retours
  BY <1>1, <1>4 DEF Recoivent
<1>6. \A a \in Aiguillages : cote'[a] = cote[a]
  BY <1>1, <1>3
<1>7. QED  BY <1>1, <1>3, <1>5, <1>6

(* The types: what the robots and the switches are given to do.            *)
LEMMA TypesDesOrdres ==
    ASSUME TypesOrdres, NEW k \in 1..28, Transition(k)
    PROVE  TypesOrdres'
<1> DEFINE O == Transitions[k].ordres
           d == {m \in Robots \X (1..4) \X (1..4) : Deplacer(m[1], m[2], m[3]) \in O}
           t == {x \in Postes \X Durees : FaireTache(x[1], x[2]) \in O}
           n == {x \in Postes \X (1..6) : Ajouter(x[1], x[2]) \in O}
<1>1. /\ Recoivent(d, {x[1] : x \in t}, Evacuer \in O, n)
      /\ cote' = [a \in Aiguillages |-> IF Gauche(a) \in O THEN "G"
                                        ELSE IF Droite(a) \in O THEN "D" ELSE cote[a]]
      /\ aig' = aig /\ retours' = retours
  BY DEF Transition, Tire, Recoivent, varsVoie
<1>2. d \subseteq Robots \X (1..4) \X (1..4)
  OBVIOUS
<1> HIDE DEF O, d, t, n
<1>3. cote' \in [Aiguillages -> {"D", "G"}]
  BY <1>1 DEF TypesOrdres
<1>4. tache' \in [Postes -> {"repos", "cours"}]
  BY <1>1 DEF TypesOrdres, Recoivent
<1>5. ASSUME NEW r \in Robots
      PROVE  depl'[r] \in [phase : {"repos", "prise", "pose"}, A : 0..4, B : 0..4]
  <2>1. depl'[r] = IF \E m \in d : m[1] = r
                   THEN LET m == CHOOSE m \in d : m[1] = r
                        IN  [phase |-> "prise", A |-> m[2], B |-> m[3]]
                   ELSE depl[r]
    BY <1>1 DEF Recoivent
  <2>2. CASE \E m \in d : m[1] = r
    <3>1. PICK m : m = (CHOOSE x \in d : x[1] = r)
      OBVIOUS
    <3>2. m \in d /\ m[2] \in 1..4 /\ m[3] \in 1..4
      BY <1>2, <2>2, <3>1
    <3>3. depl'[r] = [phase |-> "prise", A |-> m[2], B |-> m[3]]
      BY <2>1, <2>2, <3>1
    <3>4. QED  BY <3>2, <3>3
  <2>3. CASE ~ \E m \in d : m[1] = r
    BY <2>1, <2>3 DEF TypesOrdres
  <2>4. QED  BY <2>2, <2>3
<1>6. depl' = [r \in Robots |-> depl'[r]]
  BY <1>1 DEF Recoivent
<1>7. depl' \in [Robots -> [phase : {"repos", "prise", "pose"}, A : 0..4, B : 0..4]]
  BY <1>5, <1>6
<1>8. QED  BY <1>1, <1>3, <1>4, <1>7 DEF TypesOrdres

LEMMA TransitionOrdres ==
    ASSUME InvNet, InvOrdres, NEW k \in 1..28, Transition(k)
    PROVE  InvOrdres'
<1>1. TypesOrdres'
  BY TypesDesOrdres DEF InvOrdres
<1>2. Chaine' = Chaine
  BY ChaineDuNet
<1>3. ASSUME k \in Recit, NEW c \in Chaine, M'[c] # 0
      PROVE  OrdresEn(c)'
  <2>1. c = Suivante(k)
    BY <1>3, LeRecitAvance
  <2>2. OrdresEn(Suivante(k))'
    BY <1>3, OrdresDuRecit
  <2>3. QED  BY <2>1, <2>2
<1>4. ASSUME k \notin Recit, NEW c \in Chaine, M'[c] # 0
      PROVE  OrdresEn(c)'
  <2>0. k \in 16..17
    BY <1>4 DEF Recit
  <2>1. M[c] # 0
    <3>1. /\ M' = [p \in Places |->
                     M[p] - (IF p = Place(k) \/ (k = 2 /\ p \in {532, 576}) THEN 1 ELSE 0)
                          + (IF p \in Transitions[k].vers THEN 1 ELSE 0)]
      BY EffetDeLigne
    <3>2. Place(k) \in {141, 142} /\ Transitions[k].vers \subseteq {142}
      BY <2>0, PlacesDesLignes, LignesDesProduits
    <3>3. c \in Places /\ c \notin {141, 142, 532, 576}
      BY ChaineDuNet
    <3>4. M[c] \in Int
      BY <3>3 DEF InvNet
    <3>5. M'[c] = M[c]
      BY <3>1, <3>2, <3>3, <3>4
    <3>6. QED  BY <1>4, <3>5
  <2>2. OrdresEn(c)
    BY <2>1 DEF InvOrdres
  <2>3. /\ \A r \in Robots : depl'[r] = depl[r]
        /\ \A p \in Postes : tache'[p] = tache[p]
        /\ \A a \in Aiguillages : cote'[a] = cote[a]
        /\ UNCHANGED <<retours, aig>>
        /\ vus' \subseteq vus /\ neuf \subseteq neuf'
    BY <2>0, OrdresDeCote
  <2>4. \A r \in Robots : RobotEn(r, c)'
    BY <2>2, <2>3 DEF OrdresEn, RobotEn
  <2>5. \A p \in Postes : PosteEn(p, c)'
    BY <2>2, <2>3 DEF OrdresEn, PosteEn
  <2>6. AigEn(c)'
    <3>1. AigEn(c) /\ 3 \in Robots
      BY <2>2 DEF OrdresEn, Robots
    <3>2. QED  BY <2>3, <3>1 DEF AigEn
  <2>7. QED  BY <2>4, <2>5, <2>6 DEF OrdresEn
<1>5. QED  BY <1>1, <1>2, <1>3, <1>4 DEF InvOrdres
-----------------------------------------------------------------------------
(* The other steps: no row fires, the mark of the story stays in c.        *)
LEMMA OrdresInitiaux == Init => InvOrdres
<1> SUFFICES ASSUME Init PROVE InvOrdres
  OBVIOUS
<1> USE DEF Init, InitNet, InitVoie, InitRobots
<1>1. TypesOrdres
  BY PosteAssumption DEF TypesOrdres, Repos
<1>2. ASSUME NEW c \in Chaine, M[c] # 0
      PROVE  c = 0
  <2>1. c \in Places
    BY DEF Chaine
  <2>2. QED  BY <1>2, <2>1
<1>3. Mouvements(0) = {} /\ Travaux(0) = {} /\ Tourne(0) = {}
  BY DEF Mouvements, Travaux, Tourne, PlaceFin
<1>4. \A r \in Robots : RobotEn(r, 0)
  BY <1>3 DEF RobotEn
<1>5. \A p \in Postes : PosteEn(p, 0)
  BY <1>3 DEF PosteEn
<1>6. AigEn(0)
  <2>1. \A a : DG(a) \notin vus
    BY DEF DG, FinDeplacerPiece
  <2>2. QED  BY <2>1, <1>3 DEF AigEn
<1>7. OrdresEn(0)
  BY <1>4, <1>5, <1>6 DEF OrdresEn
<1>8. QED  BY <1>1, <1>2, <1>7 DEF InvOrdres

(* What a place asks holds on as long as none of what it reads changes.    *)
LEMMA OrdresIntacts ==
    ASSUME NEW c, OrdresEn(c), UNCHANGED <<depl, tache, retours, vus, aig, cote, neuf>>
    PROVE  OrdresEn(c)'
<1>1. \A r \in Robots : RobotEn(r, c)'
  BY DEF OrdresEn, RobotEn
<1>2. \A p \in Postes : PosteEn(p, c)'
  BY DEF OrdresEn, PosteEn
<1>3. AigEn(c)'
  BY DEF OrdresEn, AigEn
<1>4. QED  BY <1>1, <1>2, <1>3 DEF OrdresEn

LEMMA TourOrdres ==
    ASSUME InvNet, InvOrdres, Tour
    PROVE  InvOrdres'
<1>1. /\ vus' = Capteurs \cup {v \in vus : v[1] \in {"deplacer", "tache"}} \cup retours
      /\ retours' = {}
      /\ UNCHANGED <<depl, tache, aig, cote, neuf>>
      /\ M' = M \/ M' = [p \in Places |->
                           M[p] + (IF p - 500 \in produit_a_ajouter THEN 1 ELSE 0)]
  BY DEF Tour, SpinOnce, varsVoie, varsActionneurs, varsRythme
<1>2. TypesOrdres /\ TypesOrdres'
  BY <1>1 DEF InvOrdres, TypesOrdres
<1>3. ASSUME NEW c \in Chaine, M'[c] # 0
      PROVE  M[c] # 0
  <2>1. PICK x \in Chaine : RecitEn(x)
    BY DEF InvNet
  <2>2. x \in Nat /\ (x = 0 \/ x = 10 \/ x > 10)
    BY ChaineDuNet
  <2>3. produit_a_ajouter \in {{}, {32, 76}}
    BY <2>1, <2>2 DEF RecitEn, ProduitsSains
  <2>4. c \in Places /\ c \in Nat /\ c # 532 /\ c # 576
    BY ChaineDuNet
  <2>5. c - 500 \notin produit_a_ajouter
    BY <2>3, <2>4
  <2>6. M[c] \in Int
    BY <2>4 DEF InvNet
  <2>7. M'[c] = M[c]
    BY <1>1, <2>4, <2>5, <2>6
  <2>8. QED  BY <1>3, <2>7
<1>4. /\ \A r : FinDeplacerPiece(r) \in vus' <=> FinDeplacerPiece(r) \in vus \cup retours
      /\ \A p : TacheFinie(p) \in vus' <=> TacheFinie(p) \in vus \cup retours
      /\ \A a : DG(a) \in vus' => a \in Aiguillages /\ aig[a] = "G"
  <2>1. \A v \in Capteurs : v[1] \in {"PS", "CP", "DG"}
    BY DEF Capteurs, PS, CapteurCP, DG
  <2>2. \A r : FinDeplacerPiece(r)[1] = "deplacer" /\ TacheFinie(r)[1] = "tache"
    BY DEF FinDeplacerPiece, TacheFinie
  <2>3. \A a : DG(a)[1] = "DG"
    BY DEF DG
  <2>4. \A a : DG(a) \in vus' => DG(a) \in Capteurs
    BY <1>1, <1>2, <2>3 DEF TypesOrdres
  <2>5. \A a : DG(a) \in Capteurs => a \in Aiguillages /\ aig[a] = "G"
    BY DEF Capteurs, PS, CapteurCP, DG
  <2>6. QED  BY <1>1, <2>1, <2>2, <2>4, <2>5
<1>5. ASSUME NEW c \in Chaine, OrdresEn(c)
      PROVE  OrdresEn(c)'
  <2>1. \A r \in Robots : RobotEn(r, c)'
    BY <1>1, <1>4, <1>5 DEF OrdresEn, RobotEn
  <2>2. \A p \in Postes : PosteEn(p, c)'
    BY <1>1, <1>4, <1>5 DEF OrdresEn, PosteEn
  <2>3. AigEn(c)
    BY <1>5 DEF OrdresEn
  <2>4. ASSUME NEW a \in Aiguillages \cap {3, 10}, c <= 50, DG(a) \in vus'
        PROVE  aig[a] = "G" /\ cote[a] = "G"
    <3>1. aig[a] = "G"
      BY <1>4, <2>4
    <3>2. CASE c = 50
      BY <2>3, <3>1, <3>2 DEF AigEn
    <3>3. CASE c # 50
      <4>1. c \in Nat
        BY ChaineDuNet
      <4>2. a \notin Tourne(c)
        BY <2>4, <3>3, <4>1 DEF Tourne, PlaceFin
      <4>3. QED  BY <2>3, <3>1, <4>2 DEF AigEn
    <3>4. QED  BY <3>2, <3>3
  <2>5. AigEn(c)'
    BY <1>1, <2>3, <2>4 DEF AigEn
  <2>6. QED  BY <2>1, <2>2, <2>5 DEF OrdresEn
<1>6. QED  BY <1>2, <1>3, <1>5, ChaineDuNet DEF InvOrdres

(* A robot that takes its piece disturbs no task.                          *)
LEMMA PriseSansRetour ==
    ASSUME NEW c, OrdresEn(c), NEW r \in Robots, RobotPrend(r)
    PROVE  UNCHANGED <<tache, retours>>
<1>0. depl[r].phase = "prise" /\ RobotEn(r, c)
  BY DEF OrdresEn, RobotPrend, Prise
<1>1. <<r, depl[r].A, depl[r].B>> \in Mouvements(c)
  BY <1>0 DEF RobotEn, Repos
<1>2. ASSUME depl[r].A \in {1, 4}
      PROVE  tache[PosteDe(r, depl[r].A)] = "repos"
  <2>1. PICK m : m = <<r, depl[r].A, depl[r].B>>
    OBVIOUS
  <2>2. \A x \in {m[2], m[3]} \cap {1, 4} : PosteDe(m[1], x) \in Postes \ Travaux(c)
    BY <1>1, <2>1, MouvementsLibres
  <2>3. PosteDe(r, depl[r].A) \in Postes \ Travaux(c)
    BY <1>2, <2>1, <2>2
  <2>4. QED  BY <2>3 DEF OrdresEn, PosteEn
<1>3. Prise(r, LieuDe(r, depl[r].A))
  BY DEF RobotPrend
<1>4. QED  BY <1>2, <1>3 DEF Prise

(* The steps of the robots, the switches and the rounds.                   *)
LEMMA RobotPrendOrdres ==
    ASSUME TypesOrdres, NEW c, OrdresEn(c), NEW r \in Robots, RobotPrend(r)
    PROVE  TypesOrdres' /\ OrdresEn(c)'
<1>1. /\ depl[r].phase = "prise" /\ <<"deplacer", r>> \notin neuf
      /\ depl' = [depl EXCEPT ![r].phase = "pose"]
      /\ neuf \subseteq neuf'
      /\ UNCHANGED <<vus, aig, cote>>
  BY DEF RobotPrend, Travaille, Prise, varsVoie, varsNet, varsActionneurs
<1>2. /\ <<r, depl[r].A, depl[r].B>> \in Mouvements(c)
      /\ FinDeplacerPiece(r) \notin vus \cup retours
  BY <1>1 DEF OrdresEn, RobotEn, Repos
<1>3. UNCHANGED <<tache, retours>>
  BY PriseSansRetour
<1>4. \A x \in Robots : /\ x # r => depl'[x] = depl[x]
                        /\ depl'[r].phase = "pose"
                        /\ depl'[r].A = depl[r].A /\ depl'[r].B = depl[r].B
  BY <1>1 DEF TypesOrdres
<1>5. TypesOrdres'
  <2>1. depl' \in [Robots -> [phase : {"repos", "prise", "pose"}, A : 0..4, B : 0..4]]
    BY <1>1 DEF TypesOrdres
  <2>2. QED  BY <1>1, <1>3, <2>1 DEF TypesOrdres
<1>6. ASSUME NEW x \in Robots PROVE RobotEn(x, c)'
  <2>1. CASE x = r
    <3>1. \E m \in Mouvements(c) : m[1] = r
      BY <1>2
    <3>2. /\ depl'[r].phase \in {"prise", "pose"}
          /\ <<r, depl'[r].A, depl'[r].B>> \in Mouvements(c)
          /\ FinDeplacerPiece(r) \notin vus' \cup retours'
      BY <1>1, <1>2, <1>3, <1>4
    <3>3. QED  BY <2>1, <3>1, <3>2 DEF RobotEn
  <2>2. CASE x # r
    <3>1. RobotEn(x, c) /\ depl'[x] = depl[x] /\ vus' = vus /\ retours' = retours
      BY <1>1, <1>3, <1>4, <2>2 DEF OrdresEn
    <3>2. QED  BY <3>1 DEF RobotEn
  <2>3. QED  BY <2>1, <2>2
<1>7. \A p \in Postes : PosteEn(p, c)'
  BY <1>1, <1>3 DEF OrdresEn, PosteEn
<1>8. AigEn(c)'
  <2>1. AigEn(c) /\ 3 \in Robots
    BY DEF OrdresEn, Robots
  <2>2. <<"deplacer", 3>> \in neuf => r # 3
    BY <1>1
  <2>3. <<"deplacer", 3>> \in neuf /\ depl[3].phase = "prise"
          => <<"deplacer", 3>> \in neuf' /\ depl'[3].phase = "prise"
    BY <1>1, <1>4, <2>1, <2>2
  <2>4. QED  BY <1>1, <2>1, <2>3 DEF AigEn
<1>9. QED  BY <1>5, <1>6, <1>7, <1>8 DEF OrdresEn

LEMMA RobotPoseOrdres ==
    ASSUME TypesOrdres, NEW c, OrdresEn(c), NEW r \in Robots, RobotPose(r)
    PROVE  TypesOrdres' /\ OrdresEn(c)'
<1>1. /\ depl[r].phase = "pose"
      /\ depl' = [depl EXCEPT ![r] = Repos]
      /\ retours' = retours \cup {<<"deplacer", r>>}
      /\ UNCHANGED <<tache, vus, aig, cote, neuf>>
  BY DEF RobotPose, Pose, varsVoie, varsNet, varsActionneurs, varsRythme
<1>2. /\ \E m \in Mouvements(c) : m[1] = r
      /\ FinDeplacerPiece(r) \notin vus
  <2>1. RobotEn(r, c) /\ depl[r] # Repos
    BY <1>1 DEF OrdresEn, Repos
  <2>2. QED  BY <2>1 DEF RobotEn
<1>3. depl'[r] = Repos /\ \A x \in Robots : x # r => depl'[x] = depl[x]
  BY <1>1 DEF TypesOrdres
<1>4. TypesOrdres'
  <2>1. Repos \in [phase : {"repos", "prise", "pose"}, A : 0..4, B : 0..4]
    BY DEF Repos
  <2>2. depl' \in [Robots -> [phase : {"repos", "prise", "pose"}, A : 0..4, B : 0..4]]
    BY <1>1, <2>1 DEF TypesOrdres
  <2>3. \A v \in retours' : v[1] \in {"deplacer", "tache"}
    BY <1>1 DEF TypesOrdres
  <2>4. QED  BY <1>1, <2>2, <2>3 DEF TypesOrdres
<1>5. /\ \A x : x # r => (FinDeplacerPiece(x) \in retours' <=> FinDeplacerPiece(x) \in retours)
      /\ \A p : TacheFinie(p) \in retours' <=> TacheFinie(p) \in retours
  BY <1>1 DEF FinDeplacerPiece, TacheFinie
<1>6. ASSUME NEW x \in Robots PROVE RobotEn(x, c)'
  <2>1. CASE x = r
    BY <1>1, <1>2, <1>3, <2>1 DEF RobotEn
  <2>2. CASE x # r
    <3>1. RobotEn(x, c) /\ depl'[x] = depl[x] /\ vus' = vus
      BY <1>1, <1>3, <2>2 DEF OrdresEn
    <3>2. FinDeplacerPiece(x) \in retours' <=> FinDeplacerPiece(x) \in retours
      BY <1>5, <2>2
    <3>3. QED  BY <3>1, <3>2 DEF RobotEn
  <2>3. QED  BY <2>1, <2>2
<1>7. ASSUME NEW p \in Postes PROVE PosteEn(p, c)'
  <2>1. PosteEn(p, c) /\ tache' = tache /\ vus' = vus
    BY <1>1 DEF OrdresEn
  <2>2. TacheFinie(p) \in retours' <=> TacheFinie(p) \in retours
    BY <1>5
  <2>3. QED  BY <2>1, <2>2 DEF PosteEn
<1>8. AigEn(c)'
  <2>1. AigEn(c) /\ 3 \in Robots
    BY DEF OrdresEn, Robots
  <2>2. depl[3].phase = "prise" => depl'[3] = depl[3]
    BY <1>1, <1>3, <2>1
  <2>3. QED  BY <1>1, <2>1, <2>2 DEF AigEn
<1>9. QED  BY <1>4, <1>6, <1>7, <1>8 DEF OrdresEn

LEMMA RobotTermineOrdres ==
    ASSUME TypesOrdres, NEW c, OrdresEn(c), NEW p \in Postes, RobotTermine(p)
    PROVE  TypesOrdres' /\ OrdresEn(c)'
<1>1. /\ tache[p] = "cours"
      /\ tache' = [tache EXCEPT ![p] = "repos"]
      /\ retours' = retours \cup {<<"tache", p>>}
      /\ UNCHANGED <<depl, vus, aig, cote, neuf>>
  BY DEF RobotTermine, FinTache, varsVoie, varsNet, varsActionneurs, varsRythme
<1>2. p \in Travaux(c) /\ TacheFinie(p) \notin vus
  BY <1>1 DEF OrdresEn, PosteEn
<1>3. tache'[p] = "repos" /\ \A x \in Postes : x # p => tache'[x] = tache[x]
  BY <1>1 DEF TypesOrdres
<1>4. TypesOrdres'
  <2>1. \A v \in retours' : v[1] \in {"deplacer", "tache"}
    BY <1>1 DEF TypesOrdres
  <2>2. QED  BY <1>1, <2>1 DEF TypesOrdres
<1>5. /\ \A x : x # p => (TacheFinie(x) \in retours' <=> TacheFinie(x) \in retours)
      /\ \A r : FinDeplacerPiece(r) \in retours' <=> FinDeplacerPiece(r) \in retours
  BY <1>1 DEF FinDeplacerPiece, TacheFinie
<1>6. ASSUME NEW r \in Robots PROVE RobotEn(r, c)'
  <2>1. RobotEn(r, c) /\ depl' = depl /\ vus' = vus
    BY <1>1 DEF OrdresEn
  <2>2. FinDeplacerPiece(r) \in retours' <=> FinDeplacerPiece(r) \in retours
    BY <1>5
  <2>3. QED  BY <2>1, <2>2 DEF RobotEn
<1>7. ASSUME NEW x \in Postes PROVE PosteEn(x, c)'
  <2>1. CASE x = p
    BY <1>1, <1>2, <1>3, <2>1 DEF PosteEn
  <2>2. CASE x # p
    <3>1. PosteEn(x, c) /\ tache'[x] = tache[x] /\ vus' = vus
      BY <1>1, <1>3, <2>2 DEF OrdresEn
    <3>2. TacheFinie(x) \in retours' <=> TacheFinie(x) \in retours
      BY <1>5, <2>2
    <3>3. QED  BY <3>1, <3>2 DEF PosteEn
  <2>3. QED  BY <2>1, <2>2
<1>8. AigEn(c)'
  BY <1>1 DEF OrdresEn, AigEn
<1>9. QED  BY <1>4, <1>6, <1>7, <1>8 DEF OrdresEn

LEMMA AiguillageOrdres ==
    ASSUME TypesOrdres, NEW c, OrdresEn(c), NEW a \in Aiguillages, BougeVersCote(a)
    PROVE  TypesOrdres' /\ OrdresEn(c)'
<1>1. /\ aig[a] # cote[a]
      /\ aig' = [aig EXCEPT ![a] = IF aig[a] = "M" THEN cote[a] ELSE "M"]
      /\ UNCHANGED <<depl, tache, retours, vus, cote, neuf>>
  BY DEF BougeVersCote, BougeAiguillage, varsNet, varsRobots, varsActionneurs, varsRythme
<1>2. TypesOrdres'
  BY <1>1 DEF TypesOrdres
<1>3. \A b \in Aiguillages : b # a => aig'[b] = aig[b]
  BY <1>1 DEF TypesOrdres
<1>4. \A r \in Robots : RobotEn(r, c)'
  BY <1>1 DEF OrdresEn, RobotEn
<1>5. \A p \in Postes : PosteEn(p, c)'
  BY <1>1 DEF OrdresEn, PosteEn
<1>6. AigEn(c)'
  <2>1. AigEn(c)
    BY DEF OrdresEn
  <2>2. a \in Tourne(c)
    BY <1>1, <2>1 DEF AigEn
  <2>3. \A b \in Aiguillages \ Tourne(c) : aig'[b] = cote'[b]
    BY <1>1, <1>3, <2>1, <2>2 DEF AigEn
  <2>4. ASSUME NEW b \in Aiguillages \cap {3, 10}, c <= 50, DG(b) \in vus
        PROVE  aig'[b] = "G" /\ cote'[b] = "G"
    <3>1. aig[b] = "G" /\ cote[b] = "G"
      BY <2>1, <2>4 DEF AigEn
    <3>2. QED  BY <1>1, <1>3, <3>1
  <2>5. c = 90 => <<"deplacer", 3>> \in neuf /\ depl[3].phase = "prise"
    BY <1>1, <2>1 DEF AigEn
  <2>6. \A b \in Aiguillages \cap {3, 10} : c = 50 => cote[b] = "G"
    BY <2>1 DEF AigEn
  <2>7. QED  BY <1>1, <2>3, <2>4, <2>5, <2>6 DEF AigEn
<1>7. QED  BY <1>2, <1>4, <1>5, <1>6 DEF OrdresEn

LEMMA RondeOrdres ==
    ASSUME TypesOrdres, NEW c, OrdresEn(c), Ronde
    PROVE  TypesOrdres' /\ OrdresEn(c)'
<1>1. /\ \A a \in Aiguillages : aig[a] = cote[a]
      /\ UNCHANGED <<depl, tache, retours, vus, aig, cote>>
  BY DEF Ronde, varsVoie, varsNet, varsRobots, varsActionneurs
<1>2. TypesOrdres'
  BY <1>1 DEF TypesOrdres
<1>3. \A r \in Robots : RobotEn(r, c)'
  BY <1>1 DEF OrdresEn, RobotEn
<1>4. \A p \in Postes : PosteEn(p, c)'
  BY <1>1 DEF OrdresEn, PosteEn
<1>5. AigEn(c)'
  BY <1>1 DEF OrdresEn, AigEn
<1>6. QED  BY <1>2, <1>3, <1>4, <1>5 DEF OrdresEn

LEMMA IntactsOrdres ==
    ASSUME TypesOrdres, NEW c, OrdresEn(c),
           Play \/ Pause \/ Rail \/ RobotEvacue \/ AppelsSeuls \/ UNCHANGED vars
    PROVE  TypesOrdres' /\ OrdresEn(c)'
<1>1. UNCHANGED <<depl, tache, retours, vus, aig, cote, neuf>>
  <2> USE DEF varsVoie, varsNet, varsRobots, varsActionneurs, varsRythme
  <2>1. CASE Play \/ Pause
    BY <2>1 DEF Play, Pause
  <2>2. CASE Rail
    BY <2>2 DEF Rail, ArriveCapteur, Arrive, QuitteCapteur, Quitte
  <2>3. CASE RobotEvacue
    BY <2>3 DEF RobotEvacue, Evacue
  <2>4. CASE UNCHANGED vars
    BY <2>4 DEF vars
  <2>5. CASE AppelsSeuls
    BY <2>5, AppelsIntacts
  <2>6. QED  BY <2>1, <2>2, <2>3, <2>4, <2>5
<1>2. TypesOrdres'
  BY <1>1 DEF TypesOrdres
<1>3. QED  BY <1>1, <1>2, OrdresIntacts

(* The steps that leave the net alone.                                     *)
LEMMA LesAutresOrdres ==
    ASSUME InvNet, InvOrdres,
           \/ Play \/ Pause \/ Rail \/ RobotEvacue \/ Ronde \/ AppelsSeuls
           \/ \E a \in Aiguillages : BougeVersCote(a)
           \/ \E r \in Robots : RobotPrend(r) \/ RobotPose(r)
           \/ \E p \in Postes : RobotTermine(p)
           \/ UNCHANGED vars
    PROVE  InvOrdres'
<1>1. UNCHANGED varsNet
  <2>1. CASE UNCHANGED vars
    BY <2>1 DEF vars, varsNet
  <2>2. CASE ~ UNCHANGED vars
    BY <2>2, LesAutresSteps
  <2>3. QED  BY <2>1, <2>2
<1>2. M' = M /\ Chaine' = Chaine
  BY <1>1, ChaineDuNet DEF varsNet
<1>3. ASSUME NEW c \in Chaine, M[c] # 0
      PROVE  TypesOrdres' /\ OrdresEn(c)'
  <2>1. TypesOrdres /\ OrdresEn(c)
    BY <1>3 DEF InvOrdres
  <2>2. QED
    BY <2>1, RobotPrendOrdres, RobotPoseOrdres, RobotTermineOrdres, AiguillageOrdres,
       RondeOrdres, IntactsOrdres
<1>4. \E c \in Chaine : M[c] # 0
  BY DEF InvNet, RecitEn
<1>5. QED  BY <1>2, <1>3, <1>4 DEF InvOrdres

LEMMA InvariantDesOrdres == Spec => [](InvNet /\ InvOrdres)
<1>1. Init => InvNet /\ InvOrdres
  BY InvNetInitial, OrdresInitiaux
<1>2. InvNet /\ InvOrdres /\ [Next]_vars => (InvNet /\ InvOrdres)'
  <2> SUFFICES ASSUME InvNet, InvOrdres, [Next]_vars PROVE (InvNet /\ InvOrdres)'
    OBVIOUS
  <2>1. ASSUME NEW k \in DOMAIN Transitions, Transition(k) PROVE InvNet' /\ InvOrdres'
    BY <2>1, TransitionPreserve, TransitionOrdres, PlacesDesLignes
  <2>2. CASE Tour
    BY <2>2, TourPreserve, TourOrdres
  <2>3. CASE \/ Play \/ Pause \/ Rail \/ RobotEvacue \/ Ronde \/ AppelsSeuls
             \/ \E a \in Aiguillages : BougeVersCote(a)
             \/ \E r \in Robots : RobotPrend(r) \/ RobotPose(r)
             \/ \E p \in Postes : RobotTermine(p)
    <3>1. /\ UNCHANGED varsNet
          /\ \A v \in retours' : v[1] # "PS"
          /\ ~play => UNCHANGED present
      BY <2>3, LesAutresSteps
    <3>2. InvNet'
      BY <3>1, LesAutresPreservent
    <3>3. QED  BY <2>3, <3>2, LesAutresOrdres
  <2>4. CASE UNCHANGED vars
    BY <2>4, BegaieNet, LesAutresOrdres
  <2>5. QED
    BY <2>1, <2>2, <2>3, <2>4 DEF Next, AppelsSeuls
<1>3. QED
  BY <1>1, <1>2, PTL DEF Spec
-----------------------------------------------------------------------------
(* Only a row of the net gives an order.                                   *)
LEMMA SeulesLesLignesOrdonnent ==
    ASSUME InvNet, InvOrdres, [Next]_vars,
           ~ \E k \in DOMAIN Transitions : Transition(k)
    PROVE  /\ \A r \in Robots : depl'[r].phase = "prise" => depl'[r] = depl[r]
           /\ cote' = cote
           /\ position' \in {position, 0, 1}
<1> USE DEF varsNet, varsRobots, varsActionneurs
<1>0. TypesOrdres
  BY DEF InvOrdres
<1>1. CASE Tour
  BY <1>1 DEF Tour, SpinOnce
<1>2. CASE Play \/ Pause \/ Ronde
  BY <1>2 DEF Play, Pause, Ronde
<1>3. CASE Rail
  BY <1>3 DEF Rail, ArriveCapteur, QuitteCapteur
<1>4. CASE RobotEvacue
  BY <1>4 DEF RobotEvacue, Evacue
<1>5. CASE UNCHANGED vars
  BY <1>5 DEF vars
<1>6. ASSUME NEW a \in Aiguillages, BougeVersCote(a)
      PROVE  UNCHANGED <<depl, cote, position>>
  BY <1>6 DEF BougeVersCote
<1>7. ASSUME NEW p \in Postes, RobotTermine(p)
      PROVE  UNCHANGED <<depl, cote, position>>
  BY <1>7 DEF RobotTermine, FinTache
<1>8. ASSUME NEW r \in Robots, RobotPrend(r)
      PROVE  /\ \A x \in Robots : depl'[x].phase = "prise" => depl'[x] = depl[x]
             /\ UNCHANGED <<cote, position>>
  <2>1. depl' = [depl EXCEPT ![r].phase = "pose"] /\ UNCHANGED <<cote, position>>
    BY <1>8 DEF RobotPrend, Prise
  <2>2. depl'[r].phase = "pose" /\ \A x \in Robots : x # r => depl'[x] = depl[x]
    BY <1>0, <2>1 DEF TypesOrdres
  <2>3. QED  BY <2>1, <2>2
<1>9. ASSUME NEW r \in Robots, RobotPose(r)
      PROVE  /\ \A x \in Robots : depl'[x].phase = "prise" => depl'[x] = depl[x]
             /\ UNCHANGED <<cote, position>>
  <2>1. depl' = [depl EXCEPT ![r] = Repos] /\ UNCHANGED <<cote, position>>
    BY <1>9 DEF RobotPose, Pose
  <2>2. depl'[r] = Repos /\ \A x \in Robots : x # r => depl'[x] = depl[x]
    BY <1>0, <2>1 DEF TypesOrdres
  <2>3. QED  BY <2>1, <2>2 DEF Repos
<1>10. CASE AppelsSeuls
  BY <1>10, AppelsIntacts
<1>11. QED
  BY <1>1, <1>2, <1>3, <1>4, <1>5, <1>6, <1>7, <1>8, <1>9, <1>10 DEF Next, AppelsSeuls

(* A move is ordered to a robot that has none, between posts at rest.      *)
LEMMA DeplacementPrudent ==
    ASSUME InvNet, InvOrdres, NEW k \in 1..28, Transition(k),
           NEW r \in Robots, depl'[r] # depl[r]
    PROVE  /\ depl[r].phase = "repos"
           /\ \A p \in Postes :
                p \in {PosteDe(r, x) : x \in {depl'[r].A, depl'[r].B} \cap {1, 4}}
                  => tache[p] = "repos"
<1>1. k \in Recit
  BY OrdresDeCote DEF Recit
<1>2. PICK c, q : c = Place(k) /\ q = Suivante(k)
  OBVIOUS
<1>3. /\ depl[r] = Repos
      /\ \A p \in Postes : p \notin Travaux(c) \ TachesAttendues(c) => tache[p] = "repos"
  BY <1>1, <1>2, RobotsLibres
<1>4. PICK m \in Mouvements(q) :
         m[1] = r /\ depl'[r] = [phase |-> "prise", A |-> m[2], B |-> m[3]]
  BY <1>1, <1>2, CeQuOrdonne
<1>5. depl'[r].A = m[2] /\ depl'[r].B = m[3]
  BY <1>4
<1>6. ASSUME NEW x \in {m[2], m[3]} \cap {1, 4}
      PROVE  tache[PosteDe(r, x)] = "repos"
  <2>1. PosteDe(r, x) \in Postes \ Travaux(q)
    BY <1>4, MouvementsLibres
  <2>2. \A p : p \in Travaux(q) <=> p \in TachesDe(c) \/ p \in Travaux(c) \ TachesAttendues(c)
    BY <1>1, <1>2, DUnePlaceALAutre
  <2>3. QED  BY <1>3, <2>1, <2>2
<1>7. depl[r].phase = "repos"
  BY <1>3 DEF Repos
<1>8. QED  BY <1>5, <1>6, <1>7

(* A task is ordered to a post at rest, where no robot moves a piece.      *)
LEMMA TachePrudente ==
    ASSUME InvNet, InvOrdres, NEW k \in 1..28, Transition(k), NEW p \in Postes,
           \E d \in Durees : FaireTache(p, d) \in Transitions[k].ordres
    PROVE  /\ tache[p] = "repos"
           /\ \A r \in Robots :
                p \notin {PosteDe(r, x) : x \in {depl[r].A, depl[r].B} \cap {1, 4}}
<1>1. k \in Recit
  BY OrdresDeCote DEF Recit
<1>2. p \in TachesDe(Place(k))
  BY <1>1, OrdresTaches
<1>3. TachesDe(Place(k)) \cap Travaux(Place(k)) \subseteq TachesAttendues(Place(k))
  BY <1>1, DUnePlaceALAutre
<1>4. tache[p] = "repos"
  BY <1>1, <1>2, <1>3, RobotsLibres
<1>5. \A r \in Robots : depl[r].A = 0 /\ depl[r].B = 0
  BY <1>1, RobotsLibres DEF Repos
<1>6. QED  BY <1>4, <1>5

(* OrdresPrudents: at any speed of the robots, the shuttles and the        *)
(* switches, main_commande orders DeplacerPiece to a robot that has ended  *)
(* the last one, between posts at rest, and FaireTache on a post at rest   *)
(* that no robot serves.                                                   *)
THEOREM OrdresToujoursPrudents == Spec => OrdresPrudents
<1>1. ASSUME InvNet, InvOrdres, [Next]_vars, NEW r \in Robots,
             depl'[r].phase = "prise", depl'[r] # depl[r]
      PROVE  /\ depl[r].phase = "repos"
             /\ \A p \in Postes :
                  p \in {PosteDe(r, x) : x \in {depl'[r].A, depl'[r].B} \cap {1, 4}}
                    => tache[p] = "repos"
  <2>1. PICK k \in 1..28 : Transition(k)
    BY <1>1, SeulesLesLignesOrdonnent, PlacesDesLignes
  <2>2. QED  BY <1>1, <2>1, DeplacementPrudent
<1>2. ASSUME InvNet, InvOrdres, [Next]_vars, NEW k \in DOMAIN Transitions, NEW p \in Postes,
             position <= k, position' = k + 1,
             \E d \in Durees : FaireTache(p, d) \in Transitions[k].ordres
      PROVE  /\ tache[p] = "repos"
             /\ \A r \in Robots :
                  p \notin {PosteDe(r, x) : x \in {depl[r].A, depl[r].B} \cap {1, 4}}
  <2>1. k \in 1..28 /\ DOMAIN Transitions = 1..28
    BY PlacesDesLignes
  <2>2. position \in 0..29
    BY <1>2 DEF InvNet
  <2>3. position' \notin {position, 0, 1}
    BY <1>2, <2>1, <2>2
  <2>4. PICK j \in 1..28 : Transition(j)
    BY <1>2, <2>1, <2>3, SeulesLesLignesOrdonnent
  <2>5. position' = j + 1
    BY <1>2, <2>4, EffetDeLigne
  <2>6. j = k
    BY <1>2, <2>1, <2>5
  <2>7. QED  BY <1>2, <2>4, <2>6, TachePrudente
<1>3. InvNet /\ InvOrdres /\ [Next]_vars =>
        [/\ \A r \in Robots :
              depl'[r].phase = "prise" /\ depl'[r] # depl[r] =>
                  /\ depl[r].phase = "repos"
                  /\ \A p \in Postes :
                       p \in {PosteDe(r, x) : x \in {depl'[r].A, depl'[r].B} \cap {1, 4}}
                         => tache[p] = "repos"
         /\ \A k \in DOMAIN Transitions, p \in Postes :
              position <= k /\ position' = k + 1
              /\ (\E d \in Durees : FaireTache(p, d) \in Transitions[k].ordres) =>
                  /\ tache[p] = "repos"
                  /\ \A r \in Robots :
                       p \notin {PosteDe(r, x) : x \in {depl[r].A, depl[r].B} \cap {1, 4}}]_vars
  BY <1>1, <1>2
<1>4. QED  BY <1>3, InvariantDesOrdres, PTL DEF OrdresPrudents, Spec

(* AiguillageAuRepos: at any speed of the shuttles, main_commande sends a  *)
(* switch to its other side only when it stands on the side last asked     *)
(* for.  It reads a switch for the order of place 50 only; for the next    *)
(* ones it counts on the moves of the robots to take a round at least, the *)
(* time of a switch.                                                       *)
THEOREM AiguillagesToujoursAuRepos == Spec => AiguillageAuRepos
<1>1. ASSUME InvNet, InvOrdres, [Next]_vars, NEW a \in Aiguillages, cote'[a] # cote[a]
      PROVE  aig[a] = cote[a]
  <2>1. PICK k \in 1..28 : Transition(k)
    BY <1>1, SeulesLesLignesOrdonnent, PlacesDesLignes
  <2>2. k \in Recit
    BY <1>1, <2>1, OrdresDeCote DEF Recit
  <2>3. a \in AigsDe(Place(k))
    BY <1>1, <2>1, <2>2, CeQuOrdonne
  <2>4. a \notin Tourne(Place(k))
    BY <2>2, <2>3, DUnePlaceALAutre
  <2>5. AigEn(Place(k))
    BY <1>1, <2>1, <2>2, RobotsLibres DEF OrdresEn
  <2>6. QED  BY <2>4, <2>5 DEF AigEn
<1>2. InvNet /\ InvOrdres /\ [Next]_vars =>
        [\A a \in Aiguillages : cote'[a] # cote[a] => aig[a] = cote[a]]_vars
  BY <1>1
<1>3. QED  BY <1>2, InvariantDesOrdres, PTL DEF AiguillageAuRepos, Spec
-----------------------------------------------------------------------------
(* The types, with those of the rail that the robots and the shuttles need. *)
FinsTypees == {"deplacer", "tache"} \X (1..8)
VusTypes == ({"PS", "CP", "deplacer", "tache"} \X (1..24)) \cup {DG(a) : a \in Aiguillages}

TypesCellule ==
    /\ voie \in [Troncons -> Seq(Navettes)]
    /\ present \in [Troncons -> BOOLEAN]
    /\ \A t \in Troncons : present[t] => voie[t] # <<>>
    /\ vus \subseteq VusTypes
    /\ retours \subseteq FinsTypees
    /\ pieces \in [Lieux -> 0..6]
    /\ arrets \subseteq 1..24 /\ ergots \subseteq 1..8
    /\ fait \in [Navettes -> 0..Allure]

TypesAppels ==
    /\ publies \subseteq Appels /\ bloques \subseteq Robots
    /\ pile \in [Robots -> Seq(Appels)]
    /\ manques \subseteq Troncons

varsTypees == <<voie, present, vus, retours, pieces, arrets, ergots, fait>>

LEMMA TypesImpliquent == InvNet /\ InvOrdres /\ TypesCellule /\ TypesAppels => TypeOK
<1> SUFFICES ASSUME InvNet, InvOrdres, TypesCellule, TypesAppels PROVE TypeOK
  OBVIOUS
<1>1. Len(Transitions) + 1 = 29
  BY DEF Transitions
<1>2. produit_a_ajouter \subseteq 11..86
  <2>1. PICK c \in Chaine : RecitEn(c)
    BY DEF InvNet
  <2>2. c = 0 \/ c = 10 \/ c > 10
    BY ChaineDuNet
  <2>3. produit_a_ajouter \in {{}, {32, 76}}
    BY <2>1, <2>2 DEF RecitEn, ProduitsSains
  <2>4. QED  BY <2>3
<1>3. QED
  BY <1>1, <1>2 DEF TypeOK, InvNet, InvOrdres, TypesOrdres, TypesCellule, TypesAppels,
                       VusTypes, FinsTypees

LEMMA TypesInitiaux == Init => TypesCellule
<1> SUFFICES ASSUME Init PROVE TypesCellule
  OBVIOUS
<1> USE DEF Init, InitNet, InitVoie, InitRobots
<1>1. voie \in [Troncons -> Seq(Navettes)]
  BY FileInitialeAssumption
<1>2. vus \subseteq VusTypes
  BY DEF VusTypes, FinDeplacerPiece
<1>3. fait \in [Navettes -> 0..Allure]
  BY RythmeAssumption
<1>4. QED  BY <1>1, <1>2, <1>3 DEF TypesCellule

LEMMA TypesIntacts == TypesCellule /\ UNCHANGED varsTypees => TypesCellule'
BY DEF TypesCellule, varsTypees, VusTypes, FinsTypees

LEMMA TransitionTypes ==
    ASSUME TypesCellule, NEW k \in 1..28, Transition(k)
    PROVE  TypesCellule'
<1> DEFINE O == Transitions[k].ordres
           d == {m \in Robots \X (1..4) \X (1..4) : Deplacer(m[1], m[2], m[3]) \in O}
           t == {x \in Postes \X Durees : FaireTache(x[1], x[2]) \in O}
           n == {x \in Postes \X (1..6) : Ajouter(x[1], x[2]) \in O}
<1>1. /\ vus' \subseteq vus
      /\ Recoivent(d, {x[1] : x \in t}, Evacuer \in O, n)
      /\ arrets' = (arrets \ {i \in 1..24 : Ouvrir(i) \in O}) \cup {i \in 1..24 : Stop(i) \in O}
      /\ ergots' = ergots \cup {i \in 1..8 : Ergot(i) \in O}
      /\ UNCHANGED <<voie, present, fait>>
  BY DEF Transition, Tire, varsVoie
<1>2. n \subseteq Postes \X (1..6)
  OBVIOUS
<1> HIDE DEF O, d, t, n
<1>3. pieces' = [l \in Lieux |-> IF \E a \in n : l = Poste(a[1])
                                THEN (CHOOSE a \in n : l = Poste(a[1]))[2]
                                ELSE pieces[l]]
      /\ retours' = retours
  BY <1>1 DEF Recoivent
<1>4. ASSUME NEW l \in Lieux
      PROVE  pieces'[l] \in 0..6
  <2>1. CASE \E a \in n : l = Poste(a[1])
    <3>1. PICK b : b = (CHOOSE a \in n : l = Poste(a[1]))
      OBVIOUS
    <3>2. b \in n
      BY <2>1, <3>1
    <3>3. pieces'[l] = b[2]
      BY <1>3, <2>1, <3>1
    <3>4. QED  BY <1>2, <3>2, <3>3
  <2>2. CASE ~ \E a \in n : l = Poste(a[1])
    BY <1>3, <2>2 DEF TypesCellule
  <2>3. QED  BY <2>1, <2>2
<1>5. pieces' \in [Lieux -> 0..6]
  BY <1>3, <1>4
<1>6. arrets' \subseteq 1..24 /\ ergots' \subseteq 1..8
  BY <1>1 DEF TypesCellule
<1>7. QED  BY <1>1, <1>3, <1>5, <1>6 DEF TypesCellule, VusTypes, FinsTypees

LEMMA TourTypes ==
    ASSUME TypesCellule, Tour
    PROVE  TypesCellule'
<1>1. /\ vus' = Capteurs \cup {v \in vus : v[1] \in {"deplacer", "tache"}} \cup retours
      /\ retours' = {}
      /\ UNCHANGED <<voie, present, pieces, arrets, ergots, fait>>
  BY DEF Tour, SpinOnce, varsVoie, varsActionneurs, varsRythme
<1>2. Capteurs \subseteq VusTypes
  BY DEF Capteurs, VusTypes, PS, CapteurCP
<1>3. retours \subseteq VusTypes
  BY DEF TypesCellule, VusTypes, FinsTypees
<1>4. vus' \subseteq VusTypes'
  BY <1>1, <1>2, <1>3 DEF TypesCellule, VusTypes
<1>5. QED  BY <1>1, <1>4 DEF TypesCellule, FinsTypees

LEMMA RailTypes ==
    ASSUME TypesCellule, Rail
    PROVE  TypesCellule'
<1>1. ASSUME NEW t \in Troncons, ArriveCapteur(t)
      PROVE  TypesCellule'
  <2>1. /\ voie[t] # <<>> /\ voie' = voie
        /\ present' = [present EXCEPT ![t] = TRUE]
        /\ fait[Head(voie[t])] < Allure
        /\ fait' = [fait EXCEPT ![Head(voie[t])] = @ + 1]
        /\ UNCHANGED <<vus, retours, pieces, arrets, ergots>>
    BY <1>1 DEF ArriveCapteur, Arrive, varsNet, varsRobots, varsActionneurs
  <2>2. PICK h : h = Head(voie[t])
    OBVIOUS
  <2>3. fait' \in [Navettes -> 0..Allure]
    BY <2>1, <2>2, RythmeAssumption DEF TypesCellule
  <2>4. present' \in [Troncons -> BOOLEAN]
    BY <2>1 DEF TypesCellule
  <2>5. \A u \in Troncons : present'[u] => u = t \/ present[u]
    BY <2>1 DEF TypesCellule
  <2>6. QED  BY <2>1, <2>3, <2>4, <2>5 DEF TypesCellule, VusTypes, FinsTypees
<1>2. ASSUME NEW t \in Troncons, QuitteCapteur(t)
      PROVE  TypesCellule'
  <2>1. PICK s : s = Sortie(t)
    OBVIOUS
  <2>2. s \in Troncons /\ s # t
    <3>1. s \in {successeur_droite[t], successeur_gauche[t], 0} /\ s # 0
      BY <1>2, <2>1 DEF QuitteCapteur, Passage, Sortie
    <3>2. QED  BY <3>1, ReseauAssumption, SuccesseurAssumption
  <2>3. /\ present[t]
        /\ present' = [present EXCEPT ![t] = FALSE]
        /\ voie' = [voie EXCEPT ![s] = Append(@, Head(voie[t])), ![t] = Tail(@)]
        /\ UNCHANGED <<vus, retours, pieces, arrets, ergots, fait>>
    BY <1>2, <2>1 DEF QuitteCapteur, Quitte, varsNet, varsRobots, varsActionneurs, varsRythme
  <2>4. /\ voie[t] \in Seq(Navettes) /\ voie[t] # <<>> /\ voie[s] \in Seq(Navettes)
    BY <2>2, <2>3 DEF TypesCellule
  <2>5. Head(voie[t]) \in Navettes /\ Tail(voie[t]) \in Seq(Navettes)
    BY <2>4
  <2>6. Append(voie[s], Head(voie[t])) \in Seq(Navettes)
    BY <2>4, <2>5
  <2>7. Append(voie[s], Head(voie[t])) # <<>>
    <3>1. PICK x, h : x = voie[s] /\ h = Head(voie[t])
      OBVIOUS
    <3>2. x \in Seq(Navettes) /\ h \in Navettes
      BY <2>4, <2>5, <3>1
    <3>3. Len(Append(x, h)) = Len(x) + 1 /\ Len(x) \in Nat
      BY <3>2
    <3>4. Append(x, h) # <<>>
      BY <3>3
    <3>5. QED  BY <3>1, <3>4
  <2>8. /\ voie'[s] = Append(voie[s], Head(voie[t])) /\ voie'[t] = Tail(voie[t])
        /\ \A u \in Troncons \ {s, t} : voie'[u] = voie[u]
    BY <2>2, <2>3 DEF TypesCellule
  <2>9. voie' \in [Troncons -> Seq(Navettes)]
    BY <2>2, <2>3, <2>5, <2>6 DEF TypesCellule
  <2>10. ASSUME NEW u \in Troncons, present'[u]
         PROVE  voie'[u] # <<>>
    <3>1. u # t /\ present[u]
      <4>1. ~present'[t]
        BY <2>3 DEF TypesCellule
      <4>2. u # t => present'[u] = present[u]
        BY <2>3 DEF TypesCellule
      <4>3. QED  BY <2>10, <4>1, <4>2
    <3>2. CASE u = s
      BY <2>7, <2>8, <3>2
    <3>3. CASE u # s
      BY <2>8, <3>1, <3>3 DEF TypesCellule
    <3>4. QED  BY <3>2, <3>3
  <2>11. present' \in [Troncons -> BOOLEAN]
    BY <2>3 DEF TypesCellule
  <2>12. QED  BY <2>3, <2>9, <2>10, <2>11 DEF TypesCellule, VusTypes, FinsTypees
<1>3. QED  BY <1>1, <1>2 DEF Rail

(* A robot that moves a piece works between a post and a shuttle, whether  *)
(* the shuttle is there or not.                                            *)
LEMMA LieuDesRobots ==
    ASSUME Navettes \subseteq 0..5, TypesCellule, NEW c, NEW r \in Robots, NEW x,
           \E m \in Mouvements(c) : m[1] = r /\ x \in {m[2], m[3]}
    PROVE  LieuDe(r, x) \in Lieux \cup {"personne"}
<1>1. PICK m \in Mouvements(c) : m[1] = r /\ x \in {m[2], m[3]}
  OBVIOUS
<1>2. x \in 1..4
  BY <1>1, MouvementsLibres
<1>3. CASE x \in {1, 4}
  <2>1. PosteDe(r, x) \in Postes
    BY <1>1, <1>3, MouvementsLibres
  <2>2. LieuDe(r, x) = Poste(PosteDe(r, x))
    BY <1>3 DEF LieuDe
  <2>3. QED  BY <2>1, <2>2 DEF Lieux
<1>4. CASE x \in {2, 3}
  <2>1. NumCapteur(r, x) \in 1..34
    BY <1>4 DEF NumCapteur, Robots
  <2>2. TronconsCellule = 1..34
    BY DEF TronconsCellule, liste_file
  <2>3. PICK t : t = NumCapteur(r, x)
    OBVIOUS
  <2>4. t \in Troncons
    BY <2>1, <2>2, <2>3, CelluleAssumption
  <2>5. LieuDe(r, x) = IF present[t] THEN Navette(Head(voie[t])) ELSE "personne"
    BY <1>4, <2>3 DEF LieuDe
  <2>6. ASSUME present[t]
        PROVE  Navette(Head(voie[t])) \in Lieux
    <3>1. voie[t] \in Seq(Navettes) /\ voie[t] # <<>>
      BY <2>4, <2>6 DEF TypesCellule
    <3>2. Head(voie[t]) \in Navettes
      BY <3>1
    <3>3. Head(voie[t]) \in 0..5
      BY <3>2
    <3>4. QED  BY <3>3 DEF Lieux
  <2>7. QED  BY <2>5, <2>6
<1>5. QED  BY <1>2, <1>3, <1>4

(* To put a value of a function elsewhere and leave 0 keeps its type.      *)
LEMMA ReposerPiece ==
    ASSUME NEW S, NEW f \in [S -> 0..6], NEW i, NEW v \in 0..6, NEW j
    PROVE  /\ [f EXCEPT ![i] = 0] \in [S -> 0..6]
           /\ [f EXCEPT ![i] = v, ![j] = 0] \in [S -> 0..6]
<1>1. PICK g : g = [f EXCEPT ![i] = v]
  OBVIOUS
<1>2. ASSUME NEW h \in [S -> 0..6], NEW x, NEW w \in 0..6
      PROVE  [h EXCEPT ![x] = w] \in [S -> 0..6]
  <2>1. \A z \in S : [h EXCEPT ![x] = w][z] \in 0..6
    OBVIOUS
  <2>2. [h EXCEPT ![x] = w] = [z \in S |-> [h EXCEPT ![x] = w][z]]
    OBVIOUS
  <2>3. QED  BY <2>1, <2>2
<1>3. g \in [S -> 0..6]
  BY <1>1, <1>2
<1>4. [g EXCEPT ![j] = 0] \in [S -> 0..6]
  BY <1>2, <1>3
<1>5. [f EXCEPT ![i] = v, ![j] = 0] = [g EXCEPT ![j] = 0]
  BY <1>1
<1>6. QED  BY <1>2, <1>4, <1>5

LEMMA RobotsTypes ==
    ASSUME Navettes \subseteq 0..5, InvNet, InvOrdres, TypesCellule, NEW r \in Robots,
           RobotPrend(r) \/ RobotPose(r)
    PROVE  TypesCellule'
<1>1. PICK c \in Chaine : OrdresEn(c)
  BY DEF InvNet, InvOrdres, RecitEn
<1>2. ASSUME depl[r].phase \in {"prise", "pose"}
      PROVE  /\ LieuDe(r, depl[r].A) \in Lieux \cup {"personne"}
             /\ LieuDe(r, depl[r].B) \in Lieux \cup {"personne"}
  <2>1. <<r, depl[r].A, depl[r].B>> \in Mouvements(c)
    BY <1>1, <1>2 DEF OrdresEn, RobotEn, Repos
  <2>2. PICK m : m = <<r, depl[r].A, depl[r].B>>
    OBVIOUS
  <2>3. m \in Mouvements(c) /\ m[1] = r /\ depl[r].A = m[2] /\ depl[r].B = m[3]
    BY <2>1, <2>2
  <2>4. QED  BY <2>3, LieuDesRobots
<1>3. Pince(r) \in Lieux /\ "deplacer" \in {"deplacer", "tache"} /\ <<"deplacer", r>> \in FinsTypees
  BY DEF Lieux, FinsTypees, Robots
<1>4. CASE RobotPrend(r)
  <2>1. Prise(r, LieuDe(r, depl[r].A)) /\ depl[r].phase = "prise"
        /\ UNCHANGED <<voie, present, vus, arrets, ergots, fait>>
    BY <1>4 DEF RobotPrend, Prise, varsVoie, varsNet, varsActionneurs
  <2>2. PICK l : l = LieuDe(r, depl[r].A)
    OBVIOUS
  <2>3. l \in Lieux \cup {"personne"}
    BY <1>2, <2>1, <2>2
  <2>4. \/ pieces' = pieces
        \/ l \in Lieux /\ pieces' = [pieces EXCEPT ![Pince(r)] = pieces[l], ![l] = 0]
    <3>1. CASE l = "personne"
      BY <2>1, <2>2, <3>1 DEF Prise
    <3>2. CASE l # "personne"
      BY <2>1, <2>2, <2>3, <3>2 DEF Prise
    <3>3. QED  BY <3>1, <3>2
  <2>5. pieces' \in [Lieux -> 0..6]
    <3>1. ASSUME l \in Lieux
          PROVE  [pieces EXCEPT ![Pince(r)] = pieces[l], ![l] = 0] \in [Lieux -> 0..6]
      <4>1. pieces[l] \in 0..6 /\ pieces \in [Lieux -> 0..6]
        BY <3>1 DEF TypesCellule
      <4>2. QED  BY <4>1, ReposerPiece
    <3>2. QED  BY <2>4, <3>1 DEF TypesCellule
  <2>6. retours' = retours
    <3>1. TypesOrdres
      BY DEF InvOrdres
    <3>2. QED  BY <1>1, <1>4, <3>1, PriseSansRetour
  <2>7. QED  BY <2>1, <2>5, <2>6 DEF TypesCellule, VusTypes, FinsTypees
<1>5. CASE RobotPose(r)
  <2>1. Pose(r, LieuDe(r, depl[r].B)) /\ depl[r].phase = "pose"
        /\ UNCHANGED <<voie, present, vus, arrets, ergots, fait>>
    BY <1>5 DEF RobotPose, Pose, varsVoie, varsNet, varsActionneurs, varsRythme
  <2>2. PICK l : l = LieuDe(r, depl[r].B)
    OBVIOUS
  <2>3. l \in Lieux \cup {"personne"}
    BY <1>2, <2>1, <2>2
  <2>4. \/ pieces' = [pieces EXCEPT ![Pince(r)] = 0]
        \/ l \in Lieux /\ pieces' = [pieces EXCEPT ![l] = pieces[Pince(r)], ![Pince(r)] = 0]
    BY <2>1, <2>2, <2>3 DEF Pose
  <2>5. pieces' \in [Lieux -> 0..6]
    <3>1. ASSUME l \in Lieux
          PROVE  [pieces EXCEPT ![l] = pieces[Pince(r)], ![Pince(r)] = 0] \in [Lieux -> 0..6]
      <4>1. pieces[Pince(r)] \in 0..6 /\ pieces \in [Lieux -> 0..6]
        BY <1>3 DEF TypesCellule
      <4>2. QED  BY <4>1, ReposerPiece
    <3>2. [pieces EXCEPT ![Pince(r)] = 0] \in [Lieux -> 0..6]
      <4>1. pieces \in [Lieux -> 0..6]
        BY DEF TypesCellule
      <4>2. QED  BY <4>1, ReposerPiece
    <3>3. QED  BY <2>4, <3>1, <3>2
  <2>6. retours' \subseteq FinsTypees'
    BY <1>3, <2>1 DEF Pose, TypesCellule, FinsTypees
  <2>7. QED  BY <2>1, <2>5, <2>6 DEF TypesCellule, VusTypes, FinsTypees
<1>6. QED  BY <1>4, <1>5

LEMMA LesAutresTypes ==
    ASSUME TypesCellule,
           \/ Play \/ Pause \/ RobotEvacue \/ Ronde \/ AppelsSeuls
           \/ \E a \in Aiguillages : BougeVersCote(a)
           \/ \E p \in Postes : RobotTermine(p)
           \/ UNCHANGED vars
    PROVE  TypesCellule'
<1> USE DEF varsVoie, varsNet, varsRobots, varsActionneurs, varsRythme
<1>1. CASE Play \/ Pause \/ UNCHANGED vars
  BY <1>1, TypesIntacts DEF Play, Pause, vars, varsTypees
<1>2. CASE Ronde
  <2>1. fait' \in [Navettes -> 0..Allure]
    BY <1>2, RythmeAssumption DEF Ronde
  <2>2. UNCHANGED <<voie, present, vus, retours, pieces, arrets, ergots>>
    BY <1>2 DEF Ronde
  <2>3. QED  BY <2>1, <2>2 DEF TypesCellule, VusTypes, FinsTypees
<1>3. CASE RobotEvacue
  <2>1. pieces' \in [Lieux -> 0..6]
    <3>1. pieces' = [pieces EXCEPT ![Poste(3)] = 0]
      BY <1>3 DEF RobotEvacue, Evacue
    <3>2. pieces \in [Lieux -> 0..6]
      BY DEF TypesCellule
    <3>3. QED  BY <3>1, <3>2, ReposerPiece
  <2>2. UNCHANGED <<voie, present, vus, retours, arrets, ergots, fait>>
    BY <1>3 DEF RobotEvacue, Evacue
  <2>3. QED  BY <2>1, <2>2 DEF TypesCellule, VusTypes, FinsTypees
<1>4. ASSUME NEW a \in Aiguillages, BougeVersCote(a)
      PROVE  TypesCellule'
  BY <1>4, TypesIntacts DEF BougeVersCote, BougeAiguillage, varsTypees
<1>5. ASSUME NEW p \in Postes, RobotTermine(p)
      PROVE  TypesCellule'
  <2>1. retours' = retours \cup {<<"tache", p>>}
        /\ UNCHANGED <<voie, present, vus, pieces, arrets, ergots, fait>>
    BY <1>5 DEF RobotTermine, FinTache
  <2>2. retours' \subseteq FinsTypees
    BY <2>1 DEF TypesCellule, FinsTypees, Postes
  <2>3. QED  BY <2>1, <2>2 DEF TypesCellule, VusTypes, FinsTypees
<1>6. CASE AppelsSeuls
  BY <1>6, AppelsIntacts, TypesIntacts DEF varsTypees
<1>7. QED  BY <1>1, <1>2, <1>3, <1>4, <1>5, <1>6

(* The orders sent, the calls of the robots and the levels missed.         *)
LEMMA RobotDesAppels == \A a \in Appels : RobotDe(a) \in Robots
<1>1. \A p \in Postes : RobotEtPosition[p][1] \in Robots
  BY DEF Postes, RobotEtPosition, Robots
<1>2. QED
  BY <1>1 DEF Appels, RobotDe, Deplacement, Debut, Fin, Evacuation, Robots

LEMMA EmpileTypee ==
    ASSUME TypesAppels, NEW a \in Appels, Empile(a)
    PROVE  pile' \in [Robots -> Seq(Appels)]
<1>1. RobotDe(a) \in Robots /\ pile[RobotDe(a)] \in Seq(Appels)
  BY RobotDesAppels DEF TypesAppels
<1>2. Append(pile[RobotDe(a)], a) \in Seq(Appels)
  BY <1>1
<1>3. QED  BY <1>1, <1>2 DEF TypesAppels, Empile

LEMMA DepileTypee ==
    ASSUME TypesAppels, NEW a \in Appels, EnTete(a), Depile(a)
    PROVE  pile' \in [Robots -> Seq(Appels)]
<1> DEFINE s == pile[RobotDe(a)]
<1>1. RobotDe(a) \in Robots /\ s \in Seq(Appels) /\ s # <<>>
  BY RobotDesAppels DEF TypesAppels, EnTete
<1>2. Front(s) \in Seq(Appels)
  <2>1. Len(s) \in Int /\ \A i \in 1..(Len(s) - 1) : s[i] \in Appels
    BY <1>1
  <2>2. SubSeq(s, 1, Len(s) - 1) \in Seq(Appels)
    BY <2>1, SubSeqProperties
  <2>3. QED  BY <2>2 DEF Front
<1>3. pile' = [pile EXCEPT ![RobotDe(a)] = Front(s)]
  BY DEF Depile
<1>4. QED  BY <1>1, <1>2, <1>3 DEF TypesAppels

LEMMA AppelsDesTypes ==
    /\ \A r \in Robots : Deplacement(r) \in Appels
    /\ \A p \in Postes : Debut(p) \in Appels /\ Fin(p) \in Appels
    /\ Evacuation \in Appels
BY DEF Appels

LEMMA TransitionAppels ==
    ASSUME TypesAppels, NEW k \in DOMAIN Transitions, Transition(k)
    PROVE  TypesAppels'
<1> DEFINE O == Transitions[k].ordres
           d == {m \in Robots \X (1..4) \X (1..4) : Deplacer(m[1], m[2], m[3]) \in O}
           t == {x \in Postes \X Durees : FaireTache(x[1], x[2]) \in O}
           n == {x \in Postes \X (1..6) : Ajouter(x[1], x[2]) \in O}
<1>1. Recoivent(d, {x[1] : x \in t}, Evacuer \in O, n) /\ UNCHANGED manques
  BY DEF Transition
<1>2. (\A m \in d : m[1] \in Robots) /\ \A x \in t : x[1] \in Postes
  OBVIOUS
<1> HIDE DEF O, d, t, n
<1>3. /\ publies' = publies \cup {Deplacement(m[1]) : m \in d}
                             \cup {Debut(p) : p \in {x[1] : x \in t}}
                             \cup (IF Evacuer \in O THEN {Evacuation} ELSE {})
      /\ UNCHANGED <<pile, bloques>>
  BY <1>1 DEF Recoivent
<1>4. publies' \subseteq Appels
  BY <1>2, <1>3, AppelsDesTypes DEF TypesAppels
<1>5. QED  BY <1>1, <1>3, <1>4 DEF TypesAppels

LEMMA CommenceAppels ==
    ASSUME TypesAppels, NEW a \in publies, Commence(a), UNCHANGED manques
    PROVE  TypesAppels'
<1>1. a \in Appels /\ RobotDe(a) \in Robots
  BY RobotDesAppels DEF TypesAppels
<1>2. publies' \subseteq publies /\ bloques' \subseteq bloques \cup {RobotDe(a)} /\ Empile(a)
  BY DEF Commence
<1>3. QED  BY <1>1, <1>2, EmpileTypee DEF TypesAppels

(* The steps that end a call.                                              *)
LEMMA TerminentAppels ==
    ASSUME TypesAppels, NEW a \in Appels, EnTete(a), Depile(a),
           UNCHANGED <<publies, bloques, manques>>
    PROVE  TypesAppels'
BY DepileTypee DEF TypesAppels

LEMMA RobotsAppels ==
    ASSUME TypesAppels,
           \/ \E r \in Robots : RobotPrend(r) \/ RobotPose(r)
           \/ RobotEcoute \/ RobotEvacue
           \/ \E p \in Postes : RobotTravaille(p) \/ RobotTermine(p)
    PROVE  TypesAppels'
<1>1. ASSUME NEW r \in Robots, RobotPrend(r) PROVE TypesAppels'
  BY <1>1 DEF RobotPrend, Prise, varsAppels, TypesAppels
<1>2. ASSUME NEW r \in Robots, RobotPose(r) PROVE TypesAppels'
  BY <1>2, TerminentAppels, AppelsDesTypes DEF RobotPose, Pose
<1>3. CASE RobotEcoute
  BY <1>3, CommenceAppels DEF RobotEcoute
<1>4. ASSUME NEW p \in Postes, RobotTravaille(p) PROVE TypesAppels'
  <2>1. CASE FinDebut(p)
    BY <1>4, <2>1, TerminentAppels, AppelsDesTypes DEF RobotTravaille, FinDebut
  <2>2. CASE CommenceFin(p)
    BY <1>4, <2>2, EmpileTypee, AppelsDesTypes DEF RobotTravaille, CommenceFin, TypesAppels
  <2>3. QED  BY <1>4, <2>1, <2>2 DEF RobotTravaille
<1>5. ASSUME NEW p \in Postes, RobotTermine(p) PROVE TypesAppels'
  BY <1>5, TerminentAppels, AppelsDesTypes DEF RobotTermine, FinTache
<1>6. CASE RobotEvacue
  BY <1>6, TerminentAppels, AppelsDesTypes DEF RobotEvacue, Evacue
<1>7. QED  BY <1>1, <1>2, <1>3, <1>4, <1>5, <1>6

LEMMA RailAppels ==
    ASSUME TypesAppels, Rail
    PROVE  TypesAppels'
<1>1. ASSUME NEW t \in Troncons, ArriveCapteur(t) \/ QuitteCapteur(t)
      PROVE  Manque(t) /\ UNCHANGED varsRobots
  BY <1>1 DEF ArriveCapteur, QuitteCapteur
<1>2. PICK t \in Troncons : Manque(t) /\ UNCHANGED varsRobots
  BY <1>1 DEF Rail
<1>3. manques' \subseteq Troncons
  BY <1>2 DEF Manque, TypesAppels
<1>4. UNCHANGED <<publies, pile, bloques>>
  BY <1>2 DEF varsRobots, varsAppels
<1>5. QED  BY <1>3, <1>4 DEF TypesAppels

LEMMA TypesDesAppels == Spec => []TypesAppels
<1>1. Init => TypesAppels
  BY DEF Init, InitRobots, TypesAppels
<1>2. TypesAppels /\ [Next]_vars => TypesAppels'
  <2> SUFFICES ASSUME TypesAppels, [Next]_vars PROVE TypesAppels'
    OBVIOUS
  <2>1. ASSUME NEW k \in DOMAIN Transitions, Transition(k) PROVE TypesAppels'
    BY <2>1, TransitionAppels
  <2>2. CASE Tour
    BY <2>2 DEF Tour, varsAppels, TypesAppels
  <2>3. CASE Play \/ Pause \/ Ronde
    BY <2>3 DEF Play, Pause, Ronde, varsRobots, varsAppels, TypesAppels
  <2>4. CASE Rail
    BY <2>4, RailAppels
  <2>5. ASSUME NEW a \in Aiguillages, BougeVersCote(a) PROVE TypesAppels'
    BY <2>5 DEF BougeVersCote, varsRobots, varsAppels, TypesAppels
  <2>6. CASE \/ \E r \in Robots : RobotPrend(r) \/ RobotPose(r)
             \/ RobotEcoute \/ RobotEvacue
             \/ \E p \in Postes : RobotTravaille(p) \/ RobotTermine(p)
    BY <2>6, RobotsAppels
  <2>7. CASE UNCHANGED vars
    BY <2>7 DEF vars, varsRobots, varsAppels, TypesAppels
  <2>8. QED
    BY <2>1, <2>2, <2>3, <2>4, <2>5, <2>6, <2>7 DEF Next
<1>3. QED
  BY <1>1, <1>2, PTL DEF Spec

(* TypeOK of CelluleCommandee, for at most the six shuttles that the       *)
(* shuttle manager knows.                                                  *)
THEOREM TypesDeLaCellule ==
    ASSUME Navettes \subseteq 0..5
    PROVE  Spec => []TypeOK
<1>1. Init => TypesCellule
  BY TypesInitiaux
<1>2. InvNet /\ InvOrdres /\ TypesCellule /\ [Next]_vars => TypesCellule'
  <2> SUFFICES ASSUME InvNet, InvOrdres, TypesCellule, [Next]_vars PROVE TypesCellule'
    OBVIOUS
  <2>1. ASSUME NEW k \in DOMAIN Transitions, Transition(k) PROVE TypesCellule'
    BY <2>1, TransitionTypes, PlacesDesLignes
  <2>2. CASE Tour
    BY <2>2, TourTypes
  <2>3. CASE Rail
    BY <2>3, RailTypes
  <2>4. ASSUME NEW r \in Robots, RobotPrend(r) \/ RobotPose(r) PROVE TypesCellule'
    BY <2>4, RobotsTypes
  <2>5. CASE \/ Play \/ Pause \/ RobotEvacue \/ Ronde \/ AppelsSeuls
             \/ \E a \in Aiguillages : BougeVersCote(a)
             \/ \E p \in Postes : RobotTermine(p)
             \/ UNCHANGED vars
    BY <2>5, LesAutresTypes
  <2>6. QED
    BY <2>1, <2>2, <2>3, <2>4, <2>5 DEF Next, AppelsSeuls
<1>3. QED
  BY <1>1, <1>2, TypesImpliquent, InvariantDesOrdres, TypesDesAppels, PTL DEF Spec
=============================================================================
