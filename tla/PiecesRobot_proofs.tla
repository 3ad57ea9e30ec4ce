------------------------- MODULE PiecesRobot_proofs --------------------------
(***************************************************************************)
(* The pieces, when the command gives one order at a time.  The node knows *)
(* them only by what it reads and writes cube by cube; the proof follows   *)
(* the one callback that handles a stack, from its first reading to the    *)
(* end of its writing, and says at each step what it has read, what it     *)
(* will write and what the scene then shows.                               *)
(***************************************************************************)
EXTENDS BrasRobot_proofs

(* The callback that handles a stack: there is one at most, the innermost. *)
OpsPieces == Lectures \cup Peintures \cup {"tache", "confirmer"}
EnMain == {appels[i] : i \in {j \in 1..Len(appels) : appels[j].op \in OpsPieces}}
PieceEnTete == \A i \in 1..Len(appels) : appels[i].op \in OpsPieces => AuTravail(i)

(* Its writing is asked for, and not done yet. *)
APeindre(e) == e.op \in Peintures /\ requetes[CanalPeinture(e.objet)] # <<>>

(* What it writes. *)
Entamee(s, p) == [Complete(s) EXCEPT ![Len(s)] = CouleurEnCours(p)]
Finie(s, p, n) ==
    [k \in 1..NB_CUBE |-> IF k = n THEN CouleurTache(p) ELSE Complete(s)[k]]
Contenu(e) ==
    IF e.op \in {"peindrePrise", "peindrePose"} THEN couleur_transportee
    ELSE IF e.op = "peindreDebut" THEN Entamee(e.lues, e.pos)
    ELSE IF e.op = "peindreFin" THEN Finie(e.lues, e.pos, e.arg)
    ELSE SansCube

(* Where it works: on the post, or on the shuttle, of its position.        *)
Lieu(p) == IF p \in PositionsPoste THEN NomPoste(p) ELSE navette[p]
OpsLieu == {"lirePose", "peindrePose", "lireDebut", "peindreDebut", "lireFin", "peindreFin",
            "confirmer"}
LieuJuste(e) == e.op \in OpsLieu => e.objet = Lieu(e.pos)

(* What it has read is what the scene shows, until it has written; the     *)
(* searches have met no 0 before the last cube, and none when they go on.  *)
LectureJuste(e) ==
    e.op \in Lectures \/ APeindre(e) =>
        \A k \in 1..Len(e.lues) : e.lues[k] = cubes[e.objet][k]
RechercheJuste(e) ==
    e.op \in {"lireDebut", "lireFin"} =>
        \A l \in 1..Len(e.lues) : e.attend # "" \/ l < Len(e.lues) => e.lues[l] # 0

(* What it asked to write, then what the scene shows. *)
PeintureJuste(e) ==
    e.op \in Peintures =>
        IF APeindre(e)
        THEN /\ requetes[CanalPeinture(e.objet)][1].objet = e.objet
             /\ requetes[CanalPeinture(e.objet)][1].cubes = Contenu(e)
        ELSE cubes[e.objet] = Contenu(e)

Suivie(e) == LieuJuste(e) /\ LectureJuste(e) /\ RechercheJuste(e) /\ PeintureJuste(e)
MainSuivie == \A e \in EnMain : Suivie(e)

(* An answer about a colour is still true when it is read. *)
CouleursVraies ==
    /\ \A j \in 1..Len(entree) :
         entree[j].type = "reponse" /\ entree[j].canal = "getColor"
           => entree[j].couleur = CouleurDe(entree[j].objet, entree[j].rang)
    /\ rep["getColor"] => valeur.couleur = CouleurDe(valeur.objet, valeur.rang)

InvScene == PieceEnTete /\ MainSuivie /\ CouleursVraies
-----------------------------------------------------------------------------
LEMMA MainDe ==
    /\ \A e : e \in EnMain <=>
         \E i \in 1..Len(appels) : appels[i] = e /\ e.op \in OpsPieces
    /\ \A e : e \in EnMain' <=>
         \E i \in 1..Len(appels') : appels'[i] = e /\ e.op \in OpsPieces
BY DEF EnMain, OpsPieces, Lectures, Peintures

LEMMA OpsDesPieces ==
    /\ OpsPieces \subseteq Ops \ {"lot", "verifier", "update", "init"}
    /\ OpsPieces \cap (Neuves \ {"tache"}) = {}
    /\ Peintures \subseteq OpsPieces \ {"tache", "confirmer"} /\ Lectures \subseteq OpsPieces
    /\ Lectures \cap Peintures = {} /\ "tache" \notin Lectures
    /\ \A b : CanalPeinture(b) \in {"changeColor", "changeShuttleColor"}
    /\ {"changeColor", "changeShuttleColor"} \subseteq Calmes \ {"getColor"}
    /\ "getColor" \in Calmes
BY DEF OpsPieces, Lectures, Peintures, Ops, Neuves, Departs, CanalPeinture, Calmes, Canaux

(* What is known of the callback in hand. *)
LEMMA MainConnu ==
    ASSUME InvTypes, InvAttentes, PieceEnTete, NEW e \in EnMain
    PROVE  /\ e \in EtapeType /\ EtapeJuste(e) /\ AttenteJuste(e) /\ Travail(e)
           /\ e.op \in OpsPieces /\ e.op # "update"
           /\ e.lues \in LuesType /\ e.pos \in 0..4
           /\ \A f \in EnMain : f = e
           /\ \E i \in 1..Len(appels) : appels[i] = e /\ AuTravail(i)
<1>1. PICK i \in 1..Len(appels) : appels[i] = e /\ e.op \in OpsPieces
  BY MainDe
<1>2. e \in EtapeType /\ EtapeJuste(e) /\ AttenteJuste(e)
  BY <1>1 DEF InvTypes, TypesFiles, InvAttentes
<1>3. e.op \notin {"lot", "verifier", "update"}
  BY <1>1, OpsDesPieces
<1>4. e.lues \in LuesType /\ e.pos \in 0..4
  BY <1>2, SuitesDeLues
<1>5. ASSUME NEW f \in EnMain PROVE f = e
  <2>1. PICK j \in 1..Len(appels) : appels[j] = f /\ f.op \in OpsPieces
    BY MainDe
  <2>2. AuTravail(i) /\ AuTravail(j) /\ f.op # "lot"
    BY <1>1, <2>1, OpsDesPieces DEF PieceEnTete
  <2>3. i = j
    BY <1>1, <1>3, <2>1, <2>2 DEF AuTravail
  <2>4. QED  BY <1>1, <2>1, <2>3
<1>6. AuTravail(i)
  BY <1>1 DEF PieceEnTete
<1>7. QED  BY <1>1, <1>2, <1>3, <1>4, <1>5, <1>6 DEF Travail

(* When the head of the stack is not a spinOnce it is that callback, or    *)
(* there is none.                                                          *)
LEMMA MainTete ==
    ASSUME InvTypes, PieceEnTete, appels # <<>>, Courant.op # "lot"
    PROVE  /\ EnMain = IF Courant.op \in OpsPieces THEN {Courant} ELSE {}
           /\ \A i \in 2..Len(appels) : appels[i].op \notin OpsPieces
<1>1. Courant = appels[1] /\ 1 \in 1..Len(appels) /\ Len(appels) \in Nat
  <2>1. appels \in Seq(EtapeType)
    BY DEF InvTypes, TypesFiles
  <2>2. Len(appels) \in Nat
    BY ONLY <2>1
  <2>3. QED  BY <2>2, Tete DEF InvTypes
<1>2. ASSUME NEW i \in 2..Len(appels), appels[i].op \in OpsPieces PROVE FALSE
  <2>1. i \in 1..Len(appels) /\ i # 1
    BY <1>1
  <2>2. AuTravail(i)
    BY <1>2, <2>1 DEF PieceEnTete
  <2>3. QED  BY <1>1, <2>1, <2>2 DEF AuTravail
<1>3. ASSUME NEW e
      PROVE  e \in EnMain <=> e = Courant /\ Courant.op \in OpsPieces
  <2>1. ASSUME NEW i \in 1..Len(appels), appels[i] = e, e.op \in OpsPieces PROVE e = Courant
    <3>1. i = 1 \/ i \in 2..Len(appels)
      BY <1>1
    <3>2. QED  BY <1>1, <1>2, <2>1, <3>1
  <2>2. QED  BY <1>1, <2>1, MainDe
<1>4. QED  BY <1>2, <1>3

LEMMA MainPoursuit ==
    ASSUME InvTypes, PieceEnTete, NEW f, Poursuit(f)
    PROVE  /\ PieceEnTete'
           /\ EnMain = IF Courant.op \in OpsPieces THEN {Courant} ELSE {}
           /\ EnMain' = IF f.op \in OpsPieces THEN {f} ELSE {}
<1>1. /\ EnMain = IF Courant.op \in OpsPieces THEN {Courant} ELSE {}
      /\ \A i \in 2..Len(appels) : appels[i].op \notin OpsPieces
  BY MainTete DEF Poursuit
<1>2. /\ Len(appels') = Len(appels) /\ Len(appels) \in Nat /\ Len(appels) >= 1
      /\ appels'[1] = f
      /\ \A i \in 2..Len(appels) : appels'[i] = appels[i]
  BY PilePoursuit DEF InvTypes
<1>3. \A i \in 1..Len(appels') : i = 1 \/ appels'[i].op \notin OpsPieces
  BY <1>1, <1>2
<1>4. PieceEnTete'
  BY <1>3 DEF PieceEnTete, AuTravail, OpsPieces, Lectures, Peintures
<1>5. ASSUME NEW e
      PROVE  e \in EnMain' <=> e = f /\ f.op \in OpsPieces
  <2>1. 1 \in 1..Len(appels')
    BY <1>2
  <2>2. QED  BY <1>2, <1>3, <2>1, MainDe
<1>6. QED  BY <1>1, <1>4, <1>5

LEMMA MainTermine ==
    ASSUME InvTypes, PieceEnTete, Termine
    PROVE  /\ PieceEnTete'
           /\ EnMain = IF Courant.op \in OpsPieces THEN {Courant} ELSE {}
           /\ EnMain' = {}
<1>1. /\ EnMain = IF Courant.op \in OpsPieces THEN {Courant} ELSE {}
      /\ \A i \in 2..Len(appels) : appels[i].op \notin OpsPieces
  BY MainTete DEF Termine
<1>2. /\ Len(appels') = Len(appels) - 1 /\ Len(appels) \in Nat /\ Len(appels) >= 1
      /\ \A i \in 1..Len(appels') : i + 1 \in 1..Len(appels) /\ appels'[i] = appels[i + 1]
  BY PileTermine DEF InvTypes
<1>3. ASSUME NEW i \in 1..Len(appels') PROVE appels'[i].op \notin OpsPieces
  <2>1. i + 1 \in 2..Len(appels)
    BY <1>2
  <2>2. QED  BY <1>1, <1>2, <2>1
<1>4. PieceEnTete'
  BY <1>3 DEF PieceEnTete, OpsPieces, Lectures, Peintures
<1>5. EnMain' = {}
  BY <1>3, MainDe
<1>6. QED  BY <1>1, <1>4, <1>5

(* A spinOnce changes nothing in it. *)
LEMMA MainLots ==
    ASSUME InvTypes, PieceEnTete,
           SpinPrincipal \/ SpinOnce \/ FinLot \/ CallbackReponse \/ appels' = appels
    PROVE  PieceEnTete' /\ EnMain' = EnMain
<1>1. CASE appels' = appels \/ CallbackReponse
  <2>1. appels' = appels
    BY <1>1 DEF CallbackReponse
  <2>2. QED
    BY <2>1 DEF PieceEnTete, AuTravail, EnMain, OpsPieces, Lectures, Peintures
<1>2. CASE SpinPrincipal \/ SpinOnce
  <2>1. PrendLot
    BY <1>2 DEF SpinPrincipal, SpinOnce
  <2>2. /\ Len(appels) \in Nat /\ Len(appels') = Len(appels) + 1
        /\ appels'[1] = Lot
        /\ \A i \in 1..Len(appels) : appels'[i + 1] = appels[i]
        /\ \A i \in 1..Len(appels') :
             i = 1 \/ \E j \in 1..Len(appels) : i = j + 1 /\ appels'[i] = appels[j]
    BY <2>1, PrendLotSuite DEF InvTypes
  <2>3. appels'[1].op = "lot" /\ "lot" \notin OpsPieces
    BY <2>2, LotJuste, OpsDesPieces
  <2>4. ASSUME NEW j \in 1..Len(appels), appels[j].op \in OpsPieces PROVE j = 1
    <3>1. appels # <<>> /\ Courant.attend # ""
      <4>1. appels # <<>>
        BY <2>2, <2>4, EmptySeq
      <4>2. QED  BY <1>2, <4>1 DEF SpinPrincipal, SpinOnce
    <3>2. appels[1].op # "lot"
      BY <3>1, Tete DEF InvTypes, EtapeJuste
    <3>3. QED  BY <2>4, <3>2 DEF PieceEnTete, AuTravail
  <2>5. ASSUME NEW i \in 1..Len(appels'), appels'[i].op \in OpsPieces
        PROVE  i = 2 /\ \E j \in 1..Len(appels) : appels'[i] = appels[j]
    <3>1. PICK j \in 1..Len(appels) : i = j + 1 /\ appels'[i] = appels[j]
      BY <2>2, <2>3, <2>5
    <3>2. j = 1
      BY <2>4, <2>5, <3>1
    <3>3. QED  BY <3>1, <3>2
  <2>6. PieceEnTete'
    BY <2>3, <2>5 DEF PieceEnTete, AuTravail, OpsPieces, Lectures, Peintures
  <2>7. ASSUME NEW e PROVE e \in EnMain' <=> e \in EnMain
    <3>1. \A i \in 1..Len(appels) : i + 1 \in 1..Len(appels')
      BY <2>2
    <3>2. QED  BY <2>2, <2>5, <3>1, MainDe
  <2>8. QED  BY <2>6, <2>7
<1>3. CASE FinLot
  <2>1. /\ appels # <<>> /\ appels[1].op = "lot"
        /\ Len(appels') = Len(appels) - 1 /\ Len(appels) \in Nat
        /\ \A i \in 1..Len(appels') : i + 1 \in 1..Len(appels) /\ appels'[i] = appels[i + 1]
    BY <1>3, FinLotSuite DEF InvTypes
  <2>2. ASSUME NEW i \in 1..Len(appels'), appels'[i].op \in OpsPieces PROVE i = 1
    <3>1. i + 1 \in 1..Len(appels) /\ appels[i + 1].op \in OpsPieces
      BY <2>1, <2>2
    <3>2. AuTravail(i + 1)
      BY <3>1 DEF PieceEnTete
    <3>3. QED  BY <3>2 DEF AuTravail
  <2>3. PieceEnTete'
    BY <2>2 DEF PieceEnTete, AuTravail, OpsPieces, Lectures, Peintures
  <2>4. ASSUME NEW e PROVE e \in EnMain' <=> e \in EnMain
    <3>1. ASSUME NEW i \in 1..Len(appels), appels[i] = e, e.op \in OpsPieces
          PROVE  \E j \in 1..Len(appels') : appels'[j] = e
      <4>1. i # 1 /\ i - 1 \in 1..Len(appels')
        <5>1. i # 1
          BY <2>1, <3>1, OpsDesPieces
        <5>2. QED  BY <2>1, <5>1
      <4>2. appels'[i - 1] = appels[(i - 1) + 1]
        BY <2>1, <4>1
      <4>3. QED  BY <3>1, <4>1, <4>2
    <3>2. QED  BY <2>1, <3>1, MainDe
  <2>5. QED  BY <2>3, <2>4
<1>4. QED  BY <1>1, <1>2, <1>3

(* update asks for the time with an empty stack, then looks at both posts. *)
LEMMA MainUpdate ==
    ASSUME InvTypes, PieceEnTete, Update \/ UpdateHeure
    PROVE  PieceEnTete' /\ EnMain = {} /\ EnMain' = {}
<1>1. CASE Update
  <2>1. /\ appels = <<>> /\ Len(appels') = 1 /\ appels'[1].op = "update"
    BY <1>1, UpdateSuite DEF InvTypes
  <2>2. \A i \in 1..Len(appels') : appels'[i].op \notin OpsPieces
    BY <2>1, OpsDesPieces
  <2>3. Len(appels) = 0
    BY <2>1, EmptySeq
  <2>4. EnMain = {} /\ EnMain' = {}
    BY <2>2, <2>3, MainDe
  <2>5. PieceEnTete'
    BY <2>2 DEF PieceEnTete, OpsPieces, Lectures, Peintures
  <2>6. QED  BY <2>4, <2>5
<1>2. CASE UpdateHeure
  <2>1. /\ appels # <<>> /\ Courant.op = "update"
        /\ \A i \in 1..2 : appels'[i].op = "verifier"
        /\ \A i \in 1..Len(appels') :
             i \in 1..2 \/ \E j \in 2..Len(appels) : i = j + 1 /\ appels'[i] = appels[j]
    BY <1>2, UpdateHeureSuite DEF InvTypes
  <2>2. /\ EnMain = {}
        /\ \A i \in 2..Len(appels) : appels[i].op \notin OpsPieces
    BY <2>1, MainTete, OpsDesPieces
  <2>3. \A i \in 1..Len(appels') : appels'[i].op \notin OpsPieces
    BY <2>1, <2>2, OpsDesPieces
  <2>4. EnMain' = {}
    BY <2>3, MainDe
  <2>5. PieceEnTete'
    BY <2>3 DEF PieceEnTete, OpsPieces, Lectures, Peintures
  <2>6. QED  BY <2>2, <2>4, <2>5
<1>3. QED  BY <1>1, <1>2

(* An order begins with an empty stack; only a task begins with a piece.   *)
LEMMA MainOrdre ==
    ASSUME InvTypes, OrdrePris, CallbackOrdre
    PROVE  LET m == Head(entree) IN
           /\ PieceEnTete' /\ EnMain = {}
           /\ entree # <<>> /\ m = entree[1] /\ 1 \in 1..Len(entree) /\ m.type = "ordre"
           /\ \A e \in EnMain' : e.op = "tache" /\ m.ordre = "tache" /\ e.pos = m.posA
           /\ m.ordre = "tache" => \E e \in EnMain' : e.op = "tache"
<1> DEFINE m == Head(entree)
           s == Callback(m)
<1>1. /\ appels # <<>> /\ appels[1].op = "lot" /\ lot > 0
      /\ m.type = "ordre" /\ m \in OrdresPossibles /\ Genre(m) \in Genres
      /\ EtapesDOrdre(Genre(m), s)
  BY CallbackOrdreSuite DEF InvTypes
<1>2. entree # <<>> /\ m = entree[1] /\ 1 \in 1..Len(entree) /\ 1 \in 1..lot
  <2>1. entree # <<>> /\ m = entree[1] /\ 1 \in 1..Len(entree)
    BY <1>1, EntreeLue DEF InvTypes
  <2>2. lot \in Nat
    BY DEF InvTypes, TypesFiles
  <2>3. QED  BY <1>1, <2>1, <2>2
<1>3. Len(appels) = 1 /\ appels[1].op = "lot"
  BY <1>1, <1>2 DEF OrdrePris
<1>4. EnMain = {}
  BY <1>3, MainDe, OpsDesPieces
<1>5. /\ Len(s) \in Nat /\ Len(appels') = Len(s) + Len(appels)
      /\ \A i \in 1..Len(s) : appels'[i] = s[i] /\ s[i].op \in Neuves
      /\ \A i \in 1..Len(appels') :
           \/ i \in 1..Len(s)
           \/ \E j \in 1..Len(appels) : i = j + Len(s) /\ appels'[i] = appels[j]
  BY PileOrdre
<1>6. m.ordre = "tache" =>
        /\ s = <<Etape("tache", m.posA, 0)>>
        /\ Etape("tache", m.posA, 0).op = "tache" /\ Etape("tache", m.posA, 0).pos = m.posA
  <2>1. m.ordre = "tache" => m.posA \in PositionsPoste
    BY <1>1 DEF OrdresPossibles
  <2>2. m.posA \in 0..4
    BY <1>1 DEF OrdresPossibles
  <2>3. "tache" \in Ops /\ 0 \in 0..10
    BY DEF Ops
  <2>4. Fiche(Etape("tache", m.posA, 0), "tache", m.posA, 0, "", <<>>, "")
    BY <2>2, <2>3, Nouvelle
  <2>5. QED  BY <2>1, <2>4 DEF Callback, Fiche
<1> HIDE DEF m, s
<1>7. ASSUME NEW i \in 1..Len(appels'), appels'[i].op \in OpsPieces
      PROVE  /\ i = 1 /\ appels'[i].op = "tache" /\ m.ordre = "tache"
             /\ appels'[i].pos = m.posA
  <2>1. ~\E j \in 1..Len(appels) : appels'[i] = appels[j]
    BY <1>3, <1>7, OpsDesPieces
  <2>2. i \in 1..Len(s) /\ appels'[i] = s[i] /\ s[i].op \in Neuves
    BY <1>5, <2>1
  <2>3. s[i].op = "tache"
    BY <1>7, <2>2, OpsDesPieces
  <2>4. EtapeDe(Genre(m), s[i])
    BY <1>1, <2>2 DEF EtapesDOrdre, EtapeDOrdre
  <2>5. Genre(m) \in {"tache1", "tache4"}
    BY <1>1, <2>3, <2>4, OpsDuGenre DEF EtapeDe, Genres
  <2>6. m.ordre = "tache"
    BY <2>5 DEF Genre
  <2>7. s = <<Etape("tache", m.posA, 0)>>
    BY <1>6, <2>6
  <2>8. Len(s) = 1
    BY ONLY <2>7
  <2>9. i = 1
    BY <2>2, <2>8
  <2>10. s[i] = Etape("tache", m.posA, 0)
    BY ONLY <2>7, <2>9
  <2>11. s[i].pos = m.posA
    BY <1>6, <2>6, <2>10
  <2>12. QED  BY <2>2, <2>3, <2>6, <2>9, <2>11
<1>8. PieceEnTete'
  BY <1>7 DEF PieceEnTete, AuTravail, OpsPieces, Lectures, Peintures
<1>9. \A e \in EnMain' : e.op = "tache" /\ m.ordre = "tache" /\ e.pos = m.posA
  BY <1>7, MainDe
<1>10. ASSUME m.ordre = "tache" PROVE \E e \in EnMain' : e.op = "tache"
  <2>1. s = <<Etape("tache", m.posA, 0)>>
    BY <1>6, <1>10
  <2>2. Len(s) = 1 /\ s[1] = Etape("tache", m.posA, 0)
    BY ONLY <2>1
  <2>3. s[1].op = "tache"
    BY <1>6, <1>10, <2>2
  <2>4. 1 \in 1..Len(s) /\ 1 \in 1..Len(appels')
    BY <1>3, <1>5, <2>2
  <2>5. appels'[1].op = "tache"
    BY <1>5, <2>3, <2>4
  <2>6. QED  BY <2>4, <2>5, MainDe DEF OpsPieces
<1>11. QED
  <2>1. /\ PieceEnTete' /\ EnMain = {}
        /\ entree # <<>> /\ m = entree[1] /\ 1 \in 1..Len(entree) /\ m.type = "ordre"
        /\ \A e \in EnMain' : e.op = "tache" /\ m.ordre = "tache" /\ e.pos = m.posA
        /\ m.ordre = "tache" => \E e \in EnMain' : e.op = "tache"
    BY <1>1, <1>2, <1>4, <1>8, <1>9, <1>10
  <2>2. QED  BY <2>1 DEF m

(* Whether a writing is still to be done depends only on its channel.      *)
Ecritures == {"changeColor", "changeShuttleColor"}
PeinturesEgales == \A c \in Ecritures : requetes'[c] = requetes[c]

LEMMA APeindreEgal ==
    ASSUME PeinturesEgales
    PROVE  /\ \A e : APeindre(e) <=> e.op \in Peintures /\ requetes'[CanalPeinture(e.objet)] # <<>>
           /\ \A e : requetes'[CanalPeinture(e.objet)] = requetes[CanalPeinture(e.objet)]
BY OpsDesPieces DEF PeinturesEgales, APeindre, Ecritures

(* A step that does not begin a writing asks nothing of their channels.    *)
LEMMA SansPeinture ==
    ASSUME InvTypes, NEW f, Interroge(f), f.attend \notin Ecritures
    PROVE  PeinturesEgales
<1> SUFFICES ASSUME NEW c \in Ecritures PROVE requetes'[c] = requetes[c]
  BY DEF PeinturesEgales
<1>1. c \in Canaux /\ c # f.attend
  BY OpsDesPieces DEF Ecritures, Calmes
<1>2. QED  BY <1>1 DEF Interroge, InvTypes, TypesFiles

(* The answer to a writing is there: it is done. *)
LEMMA DejaPeint ==
    ASSUME InvTypes, InvVols, InvAttentes, appels # <<>>, Courant.op \in Peintures,
           rep[Courant.attend]
    PROVE  ~APeindre(Courant)
<1>1. Courant = appels[1] /\ 1 \in 1..Len(appels)
  BY Tete DEF InvTypes
<1>2. Courant.attend = CanalPeinture(Courant.objet)
  BY <1>1 DEF InvAttentes, AttenteJuste
<1>3. Courant.attend \in Calmes
  BY <1>2, OpsDesPieces
<1>4. QED  BY <1>2, <1>3 DEF InvVols, Vol, Unique, APeindre

(* Nobody waits: no channel has anything under way. *)
LEMMA RienNeVole ==
    ASSUME InvTypes, InvVols, InvQuestions, appels # <<>>, Courant.op # "lot",
           Courant.attend = "", NEW c \in Calmes
    PROVE  ~EnVol(c)
<1>1. Courant = appels[1] /\ 1 \in 1..Len(appels)
  BY Tete DEF InvTypes
<1>2. ~Attendu(c)
  <2>1. \A i \in 1..Len(appels) : appels[i].attend # "" => i = 1
    BY <1>1 DEF InvQuestions, UneAttente
  <2>2. c # ""
    BY DEF Calmes, Canaux
  <2>3. QED  BY <1>1, <2>1, <2>2 DEF Attendu
<1>3. QED  BY <1>2 DEF InvVols, Vol
-----------------------------------------------------------------------------
(* The scene executes a writing: the one the callback in hand waits for.   *)
LEMMA ScenePeint ==
    ASSUME InvTypes, InvQuestions, InvVols, InvAttentes, PieceEnTete, MainSuivie,
           NEW c \in Ecritures, Scene(c)
    PROVE  \E e \in EnMain :
             /\ EnMain = {e} /\ EnMain' = EnMain /\ PieceEnTete'
             /\ APeindre(e) /\ e.objet \in Objets /\ Contenu(e) \in Cubes
             /\ requetes'[CanalPeinture(e.objet)] = <<>>
             /\ cubes' = [cubes EXCEPT ![e.objet] = Contenu(e)]
             /\ ~EnVol("getColor")
             /\ UNCHANGED <<appels, lot, rep, valeur, couleur_transportee, tache, evacues,
                            navette, demandes>>
             /\ \E m \in ReponseType : m.canal = c /\ entree' = Append(entree, m)
<1>1. c \in Calmes /\ c \in Canaux /\ c # "getColor"
  BY OpsDesPieces DEF Ecritures, Calmes
<1>2. /\ requetes[c] # <<>> /\ requetes[c] \in Seq(RequeteType)
      /\ Reponse(c, requetes[c][1]) \in ReponseType
      /\ entree' = Append(entree, Reponse(c, requetes[c][1]))
      /\ UNCHANGED varsRobot
      /\ Reponse(c, requetes[c][1]).canal = c
  BY <1>1, TypesReponse
<1>3. Len(requetes[c]) = 1 /\ Attendu(c)
  BY <1>1, <1>2 DEF InvVols, Vol, Unique, EnVol
<1>4. PICK i \in 1..Len(appels) : appels[i].attend = c
  BY <1>3 DEF Attendu
<1> DEFINE e == appels[i]
<1>5. /\ AttenteJuste(e) /\ EtapeJuste(e)
      /\ e.op \in Peintures /\ c = CanalPeinture(e.objet)
  BY <1>4 DEF InvAttentes, AttenteJuste, InvTypes, TypesFiles, Ecritures
<1>6. e \in EnMain
  BY <1>5, MainDe, OpsDesPieces
<1>7. e.objet \in Objets /\ APeindre(e)
  BY <1>2, <1>5 DEF EtapeJuste, OpsObjet, Peintures, APeindre
<1>8. requetes[c][1].objet = e.objet /\ requetes[c][1].cubes = Contenu(e)
  BY <1>5, <1>6, <1>7 DEF MainSuivie, Suivie, PeintureJuste
<1>9. Head(requetes[c]) = requetes[c][1] /\ requetes[c][1] \in RequeteType
      /\ Tail(requetes[c]) = <<>>
  <2> DEFINE s == requetes[c]
  <2>1. s \in Seq(RequeteType) /\ Len(s) = 1
    BY <1>2, <1>3
  <2> HIDE DEF s
  <2> DEFINE T == RequeteType
  <2>2. s \in Seq(T) /\ s # <<>>
    BY <1>2, <2>1 DEF s
  <2> HIDE DEF T
  <2>3. Head(s) = s[1] /\ s[1] \in T
    BY ONLY <2>1, <2>2
  <2>4. Tail(s) \in Seq(T) /\ Len(Tail(s)) = 0
    BY ONLY <2>1, <2>2, PileReduite
  <2>5. Tail(s) = <<>>
    BY ONLY <2>4, EmptySeq
  <2>6. QED  BY <2>3, <2>5 DEF s, T
<1>10. cubes' = [cubes EXCEPT ![e.objet] = Contenu(e)]
  BY <1>8, <1>9 DEF Scene, Repond, Ecritures
<1>11. requetes'[c] = <<>>
  BY <1>1, <1>9 DEF Scene, Repond, InvTypes, TypesFiles
<1>12. Contenu(e) \in Cubes
  BY <1>8, <1>9 DEF RequeteType
<1>13. ~EnVol("getColor")
  <2>1. ASSUME EnVol("getColor") PROVE FALSE
    <3>1. PICK j \in 1..Len(appels) : appels[j].attend = "getColor"
      BY <2>1 DEF InvQuestions, QuestionPosee
    <3>2. appels[i].attend # "" /\ appels[j].attend # ""
      BY <1>4, <3>1 DEF Ecritures
    <3>3. i = j
      BY <3>2, AttendSeul DEF InvQuestions
    <3>4. QED  BY <1>1, <1>4, <3>1, <3>3
  <2>2. QED  BY <2>1
<1>14. /\ UNCHANGED <<appels, lot, rep, valeur, couleur_transportee, tache, evacues,
                      navette, demandes>>
  <2>1. UNCHANGED <<navette, demandes>>
    BY DEF Scene, Repond
  <2>2. QED  BY <1>2, <2>1 DEF varsRobot, varsMemoire
<1>15. EnMain' = EnMain /\ PieceEnTete'
  BY <1>14, MainLots
<1>16. EnMain = {e}
  BY <1>6, MainConnu
<1>17. QED
  BY <1>2, <1>5, <1>6, <1>7, <1>10, <1>11, <1>12, <1>13, <1>14, <1>15, <1>16

(* It answers on another channel. *)
LEMMA SceneAutre ==
    ASSUME InvTypes, PieceEnTete, NEW c \in Canaux \ Ecritures, Scene(c)
    PROVE  /\ EnMain' = EnMain /\ PieceEnTete' /\ PeinturesEgales
           /\ UNCHANGED <<appels, lot, rep, valeur, couleur_transportee, tache, evacues,
                          navette, demandes, cubes>>
           /\ LET r == requetes[c][1]
                  m == Reponse(c, r)
              IN  /\ requetes[c] # <<>> /\ m \in ReponseType
                  /\ m.canal = c /\ entree' = Append(entree, m)
                  /\ m.objet = r.objet /\ m.rang = r.rang
                  /\ c = "getColor" => m.couleur = CouleurDe(r.objet, r.rang)
<1> DEFINE r == requetes[c][1]
           m == Reponse(c, r)
<1>1. /\ requetes[c] # <<>> /\ requetes[c] \in Seq(RequeteType)
      /\ m \in ReponseType /\ m.canal = c /\ m.objet = r.objet /\ m.rang = r.rang
      /\ entree' = Append(entree, m)
      /\ requetes' = [requetes EXCEPT ![c] = Tail(@)]
      /\ UNCHANGED varsRobot
  BY TypesReponse
<1>2. UNCHANGED <<navette, demandes, cubes>>
  BY DEF Scene, Repond, Ecritures
<1>3. UNCHANGED <<appels, lot, rep, valeur, couleur_transportee, tache, evacues>>
  BY <1>1 DEF varsRobot, varsMemoire
<1>4. EnMain' = EnMain /\ PieceEnTete'
  BY <1>3, MainLots
<1>5. PeinturesEgales
  BY <1>1 DEF PeinturesEgales, InvTypes, TypesFiles, Ecritures, Canaux
<1>6. c = "getColor" => m.couleur = CouleurDe(r.objet, r.rang)
  BY DEF Reponse
<1>7. QED  BY <1>1, <1>2, <1>3, <1>4, <1>5, <1>6

-----------------------------------------------------------------------------
(* The answers about colours stay true: no writing is under way then.      *)
Montre(s, o, r) == IF r \in 1..NB_CUBE THEN s[o][r] ELSE 0

LEMMA CouleursGardees ==
    ASSUME CouleursVraies, UNCHANGED <<cubes, valeur>>,
           rep'["getColor"] => rep["getColor"],
           \A j \in 1..Len(entree') :
             \/ entree'[j].type = "ordre"
             \/ \E i \in 1..Len(entree) : entree'[j] = entree[i]
    PROVE  CouleursVraies'
<1>1. ASSUME NEW j \in 1..Len(entree'), entree'[j].type = "reponse",
             entree'[j].canal = "getColor"
      PROVE  entree'[j].couleur = Montre(cubes', entree'[j].objet, entree'[j].rang)
  <2>1. PICK i \in 1..Len(entree) : entree'[j] = entree[i]
    BY <1>1
  <2>2. entree[i].couleur = CouleurDe(entree[i].objet, entree[i].rang)
    BY <1>1, <2>1 DEF CouleursVraies
  <2>3. QED  BY <2>1, <2>2 DEF CouleurDe, Montre
<1>2. rep'["getColor"] => valeur'.couleur = Montre(cubes', valeur'.objet, valeur'.rang)
  BY DEF CouleursVraies, CouleurDe, Montre
<1>3. QED  BY <1>1, <1>2 DEF CouleursVraies, CouleurDe, Montre

LEMMA CouleursReponse ==
    ASSUME InvTypes, CouleursVraies, CallbackReponse, cubes' = cubes
    PROVE  CouleursVraies'
<1> DEFINE m == Head(entree)
<1>1. /\ lot > 0 /\ m.type = "reponse" /\ m \in ReponseType
      /\ rep' = [rep EXCEPT ![m.canal] = TRUE]
      /\ entree' = Tail(entree)
      /\ m.canal = "getColor" => valeur'.objet = m.objet /\ valeur'.rang = m.rang
  BY CallbackReponseSuite DEF InvTypes
<1>2. /\ m = entree[1] /\ 1 \in 1..Len(entree)
      /\ \A i \in 1..Len(entree') : i + 1 \in 1..Len(entree) /\ entree'[i] = entree[i + 1]
  BY <1>1, EntreeLue DEF InvTypes
<1>3. m.canal = "getColor" => valeur'.couleur = m.couleur
  BY DEF CallbackReponse, InvTypes, TypesMemoire, ValeurType
<1>4. m.canal # "getColor" =>
        /\ valeur'.couleur = valeur.couleur /\ valeur'.objet = valeur.objet
        /\ valeur'.rang = valeur.rang
  BY DEF CallbackReponse, InvTypes, TypesMemoire, ValeurType
<1> HIDE DEF m
<1>5. m.canal \in Canaux /\ rep \in [Canaux -> BOOLEAN] /\ "getColor" \in Canaux
  BY <1>1 DEF ReponseType, InvTypes, TypesMemoire, Canaux
<1>6. rep'["getColor"] => valeur'.couleur = Montre(cubes', valeur'.objet, valeur'.rang)
  <2>1. CASE m.canal = "getColor"
    <3>1. m.couleur = CouleurDe(m.objet, m.rang)
      BY <1>1, <1>2, <2>1 DEF CouleursVraies
    <3>2. QED  BY <1>1, <1>3, <2>1, <3>1 DEF CouleurDe, Montre
  <2>2. CASE m.canal # "getColor"
    <3>1. rep'["getColor"] = rep["getColor"]
      BY <1>1, <1>5, <2>2
    <3>2. QED  BY <1>4, <2>2, <3>1 DEF CouleursVraies, CouleurDe, Montre
  <2>3. QED  BY <2>1, <2>2
<1>7. ASSUME NEW j \in 1..Len(entree'), entree'[j].type = "reponse",
             entree'[j].canal = "getColor"
      PROVE  entree'[j].couleur = Montre(cubes', entree'[j].objet, entree'[j].rang)
  <2>1. PICK i \in 1..Len(entree) : entree'[j] = entree[i]
    BY <1>2
  <2>2. entree[i].couleur = CouleurDe(entree[i].objet, entree[i].rang)
    BY <1>7, <2>1 DEF CouleursVraies
  <2>3. QED  BY <2>1, <2>2 DEF CouleurDe, Montre
<1>8. QED  BY <1>6, <1>7 DEF CouleursVraies, CouleurDe, Montre

LEMMA CouleursScene ==
    ASSUME InvTypes, InvQuestions, InvVols, InvAttentes, PieceEnTete, MainSuivie,
           CouleursVraies, NEW c \in Canaux, Scene(c)
    PROVE  CouleursVraies'
<1>1. CASE c \in Ecritures
  <2>1. /\ ~EnVol("getColor") /\ rep' = rep
        /\ \E m \in ReponseType : m.canal = c /\ entree' = Append(entree, m)
    BY <1>1, ScenePeint, Zenon
  <2>2. PICK m \in ReponseType : m.canal = c /\ entree' = Append(entree, m)
    BY <2>1
  <2>3. /\ entree'[Len(entree) + 1] = m
        /\ \A i \in 1..Len(entree') : i \in 1..Len(entree) \/ i = Len(entree) + 1
        /\ \A i \in 1..Len(entree) : entree'[i] = entree[i]
    BY <2>2, EntreeAjoutee
  <2>4. ~rep'["getColor"]
    BY <2>1 DEF EnVol
  <2>5. m.canal # "getColor"
    BY <1>1, <2>2 DEF Ecritures
  <2>6. ASSUME NEW j \in 1..Len(entree'), entree'[j].type = "reponse"
        PROVE  entree'[j].canal # "getColor"
    <3>1. CASE j \in 1..Len(entree)
      BY <2>1, <2>3, <2>6, <3>1 DEF EnVol, Repondue
    <3>2. CASE j = Len(entree) + 1
      BY <2>3, <2>5, <3>2
    <3>3. QED  BY <2>3, <3>1, <3>2
  <2>7. QED  BY <2>4, <2>6 DEF CouleursVraies
<1>2. CASE c \notin Ecritures
  <2> DEFINE r == requetes[c][1]
             m == Reponse(c, r)
  <2>1. /\ UNCHANGED <<rep, valeur, cubes>>
        /\ m.canal = c /\ entree' = Append(entree, m)
        /\ m.objet = r.objet /\ m.rang = r.rang
        /\ c = "getColor" => m.couleur = CouleurDe(r.objet, r.rang)
    BY <1>2, SceneAutre
  <2> HIDE DEF m, r
  <2>2. /\ entree'[Len(entree) + 1] = m
        /\ \A i \in 1..Len(entree') : i \in 1..Len(entree) \/ i = Len(entree) + 1
        /\ \A i \in 1..Len(entree) : entree'[i] = entree[i]
    BY <2>1, EntreeAjoutee
  <2>3. ASSUME NEW j \in 1..Len(entree'), entree'[j].type = "reponse",
               entree'[j].canal = "getColor"
        PROVE  entree'[j].couleur = Montre(cubes', entree'[j].objet, entree'[j].rang)
    <3>1. CASE j \in 1..Len(entree)
      <4>1. entree[j].couleur = CouleurDe(entree[j].objet, entree[j].rang)
        BY <2>2, <2>3, <3>1 DEF CouleursVraies
      <4>2. QED  BY <2>1, <2>2, <3>1, <4>1 DEF CouleurDe, Montre
    <3>2. CASE j = Len(entree) + 1
      <4>1. entree'[j] = m
        BY <2>2, <3>2
      <4>2. m.couleur = CouleurDe(m.objet, m.rang)
        BY <2>1, <2>3, <4>1
      <4>3. QED  BY <2>1, <4>1, <4>2 DEF CouleurDe, Montre
    <3>3. QED  BY <2>2, <3>1, <3>2
  <2>4. rep'["getColor"] => valeur'.couleur = Montre(cubes', valeur'.objet, valeur'.rang)
    BY <2>1 DEF CouleursVraies, CouleurDe, Montre
  <2>5. QED  BY <2>3, <2>4 DEF CouleursVraies, CouleurDe, Montre
<1>3. QED  BY <1>1, <1>2

(* The flag of an answer only falls, but when the answer comes.            *)
LEMMA DrapeauConsomme ==
    ASSUME InvTypes, appels # <<>>, Consomme
    PROVE  rep'["getColor"] => rep["getColor"]
<1>1. rep \in [Canaux -> BOOLEAN] /\ "getColor" \in Canaux
  BY DEF InvTypes, TypesMemoire, Canaux
<1>2. Courant.attend \in Canaux \cup {""}
  BY Tete DEF InvTypes
<1>3. QED  BY <1>1, <1>2 DEF Consomme

LEMMA CouleursRobot ==
    ASSUME InvTypes, InvTravail, InvAttentes, CouleursVraies, Robot
    PROVE  CouleursVraies'
<1>1. RobotNext /\ cubes' = cubes
  BY DEF Robot, varsSimulateur
<1>2. CASE CallbackReponse
  BY <1>1, <1>2, CouleursReponse
<1>3. CASE CallbackOrdre
  <2>1. lot > 0 /\ entree' = Tail(entree) /\ UNCHANGED <<rep, valeur>>
    BY <1>3, CallbackOrdreSuite DEF InvTypes
  <2>2. \A i \in 1..Len(entree') : i + 1 \in 1..Len(entree) /\ entree'[i] = entree[i + 1]
    BY <2>1, EntreeLue DEF InvTypes
  <2>3. QED  BY <1>1, <2>1, <2>2, CouleursGardees
<1>4. ASSUME entree' = entree, valeur' = valeur, rep'["getColor"] => rep["getColor"]
      PROVE  CouleursVraies'
  <2>1. \A j \in 1..Len(entree') : \E i \in 1..Len(entree) : entree'[j] = entree[i]
    BY <1>4
  <2>2. QED  BY <1>1, <1>4, <2>1, CouleursGardees
<1>5. CASE EnvoyerRobot \/ EnvoyerJoints \/ DescendreBras \/ MonterBras
  BY <1>4, <1>5, EffetsRpos
<1>6. CASE AutreSuite
  <2>1. Poursuit(Suivante)
    BY <1>6, SuitePoursuit
  <2>2. appels # <<>> /\ Consomme
    BY <2>1 DEF Poursuit
  <2>3. AttenteJuste(Courant)
    BY <2>2, Tete DEF InvTypes, InvAttentes
  <2>4. Garde
    BY <1>6, <2>3, Suites
  <2>5. QED  BY <1>4, <2>2, <2>4, DrapeauConsomme DEF Garde
<1>7. CASE Fin
  <2>1. Termine /\ valeur' = valeur
    BY <1>7, Fins
  <2>2. QED  BY <1>4, <2>1, DrapeauConsomme DEF Termine
<1>8. CASE Update
  BY <1>4, <1>8, UpdateSuite DEF InvTypes
<1>9. CASE UpdateHeure
  <2>1. appels # <<>> /\ Consomme /\ UNCHANGED <<varsTopics, valeur>>
    BY <1>9, UpdateHeureSuite DEF InvTypes
  <2>2. QED  BY <1>4, <2>1, DrapeauConsomme DEF varsTopics
<1>10. CASE SpinPrincipal \/ SpinOnce
  BY <1>4, <1>10 DEF SpinPrincipal, SpinOnce, PrendLot, varsTopics
<1>11. CASE FinLot
  BY <1>4, <1>11 DEF FinLot, varsTopics
<1>12. QED
  BY <1>1, <1>2, <1>3, <1>5, <1>6, <1>7, <1>8, <1>9, <1>10, <1>11, SortesDePas

LEMMA CouleursPas ==
    ASSUME InvTypes, InvTravail, InvQuestions, InvVols, InvAttentes, PieceEnTete,
           MainSuivie, CouleursVraies, [Next]_vars
    PROVE  CouleursVraies'
<1>1. CASE Robot
  BY <1>1, CouleursRobot
<1>2. CASE \E c \in Canaux : Scene(c)
  BY <1>2, CouleursScene
<1>3. ASSUME UNCHANGED <<rep, valeur, cubes>>,
             entree' = entree \/ \E m : m.type = "ordre" /\ entree' = Append(entree, m)
      PROVE  CouleursVraies'
  <2>1. \A j \in 1..Len(entree') :
             \/ entree'[j].type = "ordre"
             \/ \E i \in 1..Len(entree) : entree'[j] = entree[i]
    <3>1. CASE entree' = entree
      BY <3>1
    <3>2. CASE \E m : m.type = "ordre" /\ entree' = Append(entree, m)
      <4>1. PICK m : m.type = "ordre" /\ entree' = Append(entree, m)
        BY <3>2
      <4>2. /\ entree'[Len(entree) + 1] = m
            /\ \A i \in 1..Len(entree') : i \in 1..Len(entree) \/ i = Len(entree) + 1
            /\ \A i \in 1..Len(entree) : entree'[i] = entree[i]
        BY <4>1, EntreeAjoutee
      <4>3. QED  BY <4>1, <4>2
    <3>3. QED  BY <1>3, <3>1, <3>2
  <2>2. QED  BY <1>3, <2>1, CouleursGardees
<1>4. CASE Bras
  BY <1>3, <1>4 DEF Bras, BrasBouge, varsRobot, varsTopics
<1>5. CASE \/ \E m \in UNION Programmes : DonneOrdre(m)
           \/ \E k \in Genres : Constate(k)
           \/ Retour \/ UNCHANGED vars
           \/ \E p \in PositionsNavette : Navette(p)
  BY <1>3, <1>5, HorsDuRobot
<1>6. QED  BY <1>1, <1>2, <1>4, <1>5 DEF Next

-----------------------------------------------------------------------------
(* The callback in hand at each step. *)
LEMMA SuivieGardee ==
    ASSUME PeinturesEgales, UNCHANGED <<cubes, couleur_transportee>>,
           NEW e, Suivie(e), e.op \in OpsLieu => Lieu(e.pos)' = Lieu(e.pos),
           NEW f, f.op = e.op, f.pos = e.pos, f.arg = e.arg, f.objet = e.objet,
           f.lues = e.lues, RechercheJuste(f)
    PROVE  Suivie(f)'
<1>1. APeindre(f)' <=> APeindre(e)
  BY APeindreEgal DEF APeindre
<1>2. Contenu(f)' = Contenu(e)
  BY DEF Contenu, Entamee, Finie, Complete, SansCube
<1>3. requetes'[CanalPeinture(f.objet)] = requetes[CanalPeinture(e.objet)]
  BY APeindreEgal
<1>4. PeintureJuste(f)'
  BY <1>1, <1>2, <1>3 DEF Suivie, PeintureJuste
<1>5. LectureJuste(f)'
  BY <1>1 DEF Suivie, LectureJuste
<1>6. LieuJuste(f)' /\ RechercheJuste(f)'
  BY DEF Suivie, LieuJuste, RechercheJuste
<1>7. QED  BY <1>4, <1>5, <1>6 DEF Suivie

(* The reading begins. *)
LEMMA SuivieDebut ==
    ASSUME InvTypes, InvAttentes, NEW f, f = Suivante,
           ColorerNavette \/ ColorerPoste \/ TacheHeure \/ TacheEchue \/ Evacuer,
           navette' = navette
    PROVE  Suivie(f)' /\ f.lues = <<>> /\ f.op \in Lectures /\ f.pos = Courant.pos
<1> DEFINE e == Courant
<1>1. appels # <<>>
  BY DEF ColorerNavette, ColorerPoste, TacheHeure, TacheEchue, Evacuer, Colorer, Libre, Recu,
         Actif
<1>2. EtapeJuste(e)
  BY <1>1, Tete DEF InvTypes
<1>3. /\ \/ f.op = "lirePrise"
         \/ f.op \in {"lirePose", "lireDebut", "lireFin"} /\ f.objet = Lieu(f.pos)
         \/ f.op = "lireEvac"
      /\ f.lues = <<>> /\ f.pos = e.pos
  <2>1. CASE ColorerNavette
    <3>1. /\ e.op \in {"prise", "pose"} /\ e.pos \in PositionsNavette
          /\ Debute(LectureDe(e.op), navette[e.pos])
      BY <2>1, EffetsLectures
    <3>2. e.pos \notin PositionsPoste
      BY <3>1 DEF PositionsNavette, PositionsPoste
    <3>3. QED  BY <3>1, <3>2 DEF Debute, LectureDe, Lieu
  <2>2. CASE ColorerPoste
    <3>1. /\ e.op \in {"prise", "pose"} /\ e.pos \in PositionsPoste
          /\ Debute(LectureDe(e.op), NomPoste(e.pos))
      BY <2>2, EffetsLectures
    <3>2. QED  BY <3>1 DEF Debute, LectureDe, Lieu
  <2>3. CASE TacheHeure
    <3>1. e.op = "tache" /\ Debute("lireDebut", NomPoste(e.pos))
      BY <2>3, EffetsLectures DEF Fiche1
    <3>2. e.pos \in PositionsPoste
      BY <1>2, <3>1 DEF EtapeJuste, OpsPoste
    <3>3. QED  BY <3>1, <3>2 DEF Debute, Lieu
  <2>4. CASE TacheEchue
    <3>1. e.op = "verifier" /\ Debute("lireFin", NomPoste(e.pos))
      BY <2>4, EffetsLectures DEF Fiche1
    <3>2. e.pos \in PositionsPoste
      BY <1>2, <3>1 DEF EtapeJuste, OpsPoste
    <3>3. QED  BY <3>1, <3>2 DEF Debute, Lieu
  <2>5. CASE Evacuer
    BY <2>5, EffetsLectures DEF Debute
  <2>6. QED  BY <2>1, <2>2, <2>3, <2>4, <2>5
<1>4. f.op \in Lectures /\ f.op \notin Peintures
  BY <1>3 DEF Lectures, Peintures
<1>5. LieuJuste(f)'
  BY <1>3 DEF LieuJuste, OpsLieu, Lieu
<1>6. \A k \in 1..Len(f.lues) : FALSE
  <2>1. Len(f.lues) = 0
    BY <1>3, EmptySeq
  <2>2. QED  BY <2>1
<1>7. LectureJuste(f)' /\ RechercheJuste(f)'
  BY <1>6 DEF LectureJuste, RechercheJuste
<1>8. PeintureJuste(f)'
  BY <1>4 DEF PeintureJuste
<1>9. QED  BY <1>3, <1>4, <1>5, <1>7, <1>8 DEF Suivie

(* The answer that comes is the colour of the next cube. *)
LEMMA ReponseLue ==
    ASSUME InvTypes, InvQuestions, CouleursVraies, appels # <<>>, Courant.op # "lot",
           Courant.attend = "getColor", rep["getColor"]
    PROVE  valeur.couleur = CouleurDe(Courant.objet, RangDemande(Courant))
<1>1. Courant = appels[1] /\ 1 \in 1..Len(appels)
  BY Tete DEF InvTypes
<1>2. EnVol("getColor")
  BY DEF EnVol
<1>3. PICK i \in 1..Len(appels) : appels[i].attend = "getColor" /\ PourElle(appels[i])
  BY <1>2 DEF InvQuestions, QuestionPosee
<1>4. i = 1
  BY <1>1, <1>3, AttendSeul DEF InvQuestions
<1>5. Pour(Courant, valeur)
  BY <1>1, <1>3, <1>4 DEF PourElle
<1>6. QED  BY <1>5 DEF Pour, CouleursVraies

(* The next cube is read. *)
LEMMA SuivieLecture ==
    ASSUME InvTypes, InvQuestions, CouleursVraies, NEW f, f = Suivante, CouleurRecue,
           Suivie(Courant), UNCHANGED <<cubes, navette>>
    PROVE  Suivie(f)'
<1> DEFINE e == Courant
           n == Len(e.lues)
<1>1. /\ e.op \in Lectures /\ e.attend = "getColor" /\ rep["getColor"]
      /\ f.op = e.op /\ f.pos = e.pos /\ f.objet = e.objet
      /\ f.lues = Append(e.lues, valeur.couleur)
  BY EffetsLectures DEF Vers, Fiche1
<1>2. appels # <<>> /\ e.op # "lot"
  <2>1. appels # <<>>
    BY DEF CouleurRecue, Recu, Actif
  <2>2. QED  BY <1>1, <2>1, OpsDesPieces
<1>3. e.lues \in Seq(Couleurs) /\ n < NB_CUBE /\ n \in Nat /\ NB_CUBE \in Nat
  <2>1. e.lues \in LuesType /\ EtapeJuste(e)
    BY <1>2, Tete DEF InvTypes
  <2>2. e.lues \in Seq(Couleurs) /\ n < NB_CUBE
    BY <1>1, <2>1, SuitesDeLues DEF EtapeJuste
  <2>3. n \in Nat
    BY ONLY <2>2
  <2>4. QED  BY <2>2, <2>3, Constantes
<1>4. valeur.couleur = cubes[e.objet][n + 1]
  <2>1. RangDemande(e) = n + 1
    <3>1. e.op # "confirmer"
      BY <1>1 DEF Lectures
    <3>2. QED  BY <3>1 DEF RangDemande
  <2>2. valeur.couleur = CouleurDe(e.objet, n + 1)
    BY <1>1, <1>2, <2>1, ReponseLue
  <2>3. n + 1 \in 1..NB_CUBE
    BY <1>3
  <2>4. QED  BY <2>2, <2>3 DEF CouleurDe
<1>5. /\ Len(f.lues) = n + 1 /\ f.lues[n + 1] = valeur.couleur
      /\ \A k \in 1..n : f.lues[k] = e.lues[k]
  BY <1>1, <1>3
<1>6. \A k \in 1..(n + 1) : k \in 1..n \/ k = n + 1
  BY <1>3
<1>7. \A k \in 1..Len(f.lues) : f.lues[k] = cubes[f.objet][k]
  <2>1. \A k \in 1..n : e.lues[k] = cubes[e.objet][k]
    BY <1>1 DEF Suivie, LectureJuste
  <2>2. QED  BY <1>1, <1>4, <1>5, <1>6, <2>1
<1>8. LectureJuste(f)'
  BY <1>7 DEF LectureJuste
<1>9. LieuJuste(f)'
  BY <1>1 DEF Suivie, LieuJuste, Lieu
<1>10. PeintureJuste(f)'
  BY <1>1, OpsDesPieces DEF PeintureJuste
<1>12. RechercheJuste(f)'
  <2> SUFFICES ASSUME f.op \in {"lireDebut", "lireFin"}, NEW l \in 1..Len(f.lues),
                      f.attend # "" \/ l < Len(f.lues)
               PROVE  f.lues[l] # 0
    BY DEF RechercheJuste
  <2>1. f.attend = ""
    BY EffetsLectures DEF Vers, Fiche1
  <2>2. l \in 1..n /\ f.lues[l] = e.lues[l]
    <3>1. l < n + 1 /\ l \in 1..(n + 1)
      BY <1>5, <2>1
    <3>2. l \in 1..n
      BY ONLY <1>3, <3>1
    <3>3. QED  BY <1>5, <3>2
  <2>3. QED  BY <1>1, <2>2 DEF Suivie, RechercheJuste
<1>13. QED  BY <1>8, <1>9, <1>10, <1>12 DEF Suivie

(* The colour of the next cube is asked for: none of those read is 0.      *)
LEMMA SuivieDemande ==
    ASSUME InvTypes, InvTravail, InvAttentes, NEW f, f = Suivante, NEW e, e = Courant, LireCouleur,
           Suivie(e), UNCHANGED <<cubes, couleur_transportee, navette>>
    PROVE  Suivie(f)'
<1>1. /\ Pareil /\ ~Lu(e) /\ e.op \in Lectures
      /\ Vers(e.op, "", e.op, "getColor")
  BY EffetsLectures
<1>2. /\ f.op = e.op /\ f.pos = e.pos /\ f.arg = e.arg /\ f.objet = e.objet
      /\ f.lues = e.lues /\ e.attend = "" /\ f.attend = "getColor"
  BY <1>1 DEF Pareil, Vers, Fiche1
<1>3. Interroge(f)
  BY SuitePoursuit DEF AutreSuite, Poursuit
<1>4. PeinturesEgales
  BY <1>2, <1>3, SansPeinture DEF Ecritures
<1>5. RechercheJuste(f)
  <2> SUFFICES ASSUME f.op \in {"lireDebut", "lireFin"}, NEW l \in 1..Len(f.lues)
               PROVE  f.lues[l] # 0
    BY DEF RechercheJuste
  <2>1. e.lues \in LuesType
    <3>1. appels # <<>>
      BY DEF LireCouleur, LectureLibre
    <3>2. QED  BY <3>1, Tete DEF InvTypes
  <2>2. Len(e.lues) \in Nat /\ e.lues \in Seq(Couleurs)
    <3>1. e.lues \in Seq(Couleurs)
      BY <2>1, SuitesDeLues
    <3>2. QED  BY ONLY <3>1
  <2>3. CASE l < Len(e.lues)
    BY <1>2, <2>3 DEF Suivie, RechercheJuste
  <2>4. CASE l = Len(e.lues)
    <3>1. e.lues # <<>>
      <4>1. ASSUME e.lues = <<>> PROVE Len(e.lues) = 0
        BY <4>1, EmptySeq
      <4>2. QED  BY <2>2, <2>4, <4>1
    <3>2. QED  BY <1>1, <1>2, <2>4, <3>1 DEF Lu
  <2>5. l \in 1..Len(e.lues)
    BY <1>2
  <2>6. QED  BY <2>2, <2>3, <2>4, <2>5
<1>6. e.op \in OpsLieu => Lieu(e.pos)' = Lieu(e.pos)
  BY DEF Lieu
<1>7. QED  BY <1>2, <1>4, <1>5, <1>6, SuivieGardee

(* The steps of a task that neither read nor write a stack. *)
LEMMA SuivieTache ==
    ASSUME InvTypes, NEW f, f = Suivante,
           FaireTache \/ FinTaskPeint \/ Confirmer \/ PasEncoreCouleur,
           Suivie(Courant), navette' = navette
    PROVE  Suivie(f)'
<1>1. \/ f.op = "tache"
      \/ /\ f.op = "confirmer" /\ f.pos = Courant.pos /\ f.objet = Courant.objet
         /\ Courant.op \in {"peindreFin", "confirmer"}
  BY EffetsTaches DEF Vers, Fiche1, Pareil
<1>2. f.op \notin Lectures \cup Peintures \cup {"lireDebut", "lireFin"}
  BY <1>1 DEF Lectures, Peintures
<1>3. LieuJuste(f)'
  BY <1>1 DEF Suivie, LieuJuste, OpsLieu, Lieu
<1>4. QED
  BY <1>2, <1>3 DEF Suivie, LectureJuste, RechercheJuste, PeintureJuste, APeindre

(* What was read is written back, changed. *)
LEMMA SuiviePeinture ==
    ASSUME InvTypes, InvVols, InvQuestions, NEW f, f = Suivante, appels # <<>>,
           Suivie(Courant), UNCHANGED <<cubes, navette>>,
           NEW o \in Lectures, NEW q \in Peintures, o # "lirePrise" \/ q = "peindrePrise",
           o # "lireEvac" \/ q = "peindreEvac", NEW contenu, Peinture(o, q, contenu)
    PROVE  /\ APeindre(f)'
           /\ LieuJuste(f)' /\ LectureJuste(f)' /\ RechercheJuste(f)'
           /\ requetes'[CanalPeinture(f.objet)][1].objet = f.objet
           /\ requetes'[CanalPeinture(f.objet)][1].cubes = contenu
<1> DEFINE e == Courant
           c == CanalPeinture(f.objet)
<1>1. /\ e.op = o /\ e.attend = "" /\ f.op = q /\ f.pos = e.pos /\ f.objet = e.objet
      /\ f.lues = e.lues /\ f.attend = c
  BY DEF Peinture, Fiche1
<1>2. PICK r \in RequeteType :
        /\ r.objet = e.objet /\ r.cubes = contenu
        /\ requetes' = [requetes EXCEPT ![Suivante.attend] = Append(@, r)]
  BY DEF Peinture
<1>3. c \in Calmes /\ c \in Canaux
  BY OpsDesPieces DEF Calmes
<1>4. e.op # "lot"
  BY <1>1, OpsDesPieces
<1>5. requetes[c] = <<>>
  <2>1. ~EnVol(c)
    BY <1>1, <1>3, <1>4, RienNeVole
  <2>2. QED  BY <2>1 DEF EnVol
<1>6. requetes'[c] # <<>> /\ requetes'[c][1] = r
  <2>1. requetes' = [requetes EXCEPT ![c] = Append(@, r)]
    BY <1>1, <1>2
  <2> HIDE DEF c
  <2>2. QED  BY <1>3, <1>5, <2>1, UneDemande
<1>7. APeindre(f)'
  BY <1>1, <1>6 DEF APeindre
<1>8. LectureJuste(f)' /\ RechercheJuste(f)'
  <2>1. \A k \in 1..Len(f.lues) : f.lues[k] = cubes'[f.objet][k]
    BY <1>1 DEF Suivie, LectureJuste
  <2>2. f.op \notin {"lireDebut", "lireFin"}
    BY <1>1 DEF Peintures
  <2>3. QED  BY <2>1, <2>2 DEF LectureJuste, RechercheJuste
<1>9. LieuJuste(f)'
  BY <1>1 DEF Suivie, LieuJuste, OpsLieu, Lieu, Lectures, Peintures
<1>10. QED  BY <1>1, <1>2, <1>6, <1>7, <1>8, <1>9

LEMMA SuivieEcrite ==
    ASSUME InvTypes, InvVols, InvQuestions, NEW f, f = Suivante, appels # <<>>,
           Suivie(Courant), UNCHANGED <<cubes, navette>>,
           ColorerPeint \/ TacheColore \/ FinTask \/ EvacuerEfface
    PROVE  Suivie(f)' /\ APeindre(f)'
<1> DEFINE e == Courant
           EcritJuste(x) ==
             /\ APeindre(f)' /\ LieuJuste(f)' /\ LectureJuste(f)' /\ RechercheJuste(f)'
             /\ requetes'[CanalPeinture(f.objet)][1].objet = f.objet
             /\ requetes'[CanalPeinture(f.objet)][1].cubes = x
<1>1. ASSUME NEW x, EcritJuste(x), Contenu(f)' = x
      PROVE  Suivie(f)' /\ APeindre(f)'
  BY <1>1 DEF Suivie, PeintureJuste
<1>2. ASSUME NEW o, NEW q, NEW x, Peinture(o, q, x)
      PROVE  /\ f.op = q /\ f.pos = e.pos /\ f.lues = e.lues
             /\ couleur_transportee' = couleur_transportee
  BY <1>2 DEF Peinture, Garde
<1>3. CASE ColorerPeint
  <2> DEFINE x == couleur_transportee
  <2>1. \/ Peinture("lirePrise", "peindrePrise", x)
        \/ Peinture("lirePose", "peindrePose", x)
    BY <1>3, EffetsPeintures
  <2>2. f.op \in {"peindrePrise", "peindrePose"} /\ x' = x
    BY <1>2, <2>1
  <2>3. Contenu(f)' = x
    BY <2>2 DEF Contenu
  <2>4. EcritJuste(x)
    BY <2>1, SuiviePeinture DEF Lectures, Peintures
  <2>5. QED  BY <1>1, <2>3, <2>4
<1>4. CASE TacheColore
  <2> DEFINE x == [Complete(e.lues) EXCEPT ![Len(e.lues)] = CouleurEnCours(e.pos)]
  <2>1. Peinture("lireDebut", "peindreDebut", x)
    BY <1>4, EffetsPeintures
  <2>2. f.op = "peindreDebut" /\ f.lues = e.lues /\ f.pos = e.pos
    BY <1>2, <2>1
  <2>3. Contenu(f)' = x
    BY <2>2 DEF Contenu, Entamee, Complete
  <2>4. EcritJuste(x)
    BY <2>1, SuiviePeinture DEF Lectures, Peintures
  <2>5. QED  BY <1>1, <2>3, <2>4
<1>5. CASE FinTask
  <2> DEFINE x == [i \in 1..NB_CUBE |-> IF i = DernierCube(e.lues) THEN CouleurTache(e.pos)
                                         ELSE Complete(e.lues)[i]]
  <2>1. Peinture("lireFin", "peindreFin", x) /\ f.arg = DernierCube(e.lues)
    BY <1>5, EffetsPeintures
  <2>2. f.op = "peindreFin" /\ f.lues = e.lues /\ f.pos = e.pos
    BY <1>2, <2>1
  <2>3. Contenu(f)' = x
    BY <2>1, <2>2 DEF Contenu, Finie, Complete
  <2>4. EcritJuste(x)
    BY <2>1, SuiviePeinture DEF Lectures, Peintures
  <2>5. QED  BY <1>1, <2>3, <2>4
<1>6. CASE EvacuerEfface
  <2>1. Peinture("lireEvac", "peindreEvac", SansCube)
    BY <1>6, EffetsPeintures
  <2>2. f.op = "peindreEvac"
    BY <1>2, <2>1
  <2>3. Contenu(f)' = SansCube
    BY <2>2 DEF Contenu, SansCube
  <2>4. EcritJuste(SansCube)
    BY <2>1, SuiviePeinture DEF Lectures, Peintures
  <2>5. QED  BY <1>1, <2>3, <2>4
<1>7. QED  BY <1>3, <1>4, <1>5, <1>6

LEMMA SuivieSuite ==
    ASSUME InvTypes, InvTravail, InvQuestions, InvVols, InvAttentes, CouleursVraies,
           NEW f, f = Suivante, NEW e, e = Courant, AutreSuite, f.op \in OpsPieces,
           e.op \in OpsPieces => Suivie(e), UNCHANGED <<cubes, navette>>
    PROVE  Suivie(f)'
<1>1. Poursuit(f)
  BY SuitePoursuit
<1>2. appels # <<>> /\ e.op # "lot"
  BY <1>1 DEF Poursuit
<1>3. AttenteJuste(e)
  BY <1>2, Tete DEF InvTypes, InvAttentes
<1>4. couleur_transportee' = couleur_transportee
  BY <1>3, Suites DEF Garde
<1>5. CASE ConsigneRecue \/ PositionNonAtteinte \/ PinceCommande \/ PinceAttend \/ InitDemande
  <2>1. f.op \in {"sonder", "pince", "serrage", "init"}
    BY <1>5, EffetsMouvement DEF Vers, Fiche1
  <2>2. QED  BY <2>1 DEF OpsPieces, Lectures, Peintures
<1>6. CASE ColorerNavette \/ ColorerPoste \/ TacheHeure \/ TacheEchue \/ Evacuer
  BY <1>6, SuivieDebut
<1>7. CASE LireCouleur
  <2>1. e.op \in OpsPieces
    BY <1>7, EffetsLectures, OpsDesPieces
  <2>2. QED  BY <1>4, <1>7, <2>1, SuivieDemande
<1>8. CASE CouleurRecue
  <2>1. e.op \in OpsPieces
    BY <1>8, EffetsLectures, OpsDesPieces
  <2>2. QED  BY <1>8, <2>1, SuivieLecture
<1>9. CASE ColorerPeint \/ TacheColore \/ FinTask \/ EvacuerEfface
  <2>1. e.op \in OpsPieces
    BY <1>9, EffetsPeintures DEF Peinture, Fiche1, OpsPieces, Lectures
  <2>2. QED  BY <1>2, <1>9, <2>1, SuivieEcrite
<1>10. CASE FaireTache \/ FinTaskPeint \/ Confirmer \/ PasEncoreCouleur
  <2>1. e.op \in OpsPieces
    BY <1>10, EffetsTaches DEF Vers, Fiche1, OpsPieces, Peintures
  <2>2. QED  BY <1>10, <2>1, SuivieTache
<1>11. QED  BY <1>5, <1>6, <1>7, <1>8, <1>9, <1>10 DEF AutreSuite

LEMMA MainRobot ==
    ASSUME InvTypes, InvTravail, InvQuestions, InvVols, InvAttentes, OrdrePris, InvScene, Robot
    PROVE  PieceEnTete' /\ MainSuivie'
<1> USE DEF InvScene
<1>1. RobotNext /\ UNCHANGED <<cubes, navette>>
  BY DEF Robot, varsSimulateur
<1>2. CASE EnvoyerRobot \/ EnvoyerJoints \/ DescendreBras \/ MonterBras
  <2> DEFINE f == Suivante
  <2>1. Poursuit(f) /\ f.op = "consigne"
    BY <1>2, SuitePoursuit, EffetsRpos
  <2> HIDE DEF f
  <2>2. f.op \notin OpsPieces
    BY <2>1 DEF OpsPieces, Lectures, Peintures
  <2>3. PieceEnTete' /\ EnMain' = {}
    BY <2>1, <2>2, MainPoursuit
  <2>4. QED  BY <2>3 DEF MainSuivie
<1>3. CASE AutreSuite
  <2>1. PICK f : f = Suivante
    OBVIOUS
  <2>2. PICK e : e = Courant
    OBVIOUS
  <2>3. Poursuit(f)
    BY <1>3, <2>1, SuitePoursuit
  <2>4. /\ PieceEnTete'
        /\ EnMain = IF e.op \in OpsPieces THEN {e} ELSE {}
        /\ EnMain' = IF f.op \in OpsPieces THEN {f} ELSE {}
    BY <2>2, <2>3, MainPoursuit
  <2>5. e.op \in OpsPieces => Suivie(e)
    BY <2>4 DEF MainSuivie
  <2>6. f.op \in OpsPieces => Suivie(f)'
    BY <1>1, <1>3, <2>1, <2>2, <2>5, SuivieSuite
  <2>7. QED  BY <2>4, <2>6 DEF MainSuivie
<1>4. CASE Fin
  <2>1. Termine
    BY <1>4, Fins
  <2>2. PieceEnTete' /\ EnMain' = {}
    BY <2>1, MainTermine
  <2>3. QED  BY <2>2 DEF MainSuivie
<1>5. CASE Update \/ UpdateHeure
  BY <1>5, MainUpdate DEF MainSuivie
<1>6. CASE SpinPrincipal \/ SpinOnce \/ FinLot \/ CallbackReponse
  <2>1. PieceEnTete' /\ EnMain' = EnMain
    BY <1>6, MainLots
  <2>2. UNCHANGED <<requetes, couleur_transportee>>
    BY <1>6 DEF SpinPrincipal, SpinOnce, PrendLot, FinLot, CallbackReponse, varsTopics,
                varsMemoire
  <2>3. PeinturesEgales
    BY <2>2 DEF PeinturesEgales
  <2>4. ASSUME NEW e \in EnMain PROVE Suivie(e)'
    <3>1. Suivie(e) /\ RechercheJuste(e)
      BY DEF MainSuivie, Suivie
    <3>2. Lieu(e.pos)' = Lieu(e.pos)
      BY <1>1 DEF Lieu
    <3>3. QED  BY <1>1, <2>2, <2>3, <3>1, <3>2, SuivieGardee
  <2>5. QED  BY <2>1, <2>4 DEF MainSuivie
<1>7. CASE CallbackOrdre
  <2>1. PieceEnTete' /\ \A e \in EnMain' : e.op = "tache"
    BY <1>7, MainOrdre
  <2>2. ASSUME NEW e, e.op = "tache" PROVE Suivie(e)'
    BY <2>2 DEF Suivie, LieuJuste, LectureJuste, RechercheJuste, PeintureJuste, APeindre,
                OpsLieu, Lectures, Peintures
  <2>3. QED  BY <2>1, <2>2 DEF MainSuivie
<1>8. QED  BY <1>1, <1>2, <1>3, <1>4, <1>5, <1>6, <1>7, SortesDePas

LEMMA MainScene ==
    ASSUME InvTypes, InvQuestions, InvVols, InvAttentes, InvScene, NEW c \in Canaux, Scene(c)
    PROVE  PieceEnTete' /\ MainSuivie'
<1> USE DEF InvScene
<1>1. CASE c \in Ecritures
  <2>1. PICK e \in EnMain :
          /\ EnMain = {e} /\ EnMain' = EnMain /\ PieceEnTete'
          /\ APeindre(e) /\ e.objet \in Objets /\ Contenu(e) \in Cubes
          /\ requetes'[CanalPeinture(e.objet)] = <<>>
          /\ cubes' = [cubes EXCEPT ![e.objet] = Contenu(e)]
          /\ UNCHANGED <<couleur_transportee, navette>>
    BY <1>1, ScenePeint
  <2>2. Contenu(e)' = Contenu(e)
    BY <2>1 DEF Contenu, Entamee, Finie, Complete, SansCube
  <2>3. ~APeindre(e)'
    BY <2>1 DEF APeindre
  <2>4. cubes'[e.objet] = Contenu(e)
    BY <2>1 DEF InvTypes, TypesScene
  <2>5. PeintureJuste(e)'
    BY <2>2, <2>3, <2>4 DEF PeintureJuste
  <2>6. LectureJuste(e)'
    BY <2>1, <2>3, OpsDesPieces DEF LectureJuste, APeindre
  <2>7. Suivie(e)
    BY <2>1 DEF MainSuivie
  <2>8. LieuJuste(e)' /\ RechercheJuste(e)'
    BY <2>1, <2>7 DEF Suivie, LieuJuste, RechercheJuste, Lieu
  <2>9. Suivie(e)'
    BY <2>5, <2>6, <2>8 DEF Suivie
  <2>10. QED  BY <2>1, <2>9 DEF MainSuivie
<1>2. CASE c \notin Ecritures
  <2>1. /\ EnMain' = EnMain /\ PieceEnTete' /\ PeinturesEgales
        /\ UNCHANGED <<couleur_transportee, navette, cubes>>
    BY <1>2, SceneAutre
  <2>2. ASSUME NEW e \in EnMain PROVE Suivie(e)'
    <3>1. Suivie(e) /\ RechercheJuste(e)
      BY DEF MainSuivie, Suivie
    <3>2. Lieu(e.pos)' = Lieu(e.pos)
      BY <2>1 DEF Lieu
    <3>3. QED  BY <2>1, <3>1, <3>2, SuivieGardee
  <2>3. QED  BY <2>1, <2>2 DEF MainSuivie
<1>3. QED  BY <1>1, <1>2

(* The shuttles do not move while a piece is.                              *)
LEMMA LieuImmobile ==
    ASSUME InvTypes, InvTravail, InvAttentes, PieceEnTete, NEW e \in EnMain, e.op \in OpsLieu,
           \/ navette' = navette
           \/ \E p \in PositionsNavette : Navette(p)
    PROVE  Lieu(e.pos)' = Lieu(e.pos)
<1>1. e \in EtapeType /\ EtapeJuste(e) /\ Travail(e) /\ e.op # "update"
      /\ \E i \in 1..Len(appels) : appels[i] = e
  BY MainConnu
<1>2. CASE e.pos \in PositionsPoste
  BY <1>2 DEF Lieu
<1>3. CASE e.pos \notin PositionsPoste
  <2>1. e.op \in {"lirePose", "peindrePose"}
    BY <1>1, <1>3 DEF EtapeJuste, OpsPoste, OpsLieu
  <2>2. PICK g \in Genres : demandes = {g} /\ EtapeDe(g, e)
    BY <1>1, <2>1 DEF InvTravail, InvEtapes, EtapesAttendues
  <2>3. g = "deplacer"
    BY <2>1, <2>2, OpsDuGenre DEF EtapeDe, Genres
  <2>4. navette' = navette
    BY <2>2, <2>3 DEF Navette
  <2>5. QED  BY <2>4 DEF Lieu
<1>4. QED  BY <1>2, <1>3

LEMMA ScenePas ==
    ASSUME InvTypes, InvTravail, InvQuestions, InvVols, InvAttentes, OrdrePris, InvScene,
           [Next]_vars
    PROVE  InvScene'
<1>1. CouleursVraies'
  BY CouleursPas DEF InvScene
<1>2. CASE Robot
  BY <1>1, <1>2, MainRobot DEF InvScene
<1>3. CASE \E c \in Canaux : Scene(c)
  BY <1>1, <1>3, MainScene DEF InvScene
<1>4. ASSUME UNCHANGED <<appels, requetes, cubes, couleur_transportee>>,
             \/ navette' = navette
             \/ \E p \in PositionsNavette : Navette(p)
      PROVE  InvScene'
  <2>1. PieceEnTete' /\ EnMain' = EnMain
    BY <1>4, MainLots DEF InvScene
  <2>2. PeinturesEgales
    BY <1>4 DEF PeinturesEgales
  <2>3. ASSUME NEW e \in EnMain PROVE Suivie(e)'
    <3>1. Suivie(e) /\ RechercheJuste(e)
      BY DEF InvScene, MainSuivie, Suivie
    <3>2. e.op \in OpsLieu => Lieu(e.pos)' = Lieu(e.pos)
      BY <1>4, LieuImmobile DEF InvScene
    <3>3. QED  BY <1>4, <2>2, <3>1, <3>2, SuivieGardee
  <2>4. QED  BY <1>1, <2>1, <2>3 DEF InvScene, MainSuivie
<1>5. CASE Bras
  BY <1>4, <1>5 DEF Bras, BrasBouge, varsRobot, varsMemoire, varsTopics
<1>6. CASE \/ \E m \in UNION Programmes : DonneOrdre(m)
           \/ \E k \in Genres : Constate(k)
           \/ Retour \/ UNCHANGED vars
           \/ \E p \in PositionsNavette : Navette(p)
  <2>1. UNCHANGED <<appels, requetes, cubes, couleur_transportee>>
    BY <1>6, HorsDuRobot
  <2>2. \/ navette' = navette
        \/ \E p \in PositionsNavette : Navette(p)
    BY <1>6 DEF DonneOrdre, Constate, Retour, vars, varsMonde
  <2>3. QED  BY <1>4, <2>1, <2>2
<1>7. QED  BY <1>2, <1>3, <1>5, <1>6 DEF Next

LEMMA SceneInit ==
    ASSUME Init, InvTypes
    PROVE  InvScene
<1>1. /\ appels = <<Etape("init", 0, 0)>> /\ entree = <<>>
      /\ \A c \in Canaux \ {"getTimeUpdate"} : ~rep[c]
  BY DEF Init, InitRobot, InitTopics
<1>2. Len(appels) = 1 /\ appels[1] = Etape("init", 0, 0)
  BY ONLY <1>1
<1>3. appels[1].op = "init"
  <2>1. "init" \in Ops /\ 0 \in 0..4 /\ 0 \in 0..10
    BY DEF Ops
  <2>2. QED  BY <1>2, <2>1, EtapeLue
<1>4. \A i \in 1..Len(appels) : appels[i].op \notin OpsPieces
  BY <1>2, <1>3, OpsDesPieces
<1>5. EnMain = {}
  BY <1>4, MainDe
<1>6. CouleursVraies
  <2>1. Len(entree) = 0
    BY <1>1, EmptySeq
  <2>2. ~rep["getColor"]
    BY <1>1 DEF Canaux
  <2>3. QED  BY <2>1, <2>2 DEF CouleursVraies
<1>7. QED  BY <1>4, <1>5, <1>6 DEF InvScene, PieceEnTete, MainSuivie

-----------------------------------------------------------------------------
(* The half-transparent cubes.  A stack is sane when it has none; it is    *)
(* half done when its last cube, and no other, is that of the task.        *)
EnCoursDe == {CouleurEnCours(p) : p \in PositionsPoste}
Saine(s) == \A k \in 1..NB_CUBE : s[k] \notin EnCoursDe
Demi(s, p) ==
    \E k \in 2..NB_CUBE :
        /\ s[k] = CouleurEnCours(p)
        /\ \A l \in 1..NB_CUBE : l < k => s[l] \notin EnCoursDe \cup {0}
        /\ \A l \in 1..NB_CUBE : l > k => s[l] = 0
Faite(s, p) == \E k \in 1..NB_CUBE : s[k] = CouleurTache(p)

(* The post shows a task under way: from the writing that begins it to the *)
(* writing that ends it.                                                   *)
Demarre(e) ==
    \/ e.op = "lireFin"
    \/ e.op = "peindreFin" /\ APeindre(e)
    \/ e.op = "peindreDebut" /\ ~APeindre(e)
Entame(p) == tache[p] \/ \E e \in EnMain : e.pos = p /\ Demarre(e)

(* What a writing will make of the stack. *)
Preparee(e) ==
    /\ e.op = "peindrePrise" => Saine(Complete(e.lues))
    /\ e.op = "peindreDebut" => Demi(Contenu(e), e.pos) /\ Contenu(e)[1] = e.lues[1]
    /\ e.op = "peindreFin" =>
         Saine(Contenu(e)) /\ Faite(Contenu(e), e.pos) /\ Contenu(e)[1] = e.lues[1]
    /\ e.op = "confirmer" => Faite(cubes[e.objet], e.pos)

InvPiles ==
    /\ Saine(couleur_transportee)
    /\ \A o \in Objets :
         Saine(cubes[o]) \/ \E p \in PositionsPoste : o = NomPoste(p) /\ Entame(p)
    /\ \A p \in PositionsPoste : Entame(p) => Demi(cubes[NomPoste(p)], p)
    /\ \A e \in EnMain : Preparee(e)

LEMMA CouleursDistinctes ==
    /\ 0 \notin EnCoursDe
    /\ \A p \in PositionsPoste : CouleurTache(p) \notin EnCoursDe /\ CouleurTache(p) # 0
    /\ \A p \in PositionsPoste : CouleurEnCours(p) \in EnCoursDe /\ CouleurEnCours(p) # 0
    /\ \A x \in Produits : x # 0 /\ x \notin EnCoursDe
    /\ \A x \in Produits : \A p \in PositionsPoste : x # CouleurTache(p)
    /\ Saine(SansCube)
<1>1. \A p \in PositionsPoste : numero_poste[p] \in 1..8
  BY CubesAssumption DEF PositionsPoste
<1>2. \A p \in PositionsPoste : \E n \in 1..8 :
        CouleurTache(p) = 10 * n + 3 /\ CouleurEnCours(p) = 10 * n + 2
  BY <1>1 DEF CouleurTache, CouleurEnCours
<1>3. \A x \in EnCoursDe : \E n \in 1..8 : x = 10 * n + 2
  BY <1>2 DEF EnCoursDe
<1>4. \A x \in Produits : \E n \in 1..6 : x = 10 * n + 4
  BY DEF Produits
<1>5. 0 \notin EnCoursDe
  BY <1>3
<1>6. \A p \in PositionsPoste : CouleurTache(p) \notin EnCoursDe /\ CouleurTache(p) # 0
  BY <1>2, <1>3
<1>7. \A p \in PositionsPoste : CouleurEnCours(p) \in EnCoursDe /\ CouleurEnCours(p) # 0
  BY <1>2 DEF EnCoursDe
<1>8. \A x \in Produits : x # 0 /\ x \notin EnCoursDe
  BY <1>3, <1>4
<1>9. \A x \in Produits : \A p \in PositionsPoste : x # CouleurTache(p)
  BY <1>2, <1>4
<1>10. Saine(SansCube)
  BY <1>5 DEF Saine, SansCube
<1>11. QED  BY <1>5, <1>6, <1>7, <1>8, <1>9, <1>10

(* A reading that is complete, against the stack that was read.            *)
LEMMA LueSaine ==
    ASSUME NEW s, NEW t, Saine(t), \A k \in 1..Len(s) : s[k] = t[k], Len(s) \in Nat
    PROVE  Saine(Complete(s))
<1> SUFFICES ASSUME NEW k \in 1..NB_CUBE PROVE Complete(s)[k] \notin EnCoursDe
  BY DEF Saine
<1>1. CASE k <= Len(s)
  <2>1. Complete(s)[k] = t[k]
    BY <1>1 DEF Complete
  <2>2. QED  BY <2>1 DEF Saine
<1>2. CASE ~(k <= Len(s))
  <2>1. Complete(s)[k] = 0
    BY <1>2 DEF Complete
  <2>2. QED  BY <2>1, CouleursDistinctes
<1>3. QED  BY <1>1, <1>2

(* The first free cube of a sane stack takes the colour of the task.       *)
LEMMA LueDemi ==
    ASSUME NEW s, NEW t, Saine(t), \A k \in 1..Len(s) : s[k] = t[k], NEW p \in PositionsPoste,
           Len(s) \in 2..NB_CUBE, s[Len(s)] = 0, \A l \in 1..Len(s) : l < Len(s) => s[l] # 0
    PROVE  Demi(Entamee(s, p), p) /\ Entamee(s, p)[1] = s[1]
<1> DEFINE n == Len(s)
           r == Entamee(s, p)
<1>0. NB_CUBE \in Nat
  BY Constantes
<1>1. \A k \in 1..NB_CUBE : r[k] = IF k = n THEN CouleurEnCours(p)
                                   ELSE IF k <= n THEN s[k] ELSE 0
  BY DEF Entamee, Complete
<1>2. n \in 2..NB_CUBE /\ n \in 1..NB_CUBE /\ r[n] = CouleurEnCours(p)
  BY <1>0, <1>1
<1>3. ASSUME NEW l \in 1..NB_CUBE, l < n PROVE r[l] \notin EnCoursDe \cup {0}
  <2>1. l \in 1..n /\ l # n /\ l <= n
    BY <1>0, <1>3
  <2>2. r[l] = s[l] /\ s[l] = t[l] /\ s[l] # 0
    BY <1>1, <1>3, <2>1
  <2>3. QED  BY <2>2 DEF Saine
<1>4. ASSUME NEW l \in 1..NB_CUBE, l > n PROVE r[l] = 0
  BY <1>0, <1>1, <1>4
<1>5. r[1] = s[1]
  <2>1. 1 \in 1..NB_CUBE /\ 1 # n /\ 1 <= n
    BY <1>0
  <2>2. QED  BY <1>1, <2>1
<1> HIDE DEF n, r
<1>6. Demi(r, p)
  BY <1>2, <1>3, <1>4 DEF Demi
<1>7. QED  BY <1>5, <1>6 DEF r

(* The last cube of a stack half done takes the final colour.              *)
LEMMA LueFinie ==
    ASSUME NEW s, NEW t, NEW p \in PositionsPoste, Demi(t, p),
           \A k \in 1..Len(s) : s[k] = t[k], Len(s) \in 1..NB_CUBE,
           \A l \in 1..Len(s) : l < Len(s) => s[l] # 0,
           Len(s) = NB_CUBE \/ s[Len(s)] = 0
    PROVE  LET r == Finie(s, p, DernierCube(s))
           IN  Saine(r) /\ Faite(r, p) /\ r[1] = s[1]
<1> DEFINE n == Len(s)
           d == DernierCube(s)
           r == Finie(s, p, d)
<1>0. NB_CUBE \in Nat
  BY Constantes
<1>1. PICK k \in 2..NB_CUBE :
        /\ t[k] = CouleurEnCours(p)
        /\ \A l \in 1..NB_CUBE : l < k => t[l] \notin EnCoursDe \cup {0}
        /\ \A l \in 1..NB_CUBE : l > k => t[l] = 0
  BY DEF Demi
<1>2. t[k] # 0
  BY <1>1, CouleursDistinctes
<1>3. n >= k
  <2>1. ASSUME n < k PROVE FALSE
    <3>1. n \in 1..NB_CUBE /\ n # NB_CUBE
      BY <1>0, <2>1
    <3>2. t[n] # 0
      BY <1>1, <2>1, <3>1
    <3>3. s[n] = t[n] /\ s[n] = 0
      BY <3>1
    <3>4. QED  BY <3>2, <3>3
  <2>2. QED  BY <1>0, <2>1
<1>4. n <= k + 1
  <2>1. ASSUME n > k + 1 PROVE FALSE
    <3>1. k + 1 \in 1..n /\ k + 1 < n /\ k + 1 \in 1..NB_CUBE /\ k + 1 > k
      BY <1>0, <2>1
    <3>2. t[k + 1] = 0 /\ s[k + 1] = t[k + 1] /\ s[k + 1] # 0
      BY <1>1, <3>1
    <3>3. QED  BY <3>2
  <2>2. QED  BY <1>0, <2>1
<1>5. d = k
  <2>1. CASE n = k
    <3>1. s[n] # 0 /\ n = NB_CUBE
      BY <1>0, <1>2, <2>1
    <3>2. QED  BY <2>1, <3>1 DEF DernierCube, PostePlein
  <2>2. CASE n = k + 1
    <3>1. s[n] = 0
      <4>1. n \in 1..NB_CUBE /\ n > k
        BY <1>0, <2>2
      <4>2. t[n] = 0
        BY <1>1, <4>1
      <4>3. QED  BY <4>1, <4>2
    <3>2. ~PostePlein(s)
      BY <3>1 DEF PostePlein
    <3>3. d = n - 1
      BY <3>2 DEF DernierCube
    <3>4. QED  BY <2>2, <3>3
  <2>3. QED  BY <1>0, <1>3, <1>4, <2>1, <2>2
<1>6. k \in 1..NB_CUBE /\ k # 1 /\ 1 \in 1..NB_CUBE
  BY <1>0
<1>7. \A l \in 1..NB_CUBE : r[l] = IF l = d THEN CouleurTache(p)
                                   ELSE IF l <= n THEN s[l] ELSE 0
  BY DEF Finie, Complete
<1> HIDE DEF r, d
<1>8. Faite(r, p)
  BY <1>5, <1>6, <1>7 DEF Faite
<1>9. r[1] = s[1]
  BY <1>5, <1>6, <1>7
<1>10. Saine(r)
  <2> SUFFICES ASSUME NEW l \in 1..NB_CUBE PROVE r[l] \notin EnCoursDe
    BY DEF Saine
  <2>1. CASE l = k
    BY <1>5, <1>7, <2>1, CouleursDistinctes
  <2>2. CASE l < k
    <3>1. l <= n /\ l \in 1..n /\ l # k
      BY <1>0, <1>3, <2>2
    <3>2. r[l] = s[l] /\ s[l] = t[l]
      BY <1>5, <1>7, <3>1
    <3>3. QED  BY <1>1, <2>2, <3>2
  <2>3. CASE l > k
    <3>1. r[l] = IF l <= n THEN s[l] ELSE 0
      BY <1>5, <1>7, <2>3
    <3>2. l <= n => l \in 1..n
      BY <1>0
    <3>3. t[l] = 0
      BY <1>1, <2>3
    <3>4. r[l] = 0
      BY <3>1, <3>2, <3>3
    <3>5. QED  BY <3>4, CouleursDistinctes
  <2>4. QED  BY <1>0, <2>1, <2>2, <2>3
<1>11. QED  BY <1>8, <1>9, <1>10 DEF r, d

-----------------------------------------------------------------------------
(* Nobody works at a task while a stack is in hand. *)
LEMMA MainSansTache ==
    ASSUME InvTypes, InvTravail, InvAttentes, PieceEnTete, NEW e \in EnMain
    PROVE  SansTache /\ SansOrdre /\ ~Oisif /\ \A p \in PositionsPoste : ~tache[p]
<1>1. PICK i \in 1..Len(appels) : appels[i] = e
  BY MainConnu
<1>2. Travail(appels[i]) /\ appels[i].op # "update"
  BY <1>1, MainConnu
<1>3. SansTache /\ SansOrdre
  BY <1>2, Occupee
<1>4. QED  BY <1>2, <1>3 DEF Oisif, SansTache

LEMMA DemarreSuite ==
    ASSUME InvTypes, InvQuestions, InvVols, InvAttentes, appels # <<>>,
           NEW f, f = Suivante, NEW e, e = Courant, AutreSuite, ~TacheEchue,
           e.op \in OpsPieces => Suivie(e), UNCHANGED <<cubes, navette>>
    PROVE  Demarre(f)' <=> Demarre(e)
<1>1. ASSUME f.op \notin {"lireFin", "peindreFin", "peindreDebut"},
             e.op \notin {"lireFin", "peindreFin", "peindreDebut"}
      PROVE  ~Demarre(f)' /\ ~Demarre(e)
  BY <1>1 DEF Demarre
<1>2. CASE ConsigneRecue \/ PositionNonAtteinte \/ PinceCommande \/ PinceAttend \/ InitDemande
  <2>1. f.op \in {"sonder", "pince", "serrage", "init"}
        /\ e.op \in {"consigne", "sonder", "pince", "serrage", "init"}
    BY <1>2, EffetsMouvement DEF Vers, Fiche1
  <2>2. QED  BY <1>1, <2>1
<1>3. CASE ColorerNavette \/ ColorerPoste \/ TacheHeure \/ Evacuer
  <2>1. /\ f.op \in {"lirePrise", "lirePose", "lireDebut", "lireEvac"}
        /\ e.op \in {"prise", "pose", "tache", "evacuer"}
    BY <1>3, EffetsLectures DEF Debute, LectureDe, Fiche1
  <2>2. QED  BY <1>1, <2>1
<1>4. CASE LireCouleur \/ CouleurRecue
  <2>1. f.op = e.op /\ e.op \in Lectures
    BY <1>4, EffetsLectures DEF Vers, Fiche1
  <2>2. QED  BY <2>1 DEF Demarre, Lectures
<1>5. CASE ColorerPeint \/ TacheColore \/ FinTask \/ EvacuerEfface
  <2>1. \/ e.op = "lireFin" /\ f.op = "peindreFin"
        \/ e.op = "lireDebut" /\ f.op = "peindreDebut"
        \/ /\ e.op \in {"lirePrise", "lirePose", "lireEvac"}
           /\ f.op \in {"peindrePrise", "peindrePose", "peindreEvac"}
    BY <1>5, EffetsPeintures DEF Peinture, Fiche1
  <2>2. APeindre(f)'
    <3>1. e.op \in OpsPieces
      BY <2>1 DEF OpsPieces, Lectures
    <3>2. QED  BY <1>5, <3>1, SuivieEcrite
  <2>3. QED  BY <2>1, <2>2 DEF Demarre
<1>6. CASE FinTaskPeint
  <2>1. /\ e.op = "peindreFin" /\ f.op = "confirmer" /\ rep[e.attend]
    BY <1>6, EffetsTaches DEF Vers, Fiche1
  <2>2. ~APeindre(e)
    BY <2>1, DejaPeint DEF Peintures
  <2>3. QED  BY <2>1, <2>2 DEF Demarre
<1>7. CASE FaireTache \/ Confirmer \/ PasEncoreCouleur
  <2>1. f.op \in {"tache", "confirmer"} /\ e.op \in {"tache", "confirmer"}
    BY <1>7, EffetsTaches DEF Vers, Fiche1
  <2>2. QED  BY <1>1, <2>1
<1>8. QED  BY <1>2, <1>3, <1>4, <1>5, <1>6, <1>7 DEF AutreSuite

LEMMA EntameSuite ==
    ASSUME InvTypes, InvTravail, InvQuestions, InvVols, InvAttentes, InvScene, AutreSuite,
           UNCHANGED <<cubes, navette>>
    PROVE  \A p \in PositionsPoste : Entame(p)' <=> Entame(p)
<1>1. PICK f : f = Suivante
  OBVIOUS
<1>2. PICK e : e = Courant
  OBVIOUS
<1>3. Poursuit(f)
  BY <1>1, SuitePoursuit
<1>4. appels # <<>> /\ e.op # "lot"
  BY <1>2, <1>3 DEF Poursuit
<1>5. /\ EnMain = IF e.op \in OpsPieces THEN {e} ELSE {}
      /\ EnMain' = IF f.op \in OpsPieces THEN {f} ELSE {}
  BY <1>2, <1>3, MainPoursuit DEF InvScene
<1>6. f.pos = e.pos
  BY <1>1, <1>2, <1>4, Tete, Suites DEF InvTypes, InvAttentes
<1>7. /\ Demarre(e) => e.op \in OpsPieces
      /\ Demarre(f)' => f.op \in OpsPieces
  BY DEF Demarre, OpsPieces, Lectures, Peintures
<1>8. ASSUME NEW p PROVE Entame(p) <=> tache[p] \/ (e.pos = p /\ Demarre(e))
  BY <1>5, <1>7 DEF Entame
<1>9. ASSUME NEW p PROVE Entame(p)' <=> tache'[p] \/ (f.pos = p /\ Demarre(f)')
  BY <1>5, <1>7 DEF Entame
<1>10. CASE ~TacheEchue
  <2>1. tache' = tache
    <3>1. SuiteDuRobot
      BY <1>10 DEF AutreSuite, SuiteDuRobot
    <3>2. QED  BY <3>1, SuitesDuRobot DEF Discret
  <2>2. e.op \in OpsPieces => Suivie(e)
    BY <1>5 DEF InvScene, MainSuivie
  <2>3. Demarre(f)' <=> Demarre(e)
    BY <1>1, <1>2, <1>4, <1>10, <2>2, DemarreSuite
  <2>4. QED  BY <1>6, <1>8, <1>9, <2>1, <2>3
<1>11. CASE TacheEchue
  <2>1. /\ e.op = "verifier" /\ e.pos \in PositionsPoste
        /\ tache[e.pos] /\ tache' = [tache EXCEPT ![e.pos] = FALSE]
    BY <1>2, <1>11, TacheQuiFinit DEF InvTypes
  <2>2. f.op = "lireFin"
    BY <1>1, <1>11, EffetsLectures DEF Debute
  <2>3. ~Demarre(e) /\ Demarre(f)'
    BY <2>1, <2>2 DEF Demarre
  <2>4. ASSUME NEW p \in PositionsPoste, tache[p] PROVE p = e.pos
    <3>1. demandes = {TacheDe(p)} /\ demandes = {TacheDe(e.pos)}
      BY <2>1, <2>4 DEF InvTravail, InvOrdre, TacheSeule
    <3>2. TacheDe(p) = TacheDe(e.pos)
      BY <3>1
    <3>3. QED  BY <2>1, <3>2 DEF TacheDe, PositionsPoste
  <2>5. tache \in [PositionsPoste -> BOOLEAN]
    BY DEF InvTypes, TypesMemoire
  <2>6. \A p \in PositionsPoste : ~tache'[p]
    BY <2>1, <2>4, <2>5
  <2>7. QED  BY <1>6, <1>8, <1>9, <2>1, <2>3, <2>4, <2>6
<1>12. QED  BY <1>10, <1>11

LEMMA LueEntiere ==
    ASSUME NEW e, e.lues \in LuesType, Lu(e)
    PROVE  /\ Len(e.lues) \in 1..NB_CUBE /\ Len(e.lues) \in Nat
           /\ Len(e.lues) = NB_CUBE \/ (e.op \in {"lireDebut", "lireFin"}
                                        /\ e.lues[Len(e.lues)] = 0)
<1>1. NB_CUBE \in Nat /\ NB_CUBE >= 2
  BY Constantes
<1>2. e.lues \in Seq(Couleurs) /\ Len(e.lues) <= NB_CUBE
  BY SuitesDeLues
<1>3. Len(e.lues) \in Nat
  BY ONLY <1>2
<1>4. Len(e.lues) # 0
  <2>1. ASSUME Len(e.lues) = 0 PROVE e.lues = <<>>
    BY <1>2, <2>1, EmptySeq
  <2>2. QED  BY <1>1, <2>1 DEF Lu
<1>5. QED  BY <1>1, <1>2, <1>3, <1>4 DEF Lu

(* The stack in hand, and the places, while no task is shown. *)
LEMMA MainEntame ==
    ASSUME InvTypes, InvTravail, InvAttentes, PieceEnTete, InvPiles, NEW e \in EnMain
    PROVE  /\ \A p \in PositionsPoste : Entame(p) <=> e.pos = p /\ Demarre(e)
           /\ ~Demarre(e) => \A o \in Objets : Saine(cubes[o])
           /\ Demarre(e) => /\ e.pos \in PositionsPoste
                            /\ Demi(cubes[NomPoste(e.pos)], e.pos)
                            /\ \A o \in Objets : o # NomPoste(e.pos) => Saine(cubes[o])
<1>1. \A p \in PositionsPoste : ~tache[p]
  BY MainSansTache
<1>2. \A x \in EnMain : x = e
  BY MainConnu
<1>3. \A p \in PositionsPoste : Entame(p) <=> e.pos = p /\ Demarre(e)
  BY <1>1, <1>2 DEF Entame
<1>4. ~Demarre(e) => \A o \in Objets : Saine(cubes[o])
  BY <1>3 DEF InvPiles
<1>5. EtapeJuste(e)
  BY MainConnu
<1>6. Demarre(e) => e.pos \in PositionsPoste
  BY <1>5 DEF EtapeJuste, Demarre, OpsPoste
<1>7. Demarre(e) => Demi(cubes[NomPoste(e.pos)], e.pos)
  BY <1>3, <1>6 DEF InvPiles
<1>8. Demarre(e) => \A o \in Objets : o # NomPoste(e.pos) => Saine(cubes[o])
  BY <1>3 DEF InvPiles
<1>9. QED  BY <1>3, <1>4, <1>6, <1>7, <1>8

LEMMA PrepareeSuite ==
    ASSUME InvTypes, InvTravail, InvQuestions, InvVols, InvAttentes, InvScene, InvPiles,
           NEW f, f = Suivante, NEW e, e = Courant, AutreSuite, UNCHANGED <<cubes, navette>>
    PROVE  Preparee(f)'
<1>1. Poursuit(f)
  BY SuitePoursuit
<1>2. appels # <<>> /\ e.op # "lot" /\ EtapeJuste(e) /\ e.lues \in LuesType
  BY <1>1, Tete DEF Poursuit, InvTypes
<1>3. e.op \in OpsPieces => e \in EnMain /\ Suivie(e) /\ Preparee(e)
  <2>1. EnMain = IF e.op \in OpsPieces THEN {e} ELSE {}
    BY <1>1, MainPoursuit DEF InvScene
  <2>2. QED  BY <2>1 DEF InvScene, MainSuivie, InvPiles
<1>4. ASSUME f.op \notin {"peindrePrise", "peindreDebut", "peindreFin", "confirmer"}
      PROVE  Preparee(f)'
  BY <1>4 DEF Preparee
<1>5. CASE ConsigneRecue \/ PositionNonAtteinte \/ PinceCommande \/ PinceAttend \/ InitDemande
  <2>1. f.op \in {"sonder", "pince", "serrage", "init"}
    BY <1>5, EffetsMouvement DEF Vers, Fiche1
  <2>2. QED  BY <1>4, <2>1
<1>6. CASE ColorerNavette \/ ColorerPoste \/ TacheHeure \/ TacheEchue \/ Evacuer
  <2>1. f.op \in {"lirePrise", "lirePose", "lireDebut", "lireFin", "lireEvac"}
    BY <1>6, EffetsLectures DEF Debute, LectureDe
  <2>2. QED  BY <1>4, <2>1
<1>7. CASE LireCouleur \/ CouleurRecue
  <2>1. f.op \in Lectures
    BY <1>7, EffetsLectures DEF Vers, Fiche1
  <2>2. QED  BY <1>4, <2>1 DEF Lectures
<1>8. CASE FaireTache
  <2>1. f.op = "tache"
    BY <1>8, EffetsTaches DEF Vers, Fiche1
  <2>2. QED  BY <1>4, <2>1
<1>9. ASSUME NEW o, NEW q, NEW x, Peinture(o, q, x), o \in Lectures
      PROVE  /\ e.op = o /\ e.attend = "" /\ Lu(e) /\ f.op = q /\ f.pos = e.pos
             /\ f.objet = e.objet /\ f.lues = e.lues
             /\ e.objet \in Objets
             /\ \A k \in 1..Len(e.lues) : e.lues[k] = cubes[e.objet][k]
             /\ e \in EnMain /\ Suivie(e)
  <2>1. /\ e.op = o /\ e.attend = "" /\ Lu(e) /\ f.op = q /\ f.pos = e.pos
        /\ f.objet = e.objet /\ f.lues = e.lues
    BY <1>9 DEF Peinture, Fiche1
  <2>2. e.op \in Lectures /\ e.op \in OpsPieces
    BY <1>9, <2>1, OpsDesPieces
  <2>3. e.objet \in Objets
    BY <1>2, <2>2 DEF EtapeJuste, OpsObjet
  <2>4. \A k \in 1..Len(e.lues) : e.lues[k] = cubes[e.objet][k]
    BY <1>3, <2>2 DEF Suivie, LectureJuste
  <2>5. QED  BY <1>3, <2>1, <2>2, <2>3, <2>4
<1>10. CASE ColorerPeint
  <2> DEFINE x == couleur_transportee
  <2>1. \/ Peinture("lirePrise", "peindrePrise", x)
        \/ Peinture("lirePose", "peindrePose", x)
    BY <1>10, EffetsPeintures
  <2>2. CASE Peinture("lirePrise", "peindrePrise", x)
    <3> HIDE DEF x
    <3>1. /\ e.op = "lirePrise" /\ Lu(e) /\ f.op = "peindrePrise" /\ f.lues = e.lues
          /\ e.objet \in Objets
          /\ \A k \in 1..Len(e.lues) : e.lues[k] = cubes[e.objet][k]
          /\ e \in EnMain
      BY <1>9, <2>2 DEF Lectures
    <3>2. ~Demarre(e)
      BY <3>1 DEF Demarre
    <3>3. Saine(cubes[e.objet])
      BY <3>1, <3>2, MainEntame DEF InvScene
    <3>4. Saine(Complete(e.lues))
      BY <1>2, <3>1, <3>3, LueEntiere, LueSaine
    <3>5. QED  BY <3>1, <3>4 DEF Preparee, Saine, Complete
  <2>3. CASE Peinture("lirePose", "peindrePose", x)
    <3>1. f.op = "peindrePose"
      BY <2>3 DEF Peinture
    <3>2. QED  BY <1>4, <3>1
  <2>4. QED  BY <2>1, <2>2, <2>3
<1>11. CASE TacheColore
  <2> DEFINE x == [Complete(e.lues) EXCEPT ![Len(e.lues)] = CouleurEnCours(e.pos)]
  <2>1. Peinture("lireDebut", "peindreDebut", x)
        /\ ~PosteVide(e.lues) /\ ~PostePlein(e.lues)
    BY <1>11, EffetsPeintures
  <2> HIDE DEF x
  <2>2. /\ e.op = "lireDebut" /\ e.attend = "" /\ Lu(e) /\ f.op = "peindreDebut"
        /\ f.lues = e.lues /\ f.pos = e.pos /\ e.objet \in Objets
        /\ \A k \in 1..Len(e.lues) : e.lues[k] = cubes[e.objet][k]
        /\ e \in EnMain /\ Suivie(e)
    BY <1>9, <2>1 DEF Lectures
  <2>3. ~Demarre(e)
    BY <2>2 DEF Demarre
  <2>4. Saine(cubes[e.objet])
    BY <2>2, <2>3, MainEntame DEF InvScene
  <2>5. /\ Len(e.lues) \in 1..NB_CUBE /\ Len(e.lues) # 1 /\ NB_CUBE \in Nat
        /\ e.lues[Len(e.lues)] = 0
    BY <1>2, <2>1, <2>2, LueEntiere, Constantes DEF PosteVide, PostePlein
  <2>6. Len(e.lues) \in 2..NB_CUBE
    <3>1. Len(e.lues) \in 1..NB_CUBE /\ Len(e.lues) # 1 /\ NB_CUBE \in Nat
      BY <2>5
    <3>2. \A m \in Nat : \A n \in 1..m : n # 1 => n \in 2..m
      OBVIOUS
    <3>3. QED  BY <3>1, <3>2, Zenon
  <2>7. \A l \in 1..Len(e.lues) : l < Len(e.lues) => e.lues[l] # 0
    BY <2>2 DEF Suivie, RechercheJuste
  <2>8. e.pos \in PositionsPoste
    BY <1>2, <2>2 DEF EtapeJuste, OpsPoste
  <2>9. Demi(Entamee(e.lues, e.pos), e.pos) /\ Entamee(e.lues, e.pos)[1] = e.lues[1]
    BY <2>2, <2>4, <2>5, <2>6, <2>7, <2>8, LueDemi
  <2>10. Contenu(f)' = Entamee(e.lues, e.pos)
    BY <2>2 DEF Contenu, Entamee, Complete
  <2>11. QED  BY <2>2, <2>9, <2>10 DEF Preparee, Demi
<1>12. CASE FinTask
  <2> DEFINE x == [i \in 1..NB_CUBE |-> IF i = DernierCube(e.lues) THEN CouleurTache(e.pos)
                                         ELSE Complete(e.lues)[i]]
  <2>1. Peinture("lireFin", "peindreFin", x) /\ f.arg = DernierCube(e.lues)
    BY <1>12, EffetsPeintures
  <2> HIDE DEF x
  <2>2. /\ e.op = "lireFin" /\ e.attend = "" /\ Lu(e) /\ f.op = "peindreFin"
        /\ f.lues = e.lues /\ f.pos = e.pos
        /\ \A k \in 1..Len(e.lues) : e.lues[k] = cubes[e.objet][k]
        /\ e \in EnMain /\ Suivie(e)
    BY <1>9, <2>1 DEF Lectures
  <2>3. Demarre(e)
    BY <2>2 DEF Demarre
  <2>4. e.pos \in PositionsPoste /\ Demi(cubes[NomPoste(e.pos)], e.pos)
    BY <2>2, <2>3, MainEntame DEF InvScene
  <2>5. e.objet = NomPoste(e.pos)
    BY <2>2, <2>4 DEF Suivie, LieuJuste, OpsLieu, Lieu
  <2>6. /\ Len(e.lues) \in 1..NB_CUBE /\ NB_CUBE \in Nat
        /\ Len(e.lues) = NB_CUBE \/ e.lues[Len(e.lues)] = 0
    BY <1>2, <2>2, LueEntiere, Constantes
  <2>7. \A l \in 1..Len(e.lues) : l < Len(e.lues) => e.lues[l] # 0
    BY <2>2 DEF Suivie, RechercheJuste
  <2> DEFINE r == Finie(e.lues, e.pos, DernierCube(e.lues))
  <2>8. Saine(r) /\ Faite(r, e.pos) /\ r[1] = e.lues[1]
    <3>1. \A k \in 1..Len(e.lues) : e.lues[k] = cubes[NomPoste(e.pos)][k]
      BY <2>2, <2>5
    <3> DEFINE t == cubes[NomPoste(e.pos)]
    <3>2. /\ \A k \in 1..Len(e.lues) : e.lues[k] = t[k]
          /\ Demi(t, e.pos) /\ e.pos \in PositionsPoste
      BY <2>4, <3>1
    <3> HIDE DEF t
    <3>3. QED  BY <2>6, <2>7, <3>2, LueFinie
  <2>9. Contenu(f)' = r
    BY <2>1, <2>2 DEF Contenu, Finie, Complete
  <2> HIDE DEF r
  <2>10. QED  BY <2>2, <2>8, <2>9 DEF Preparee, Saine, Faite
<1>13. CASE FinTaskPeint
  <2>1. /\ e.op = "peindreFin" /\ f.op = "confirmer" /\ rep[e.attend]
        /\ f.pos = e.pos /\ f.objet = e.objet
    BY <1>13, EffetsTaches DEF Vers, Fiche1, Pareil
  <2>2. e.op \in Peintures /\ e.op \in OpsPieces
    BY <2>1, OpsDesPieces DEF Peintures
  <2>3. ~APeindre(e)
    BY <1>2, <2>1, <2>2, DejaPeint
  <2>4. cubes[e.objet] = Contenu(e)
    BY <1>3, <2>2, <2>3 DEF Suivie, PeintureJuste
  <2>5. Faite(cubes[e.objet], e.pos)
    BY <1>3, <2>1, <2>2, <2>4 DEF Preparee
  <2>6. QED  BY <2>1, <2>5 DEF Preparee, Faite
<1>14. CASE Confirmer \/ PasEncoreCouleur
  <2>1. /\ e.op = "confirmer" /\ f.op = "confirmer"
        /\ f.pos = e.pos /\ f.objet = e.objet
    BY <1>14, EffetsTaches DEF Vers, Fiche1, Pareil
  <2>2. Faite(cubes[e.objet], e.pos)
    BY <1>3, <2>1 DEF Preparee, OpsPieces
  <2>3. QED  BY <2>1, <2>2 DEF Preparee, Faite
<1>15. CASE EvacuerEfface
  <2>1. f.op = "peindreEvac"
    BY <1>15, EffetsPeintures DEF Peinture
  <2>2. QED  BY <1>4, <2>1
<1>16. QED
  BY <1>5, <1>6, <1>7, <1>8, <1>10, <1>11, <1>12, <1>13, <1>14, <1>15 DEF AutreSuite

LEMMA PilesGardees ==
    ASSUME InvPiles, cubes' = cubes, \A p \in PositionsPoste : Entame(p)' <=> Entame(p),
           Saine(couleur_transportee)', \A e \in EnMain' : Preparee(e)'
    PROVE  InvPiles'
<1>1. ASSUME NEW o \in Objets
      PROVE  Saine(cubes[o])' \/ \E p \in PositionsPoste : o = NomPoste(p) /\ Entame(p)'
  BY DEF InvPiles, Saine
<1>2. ASSUME NEW p \in PositionsPoste, Entame(p)' PROVE Demi(cubes[NomPoste(p)], p)'
  <2>1. Demi(cubes[NomPoste(p)], p)
    BY <1>2 DEF InvPiles
  <2>2. QED  BY <2>1 DEF Demi
<1>3. QED  BY <1>1, <1>2 DEF InvPiles

(* Nothing in hand, before and after. *)
LEMMA PilesVides ==
    ASSUME InvPiles, UNCHANGED <<cubes, couleur_transportee, tache>>, EnMain = {},
           \A e \in EnMain' : e.op = "tache"
    PROVE  InvPiles'
<1>1. ASSUME NEW e, e.op = "tache" PROVE ~Demarre(e)' /\ Preparee(e)'
  BY <1>1 DEF Demarre, Preparee
<1>2. \A e \in EnMain' : ~Demarre(e)' /\ Preparee(e)'
  BY <1>1
<1>3. \A p \in PositionsPoste : Entame(p)' <=> Entame(p)
  BY <1>2 DEF Entame
<1>4. Saine(couleur_transportee)'
  BY DEF InvPiles, Saine
<1>5. QED  BY <1>2, <1>3, <1>4, PilesGardees

(* The same in hand. *)
LEMMA PilesEgales ==
    ASSUME InvPiles, UNCHANGED <<cubes, couleur_transportee, tache>>, EnMain' = EnMain,
           PeinturesEgales
    PROVE  InvPiles'
<1>1. ASSUME NEW e PROVE APeindre(e)' <=> APeindre(e)
  BY APeindreEgal DEF APeindre
<1>2. ASSUME NEW e PROVE Demarre(e)' <=> Demarre(e)
  BY <1>1 DEF Demarre
<1>3. ASSUME NEW e \in EnMain PROVE Preparee(e)'
  <2>1. Preparee(e)
    BY DEF InvPiles
  <2>2. Contenu(e)' = Contenu(e)
    BY DEF Contenu, Entamee, Finie, Complete, SansCube
  <2>3. QED  BY <2>1, <2>2 DEF Preparee, Saine, Demi, Faite, Complete
<1>4. \A p \in PositionsPoste : Entame(p)' <=> Entame(p)
  BY <1>2 DEF Entame
<1>5. Saine(couleur_transportee)'
  BY DEF InvPiles, Saine
<1>6. QED  BY <1>3, <1>4, <1>5, PilesGardees

(* A callback ends. *)
LEMMA FinsEtTaches ==
    ASSUME InvTypes, InvTravail, Fin, ~DebutTask
    PROVE  /\ Courant.op \notin {"lireFin", "peindreFin", "peindreDebut"}
           /\ tache' = tache
<1>1. CASE PositionAtteinte \/ PinceFin \/ InitFin \/ TacheTerminee
  BY <1>1 DEF PositionAtteinte, PinceFin, InitFin, TacheTerminee, Recu, Actif, Courant
<1>2. CASE PinceDejaFaite \/ RetourFin \/ TacheContinue \/ TacheImpossible
  BY <1>2 DEF PinceDejaFaite, RetourFin, TacheContinue, TacheImpossible, Libre, Actif, Courant,
              varsMemoire
<1>3. CASE ColorerSansNavette
  BY <1>3 DEF ColorerSansNavette, Colorer, Libre, Actif, Courant
<1>6. CASE FinPrise \/ FinPose \/ EvacuerFin
  BY <1>6 DEF FinPrise, FinPose, EvacuerFin, Peint, Recu, Actif, Courant, varsMemoire
<1>4. CASE StopTache
  <2>1. /\ Courant.op = "stopTache" /\ Courant.pos \in PositionsPoste /\ Termine
        /\ tache' = [tache EXCEPT ![Courant.pos] = FALSE]
    BY <1>4, StopDeTache DEF InvTypes
  <2>2. Courant = appels[1] /\ 1 \in 1..Len(appels)
    BY <2>1, Tete DEF Termine, InvTypes
  <2>3. SansTache
    BY <2>1, <2>2, Occupee DEF Travail
  <2>4. tache \in [PositionsPoste -> BOOLEAN]
    BY DEF InvTypes, TypesMemoire
  <2>5. \A p \in PositionsPoste : tache[p] = FALSE
    BY <2>3, <2>4 DEF SansTache
  <2>6. QED  BY <2>1, <2>4, <2>5
<1>7. QED  BY <1>1, <1>2, <1>3, <1>4, <1>6 DEF Fin

LEMMA PilesFin ==
    ASSUME InvTypes, InvTravail, InvVols, InvAttentes, InvScene, InvPiles, cubes' = cubes, Fin
    PROVE  InvPiles'
<1>1. PICK e : e = Courant
  OBVIOUS
<1>2. Termine
  BY Fins
<1>3. EnMain' = {} /\ EnMain = IF e.op \in OpsPieces THEN {e} ELSE {}
  BY <1>1, <1>2, MainTermine DEF InvScene
<1>4. appels # <<>>
  BY <1>2 DEF Termine
<1>5. Saine(couleur_transportee)'
  <2>1. CASE couleur_transportee' \in {couleur_transportee, SansCube}
    BY <2>1, CouleursDistinctes DEF InvPiles, Saine
  <2>2. CASE e.op = "peindrePrise" /\ couleur_transportee' = Complete(e.lues)
    <3>1. e \in EnMain
      BY <1>3, <2>2 DEF OpsPieces, Peintures
    <3>2. Saine(Complete(e.lues))
      BY <2>2, <3>1 DEF InvPiles, Preparee
    <3>3. QED  BY <2>2, <3>2 DEF Saine
  <2>3. QED  BY <1>1, <2>1, <2>2, Fins
<1>6. \A p \in PositionsPoste : Entame(p)' <=> Entame(p)
  <2>1. \A p \in PositionsPoste : Entame(p)' <=> tache'[p]
    BY <1>3 DEF Entame
  <2>2. CASE ~DebutTask
    <3>1. e.op \notin {"lireFin", "peindreFin", "peindreDebut"} /\ tache' = tache
      BY <1>1, <2>2, FinsEtTaches
    <3>2. ~Demarre(e)
      BY <3>1 DEF Demarre
    <3>3. \A p \in PositionsPoste : Entame(p) <=> tache[p]
      BY <1>3, <3>2 DEF Entame
    <3>4. QED  BY <2>1, <3>1, <3>3
  <2>3. CASE DebutTask
    <3>1. /\ e.op = "peindreDebut" /\ e.pos \in PositionsPoste
          /\ tache' = [tache EXCEPT ![e.pos] = TRUE]
      BY <1>1, <2>3, DebutDeTache DEF InvTypes
    <3>2. e \in EnMain
      BY <1>3, <3>1 DEF OpsPieces, Peintures
    <3>3. rep[e.attend]
      BY <1>1, <2>3 DEF DebutTask, Peint, Recu
    <3>4. ~APeindre(e)
      BY <1>1, <1>4, <3>1, <3>3, DejaPeint DEF Peintures
    <3>5. Demarre(e)
      BY <3>1, <3>4 DEF Demarre
    <3>6. \A p \in PositionsPoste : Entame(p) <=> p = e.pos
      BY <3>2, <3>5, MainEntame DEF InvScene
    <3>7. \A p \in PositionsPoste : ~tache[p]
      BY <3>2, MainSansTache DEF InvScene
    <3>8. tache \in [PositionsPoste -> BOOLEAN]
      BY DEF InvTypes, TypesMemoire
    <3>9. \A p \in PositionsPoste : tache'[p] <=> p = e.pos
      BY <3>1, <3>7, <3>8
    <3>10. QED  BY <2>1, <3>6, <3>9
  <2>4. QED  BY <2>2, <2>3
<1>7. QED  BY <1>3, <1>5, <1>6, PilesGardees

LEMMA PilesRobot ==
    ASSUME InvTypes, InvTravail, InvQuestions, InvVols, InvAttentes, OrdrePris, InvScene,
           InvPiles, Robot
    PROVE  InvPiles'
<1>1. RobotNext /\ UNCHANGED <<cubes, navette>>
  BY DEF Robot, varsSimulateur
<1>2. CASE EnvoyerRobot \/ EnvoyerJoints \/ DescendreBras \/ MonterBras
  <2>1. PICK f : f = Suivante
    OBVIOUS
  <2>2. /\ Poursuit(f) /\ f.op = "consigne"
        /\ Courant.op \in {"envoyer", "joints", "descendre", "monter"}
        /\ couleur_transportee' = couleur_transportee
    BY <1>2, <2>1, SuitePoursuit, EffetsRpos
  <2>3. f.op \notin OpsPieces /\ Courant.op \notin OpsPieces
    BY <2>2 DEF OpsPieces, Lectures, Peintures
  <2>4. EnMain = {} /\ EnMain' = {}
    BY <2>2, <2>3, MainPoursuit DEF InvScene
  <2>5. tache' = tache
    BY <1>2, RposSuite DEF InvTypes, Discret
  <2>6. QED  BY <1>1, <2>2, <2>4, <2>5, PilesVides
<1>3. CASE AutreSuite
  <2>1. PICK f : f = Suivante
    OBVIOUS
  <2>2. PICK e : e = Courant
    OBVIOUS
  <2>3. Poursuit(f)
    BY <1>3, <2>1, SuitePoursuit
  <2>4. EnMain' = IF f.op \in OpsPieces THEN {f} ELSE {}
    BY <2>3, MainPoursuit DEF InvScene
  <2>5. Preparee(f)'
    BY <1>1, <1>3, <2>1, <2>2, PrepareeSuite
  <2>6. \A p \in PositionsPoste : Entame(p)' <=> Entame(p)
    BY <1>1, <1>3, EntameSuite
  <2>7. AttenteJuste(Courant)
    BY <2>3, Tete DEF Poursuit, InvTypes, InvAttentes
  <2>8. couleur_transportee' = couleur_transportee
    BY <1>3, <2>7, Suites DEF Garde
  <2>9. Saine(couleur_transportee)'
    BY <2>8 DEF InvPiles, Saine
  <2>10. QED  BY <1>1, <2>4, <2>5, <2>6, <2>9, PilesGardees
<1>4. CASE Fin
  BY <1>1, <1>4, PilesFin
<1>5. CASE Update \/ UpdateHeure
  <2>1. EnMain = {} /\ EnMain' = {}
    BY <1>5, MainUpdate DEF InvScene
  <2>2. UNCHANGED <<couleur_transportee, tache>>
    BY <1>5 DEF Update, UpdateHeure, varsMemoire
  <2>3. QED  BY <1>1, <2>1, <2>2, PilesVides
<1>6. CASE SpinPrincipal \/ SpinOnce \/ FinLot \/ CallbackReponse
  <2>1. EnMain' = EnMain
    BY <1>6, MainLots DEF InvScene
  <2>2. UNCHANGED <<requetes, couleur_transportee, tache>>
    BY <1>6 DEF SpinPrincipal, SpinOnce, PrendLot, FinLot, CallbackReponse, varsTopics,
                varsMemoire
  <2>3. PeinturesEgales
    BY <2>2 DEF PeinturesEgales
  <2>4. QED  BY <1>1, <2>1, <2>2, <2>3, PilesEgales
<1>7. CASE CallbackOrdre
  <2>1. EnMain = {} /\ \A e \in EnMain' : e.op = "tache"
    BY <1>7, MainOrdre
  <2>2. UNCHANGED <<couleur_transportee, tache>>
    BY <1>7 DEF CallbackOrdre, varsMemoire
  <2>3. QED  BY <1>1, <2>1, <2>2, PilesVides
<1>8. QED  BY <1>1, <1>2, <1>3, <1>4, <1>5, <1>6, <1>7, SortesDePas

LEMMA PilesScene ==
    ASSUME InvTypes, InvTravail, InvQuestions, InvVols, InvAttentes, InvScene, InvPiles,
           NEW c \in Canaux, Scene(c)
    PROVE  InvPiles'
<1>1. CASE c \notin Ecritures
  <2>1. /\ EnMain' = EnMain /\ PeinturesEgales
        /\ UNCHANGED <<couleur_transportee, tache, cubes>>
    BY <1>1, SceneAutre DEF InvScene
  <2>2. QED  BY <2>1, PilesEgales
<1>2. CASE c \in Ecritures
  <2>1. PICK e \in EnMain :
          /\ EnMain = {e} /\ EnMain' = EnMain
          /\ APeindre(e) /\ e.objet \in Objets /\ Contenu(e) \in Cubes
          /\ requetes'[CanalPeinture(e.objet)] = <<>>
          /\ cubes' = [cubes EXCEPT ![e.objet] = Contenu(e)]
          /\ UNCHANGED <<couleur_transportee, tache>>
    BY <1>2, ScenePeint DEF InvScene
  <2>2. ~APeindre(e)'
    BY <2>1 DEF APeindre
  <2>3. /\ cubes'[e.objet] = Contenu(e)
        /\ \A o \in Objets : o # e.objet => cubes'[o] = cubes[o]
    BY <2>1 DEF InvTypes, TypesScene
  <2>4. Saine(couleur_transportee) /\ Preparee(e)
    BY DEF InvPiles
  <2>5. \A p \in PositionsPoste : ~tache[p]
    BY MainSansTache DEF InvScene
  <2>6. \A p \in PositionsPoste : Entame(p)' <=> e.pos = p /\ Demarre(e)'
    BY <2>1, <2>5 DEF Entame
  <2>7. e.op \in Peintures /\ EtapeJuste(e) /\ LieuJuste(e)
    BY <2>1, MainConnu DEF APeindre, InvScene, MainSuivie, Suivie
  <2>8. Demarre(e) <=> e.op = "peindreFin"
    BY <2>1, <2>7 DEF Demarre, Peintures
  <2>9. Demarre(e)' <=> e.op = "peindreDebut"
    BY <2>2, <2>7 DEF Demarre, Peintures
  <2>10. e.op \in {"peindreDebut", "peindreFin"} =>
           e.pos \in PositionsPoste /\ e.objet = NomPoste(e.pos)
    BY <2>7 DEF EtapeJuste, OpsPoste, LieuJuste, OpsLieu, Lieu
  <2>11. \A o \in Objets : o # e.objet => Saine(cubes[o])
    BY <2>8, <2>10, MainEntame DEF InvScene
  <2>12. e.op # "peindreDebut" => Saine(Contenu(e))
    BY <2>4, <2>7, CouleursDistinctes DEF Peintures, Contenu, Preparee
  <2>13. ASSUME NEW o \in Objets
         PROVE  Saine(cubes[o])' \/ \E p \in PositionsPoste : o = NomPoste(p) /\ Entame(p)'
    <3>1. CASE o # e.objet
      BY <2>3, <2>11, <3>1 DEF Saine
    <3>2. CASE o = e.objet /\ e.op # "peindreDebut"
      BY <2>3, <2>12, <3>2 DEF Saine
    <3>3. CASE o = e.objet /\ e.op = "peindreDebut"
      BY <2>6, <2>9, <2>10, <3>3
    <3>4. QED  BY <3>1, <3>2, <3>3
  <2>14. ASSUME NEW p \in PositionsPoste, Entame(p)' PROVE Demi(cubes[NomPoste(p)], p)'
    <3>1. e.pos = p /\ e.op = "peindreDebut"
      BY <2>6, <2>9, <2>14
    <3>2. Demi(Contenu(e), p)
      BY <2>4, <3>1 DEF Preparee
    <3>3. cubes'[NomPoste(p)] = Contenu(e)
      BY <2>3, <2>10, <3>1
    <3>4. QED  BY <3>2, <3>3 DEF Demi
  <2>15. Preparee(e)'
    <3>1. Contenu(e)' = Contenu(e)
      BY <2>1 DEF Contenu, Entamee, Finie, Complete, SansCube
    <3>2. e.op # "confirmer"
      BY <2>7 DEF Peintures
    <3>3. QED  BY <2>4, <3>1, <3>2 DEF Preparee, Saine, Demi, Faite, Complete
  <2>16. Saine(couleur_transportee)'
    BY <2>1, <2>4 DEF Saine
  <2>17. QED  BY <2>1, <2>13, <2>14, <2>15, <2>16 DEF InvPiles
<1>3. QED  BY <1>1, <1>2

LEMMA PilesPas ==
    ASSUME InvTypes, InvTravail, InvQuestions, InvVols, InvAttentes, OrdrePris, InvScene,
           InvPiles, [Next]_vars
    PROVE  InvPiles'
<1>1. CASE Robot
  BY <1>1, PilesRobot
<1>2. CASE \E c \in Canaux : Scene(c)
  BY <1>2, PilesScene
<1>3. ASSUME UNCHANGED <<appels, requetes, cubes, couleur_transportee, tache>>
      PROVE  InvPiles'
  <2>1. EnMain' = EnMain
    BY <1>3, MainLots DEF InvScene
  <2>2. PeinturesEgales
    BY <1>3 DEF PeinturesEgales
  <2>3. QED  BY <1>3, <2>1, <2>2, PilesEgales
<1>4. CASE Bras
  BY <1>3, <1>4 DEF Bras, BrasBouge, varsRobot, varsMemoire, varsTopics
<1>5. CASE \/ \E m \in UNION Programmes : DonneOrdre(m)
           \/ \E k \in Genres : Constate(k)
           \/ Retour \/ UNCHANGED vars
           \/ \E p \in PositionsNavette : Navette(p)
  BY <1>3, <1>5, HorsDuRobot
<1>6. QED  BY <1>1, <1>2, <1>4, <1>5 DEF Next

(* The scene of the start shows no task under way. *)
SceneNeuve == \A o \in Objets : Saine(CubesInitiaux[o])

LEMMA RienEnMain ==
    ASSUME Init
    PROVE  EnMain = {} /\ \A p : ~\E e \in EnMain : e.pos = p
<1>1. Len(appels) = 1 /\ appels[1] = Etape("init", 0, 0)
  <2>1. appels = <<Etape("init", 0, 0)>>
    BY DEF Init, InitRobot
  <2>2. QED  BY ONLY <2>1
<1>2. appels[1].op = "init"
  <2>1. "init" \in Ops /\ 0 \in 0..4 /\ 0 \in 0..10
    BY DEF Ops
  <2>2. QED  BY <1>1, <2>1, EtapeLue
<1>3. \A i \in 1..Len(appels) : appels[i].op \notin OpsPieces
  BY <1>1, <1>2, OpsDesPieces
<1>4. QED  BY <1>3, MainDe

LEMMA PilesInit ==
    ASSUME Init, SceneNeuve
    PROVE  InvPiles
<1>1. EnMain = {}
  BY RienEnMain
<1>2. cubes = CubesInitiaux /\ couleur_transportee = SansCube
      /\ \A p \in PositionsPoste : ~tache[p]
  BY DEF Init, InitRobot, InitSimulateur
<1>3. \A p \in PositionsPoste : ~Entame(p)
  BY <1>1, <1>2 DEF Entame
<1>4. QED  BY <1>1, <1>2, <1>3, CouleursDistinctes DEF InvPiles, SceneNeuve
-----------------------------------------------------------------------------
InvPieces == InvRobot /\ InvScene /\ InvPiles

LEMMA PiecesToujours == UneALaFois /\ SceneNeuve => (Spec => []InvPieces)
<1> SUFFICES ASSUME UneALaFois, SceneNeuve PROVE Spec => []InvPieces
  OBVIOUS
<1>1. Spec => []InvRobot
  BY RobotToujours
<1>2. ASSUME Init, InvRobot PROVE InvScene /\ InvPiles
  BY <1>2, SceneInit, PilesInit DEF InvRobot, Inv
<1>3. ASSUME InvRobot, InvScene, InvPiles, [Next]_vars PROVE InvScene' /\ InvPiles'
  BY <1>3, ScenePas, PilesPas DEF InvRobot, Inv
<1>4. QED  BY <1>1, <1>2, <1>3, PTL DEF Spec, InvPieces

LEMMA CubesAuRepos ==
    ASSUME InvPieces
    PROVE  CubesCoherents
<1> SUFFICES ASSUME AuRepos, NEW p \in PositionsPoste
             PROVE  tache[p] <=> \E i \in 1..NB_CUBE : cubes[NomPoste(p)][i] = CouleurEnCours(p)
  BY DEF CubesCoherents
<1>1. EnMain = {}
  <2>1. Len(appels) = 0
    BY EmptySeq DEF AuRepos
  <2>2. QED  BY <2>1, MainDe
<1>2. \A q \in PositionsPoste : Entame(q) <=> tache[q]
  BY <1>1 DEF Entame
<1>3. ASSUME tache[p] PROVE \E i \in 1..NB_CUBE : cubes[NomPoste(p)][i] = CouleurEnCours(p)
  <2>1. Demi(cubes[NomPoste(p)], p)
    BY <1>2, <1>3 DEF InvPieces, InvPiles
  <2>2. NB_CUBE \in Nat
    BY Constantes
  <2>3. QED  BY <2>1, <2>2 DEF Demi
<1>4. ASSUME NEW i \in 1..NB_CUBE, cubes[NomPoste(p)][i] = CouleurEnCours(p)
      PROVE  tache[p]
  <2>1. ~Saine(cubes[NomPoste(p)])
    BY <1>4, CouleursDistinctes DEF Saine
  <2>2. PICK q \in PositionsPoste : NomPoste(p) = NomPoste(q) /\ Entame(q)
    BY <2>1, Constantes DEF InvPieces, InvPiles
  <2>3. p = q
    BY <2>2 DEF NomPoste, PositionsPoste
  <2>4. QED  BY <1>2, <2>2, <2>3
<1>5. QED  BY <1>3, <1>4

(* When orders are given one at a time, on a scene that starts with no     *)
(* task under way, a post shows a half-transparent cube at rest exactly    *)
(* when the node holds a task there: what colorerPosteDebutTask wrote is   *)
(* what colorerPosteFinTask finds and replaces (poste.cpp, robots.cpp).    *)
THEOREM CubesToujoursCoherents == UneALaFois /\ SceneNeuve => (Spec => []CubesCoherents)
<1>1. InvPieces => CubesCoherents
  BY CubesAuRepos
<1>2. QED  BY <1>1, PiecesToujours, PTL

-----------------------------------------------------------------------------
(* The tasks the command asks for.  update runs only while a post works.   *)
UpdatePresent == \E i \in 1..Len(appels) : appels[i].op = "update"
UpdateUtile == UpdatePresent => ~SansTache

(* Until the post is read, there is a product and room for a cube.         *)
AvantTache(p) ==
    \/ \E i \in 1..Len(entree) :
         entree[i].type = "ordre" /\ entree[i].ordre = "tache" /\ entree[i].posA = p
    \/ \E e \in EnMain : e.pos = p /\ e.op \in {"tache", "lireDebut"}
AvecPlace(s) == s[1] # 0 /\ s[NB_CUBE] = 0
TachePossible ==
    Prudent => \A p \in PositionsPoste : AvantTache(p) => AvecPlace(cubes[NomPoste(p)])

(* When nothing is left to do, the task is done. *)
TacheFaite ==
    Prudent => \A p \in PositionsPoste :
        demandes = {TacheDe(p)} /\ Vacant => Faite(cubes[NomPoste(p)], p)

InvTaches == UpdateUtile /\ TachePossible /\ TacheFaite

LEMMA EntreeRobot ==
    ASSUME InvTypes, InvTravail, InvAttentes, Robot
    PROVE  \A j \in 1..Len(entree') : \E i \in 1..Len(entree) : entree'[j] = entree[i]
<1>1. RobotNext
  BY DEF Robot
<1>2. CASE CallbackReponse \/ CallbackOrdre
  <2>1. lot > 0 /\ entree' = Tail(entree)
    BY <1>2, CallbackReponseSuite, CallbackOrdreSuite DEF InvTypes
  <2>2. \A i \in 1..Len(entree') : i + 1 \in 1..Len(entree) /\ entree'[i] = entree[i + 1]
    BY <2>1, EntreeLue DEF InvTypes
  <2>3. QED  BY <2>2
<1>3. CASE entree' = entree
  BY <1>3
<1>4. CASE EnvoyerRobot \/ EnvoyerJoints \/ DescendreBras \/ MonterBras
  BY <1>3, <1>4, EffetsRpos
<1>5. CASE AutreSuite
  <2>1. appels # <<>>
    BY <1>5, SuitePoursuit DEF Poursuit
  <2>2. AttenteJuste(Courant)
    BY <2>1, Tete DEF InvTypes, InvAttentes
  <2>3. QED  BY <1>3, <1>5, <2>2, Suites DEF Garde
<1>6. CASE Fin
  BY <1>3, <1>6, Fins DEF Termine
<1>7. CASE Update \/ UpdateHeure
  BY <1>3, <1>7, UpdateSuite, UpdateHeureSuite DEF InvTypes, varsTopics
<1>8. CASE SpinPrincipal \/ SpinOnce \/ FinLot
  BY <1>3, <1>8 DEF SpinPrincipal, SpinOnce, PrendLot, FinLot, varsTopics
<1>9. QED
  BY <1>1, <1>2, <1>4, <1>5, <1>6, <1>7, <1>8, SortesDePas

LEMMA SuiteEtTache ==
    ASSUME InvTypes, InvTravail, InvAttentes, NEW f, f = Suivante, NEW e, e = Courant,
           AutreSuite
    PROVE  /\ f.pos = e.pos
           /\ f.op \in {"tache", "lireDebut"} => e.op \in {"tache", "lireDebut"}
           /\ f.op = "update" => e.op = "update"
           /\ TacheEchue => f.op = "lireFin" /\ e.op = "verifier"
<1>1. appels # <<>>
  BY SuitePoursuit DEF Poursuit
<1>2. AttenteJuste(e)
  BY <1>1, Tete DEF InvTypes, InvAttentes
<1>3. /\ f.pos = e.pos
      /\ e.op = "verifier" \/ Mene(e.op, f.op)
  BY <1>2, Suites
<1>4. TacheEchue => f.op = "lireFin" /\ e.op = "verifier"
  BY EffetsLectures DEF Debute, Fiche1
<1>5. e.op = "verifier" => TacheEchue
  <2>1. SuiteDuRobot => e.op # "verifier"
    BY SuitesDuRobot DEF MemeSuite, MemeTravail, Travail
  <2>2. QED  BY <2>1 DEF AutreSuite, SuiteDuRobot
<1>6. QED  BY <1>3, <1>4, <1>5 DEF Mene

-----------------------------------------------------------------------------
LEMMA UpdatePoursuit ==
    ASSUME InvTypes, UpdateUtile, NEW f, Poursuit(f),
           f.op = "update" => Courant.op = "update", tache' = tache
    PROVE  UpdateUtile'
<1>1. /\ Len(appels') = Len(appels) /\ appels'[1] = f
      /\ \A i \in 2..Len(appels) : appels'[i] = appels[i]
      /\ Len(appels) \in Nat /\ Len(appels) >= 1
  BY PilePoursuit DEF InvTypes
<1>2. Courant = appels[1] /\ 1 \in 1..Len(appels)
  BY Tete DEF InvTypes, Poursuit
<1>3. UpdatePresent' => UpdatePresent
  <2> SUFFICES ASSUME NEW i \in 1..Len(appels'), appels'[i].op = "update" PROVE UpdatePresent
    BY DEF UpdatePresent
  <2>1. CASE i = 1
    BY <1>1, <1>2, <2>1 DEF UpdatePresent
  <2>2. CASE i # 1
    <3>1. i \in 2..Len(appels) /\ i \in 1..Len(appels)
      BY <1>1, <2>2
    <3>2. QED  BY <1>1, <3>1 DEF UpdatePresent
  <2>3. QED  BY <2>1, <2>2
<1>4. QED  BY <1>3 DEF UpdateUtile, SansTache

(* What is left of the stack was there before. *)
LEMMA UpdateReste ==
    ASSUME UpdateUtile, SansTache' => SansTache,
           \A i \in 1..Len(appels') : \/ appels'[i].op # "update"
                                      \/ \E j \in 1..Len(appels) : appels'[i] = appels[j]
    PROVE  UpdateUtile'
<1>1. UpdatePresent' => UpdatePresent
  BY DEF UpdatePresent
<1>2. QED  BY <1>1 DEF UpdateUtile

LEMMA UpdatePas ==
    ASSUME InvTypes, InvTravail, InvAttentes, UpdateUtile, [Next]_vars
    PROVE  UpdateUtile'
<1>1. ASSUME UNCHANGED <<appels, tache>> PROVE UpdateUtile'
  BY <1>1 DEF UpdateUtile, UpdatePresent, SansTache
<1>2. CASE Robot
  <2>1. RobotNext
    BY <1>2 DEF Robot
  <2>2. CASE EnvoyerRobot \/ EnvoyerJoints \/ DescendreBras \/ MonterBras
    <3>1. PICK f : f = Suivante
      OBVIOUS
    <3>2. Poursuit(f) /\ f.op = "consigne" /\ tache' = tache
      BY <2>2, <3>1, SuitePoursuit, EffetsRpos, RposSuite DEF InvTypes, Discret
    <3>3. QED  BY <3>2, UpdatePoursuit
  <2>3. CASE AutreSuite /\ ~TacheEchue
    <3>1. PICK f : f = Suivante
      OBVIOUS
    <3>2. Poursuit(f)
      BY <2>3, <3>1, SuitePoursuit
    <3>3. f.op = "update" => Courant.op = "update"
      BY <2>3, <3>1, SuiteEtTache
    <3>4. SuiteDuRobot
      BY <2>3 DEF AutreSuite, SuiteDuRobot
    <3>5. tache' = tache
      BY <3>4, SuitesDuRobot DEF Discret
    <3>6. QED  BY <3>2, <3>3, <3>5, UpdatePoursuit
  <2>4. CASE TacheEchue
    <3>1. PICK f : f = Suivante
      OBVIOUS
    <3>2. AutreSuite
      BY <2>4 DEF AutreSuite
    <3>3. Poursuit(f) /\ f.op = "lireFin" /\ Courant.op = "verifier"
      BY <2>4, <3>1, <3>2, SuitePoursuit, SuiteEtTache
    <3>4. Courant = appels[1] /\ 1 \in 1..Len(appels)
      BY <3>3, Tete DEF InvTypes, Poursuit
    <3>5. ~UpdatePresent
      BY <3>3, <3>4 DEF InvTravail, InvEtapes, UpdateAuFond, UpdatePresent
    <3>6. /\ Len(appels') = Len(appels) /\ appels'[1] = f /\ Len(appels) \in Nat
          /\ \A i \in 2..Len(appels) : appels'[i] = appels[i]
      BY <3>3, PilePoursuit DEF InvTypes
    <3>7. \A i \in 1..Len(appels) : i = 1 \/ i \in 2..Len(appels)
      BY <3>6
    <3>8. ~UpdatePresent'
      BY <3>3, <3>5, <3>6, <3>7 DEF UpdatePresent
    <3>9. QED  BY <3>8 DEF UpdateUtile
  <2>5. CASE Fin
    <3>1. /\ Termine
          /\ \A i \in 1..Len(appels') : i + 1 \in 1..Len(appels) /\ appels'[i] = appels[i + 1]
      BY <2>5, Fins, PileTermine DEF InvTypes
    <3>2. SansTache' => SansTache
      <4>1. CASE ~DebutTask
        BY <2>5, <4>1, FinsEtTaches DEF SansTache
      <4>2. CASE DebutTask
        <5>1. Courant.pos \in PositionsPoste /\ tache' = [tache EXCEPT ![Courant.pos] = TRUE]
          BY <4>2, DebutDeTache DEF InvTypes
        <5>2. tache \in [PositionsPoste -> BOOLEAN]
          BY DEF InvTypes, TypesMemoire
        <5>3. tache'[Courant.pos]
          BY <5>1, <5>2
        <5>4. ~SansTache'
          BY <5>1, <5>3 DEF SansTache
        <5>5. QED  BY <5>4
      <4>3. QED  BY <4>1, <4>2
    <3>3. \A i \in 1..Len(appels') : \E j \in 1..Len(appels) : appels'[i] = appels[j]
      BY <3>1
    <3>4. QED  BY <3>2, <3>3, UpdateReste
  <2>6. CASE Update
    <3>1. (\E p \in PositionsPoste : tache[p]) /\ tache' = tache
      BY <2>6, UpdateSuite DEF InvTypes
    <3>2. ~SansTache'
      BY <3>1 DEF SansTache
    <3>3. QED  BY <3>2 DEF UpdateUtile
  <2>7. CASE UpdateHeure
    <3>1. /\ tache' = tache
          /\ \A i \in 1..2 : appels'[i].op = "verifier"
          /\ \A i \in 1..Len(appels') :
               i \in 1..2 \/ \E j \in 2..Len(appels) : i = j + 1 /\ appels'[i] = appels[j]
          /\ Len(appels) \in Nat
      BY <2>7, UpdateHeureSuite DEF InvTypes
    <3>2. \A j \in 2..Len(appels) : j \in 1..Len(appels)
      BY <3>1
    <3>3. QED  BY <3>1, <3>2, UpdateReste DEF SansTache
  <2>8. CASE SpinPrincipal \/ SpinOnce
    <3>1. PrendLot
      BY <2>8 DEF SpinPrincipal, SpinOnce
    <3>2. /\ appels'[1].op = "lot" /\ tache' = tache
          /\ \A i \in 1..Len(appels') :
               i = 1 \/ \E j \in 1..Len(appels) : i = j + 1 /\ appels'[i] = appels[j]
      BY <3>1, PrendLotSuite, LotJuste DEF InvTypes, varsMemoire
    <3>3. QED  BY <3>2, UpdateReste DEF SansTache
  <2>9. CASE FinLot
    <3>1. /\ tache' = tache
          /\ \A i \in 1..Len(appels') : i + 1 \in 1..Len(appels) /\ appels'[i] = appels[i + 1]
      BY <2>9, FinLotSuite DEF InvTypes
    <3>2. QED  BY <3>1, UpdateReste DEF SansTache
  <2>10. CASE CallbackReponse
    BY <1>1, <2>10 DEF CallbackReponse, varsMemoire
  <2>11. CASE CallbackOrdre
    <3>1. /\ tache' = tache
          /\ \A i \in 1..Len(appels') :
               \/ appels'[i].op \in Neuves
               \/ \E j \in 1..Len(appels) : appels'[i] = appels[j]
      BY <2>11, PileOrdre, CallbackOrdreSuite DEF InvTypes
    <3>2. "update" \notin Neuves
      BY DEF Neuves, Departs
    <3>3. QED  BY <3>1, <3>2, UpdateReste DEF SansTache
  <2>12. QED
    BY <2>1, <2>2, <2>3, <2>4, <2>5, <2>6, <2>7, <2>8, <2>9, <2>10, <2>11, SortesDePas
<1>3. CASE \E c \in Canaux : Scene(c)
  BY <1>1, <1>3, TypesReponse DEF varsRobot, varsMemoire
<1>4. CASE Bras
  BY <1>1, <1>4 DEF Bras, varsRobot, varsMemoire
<1>5. CASE \/ \E m \in UNION Programmes : DonneOrdre(m)
           \/ \E k \in Genres : Constate(k)
           \/ Retour \/ UNCHANGED vars
           \/ \E p \in PositionsNavette : Navette(p)
  BY <1>1, <1>5, HorsDuRobot
<1>6. QED  BY <1>2, <1>3, <1>4, <1>5 DEF Next

-----------------------------------------------------------------------------
(* The command gives a task on a product with room left, and nothing       *)
(* touches the posts until the robot has read the post.                    *)
LEMMA AvantGarde ==
    ASSUME \A j \in 1..Len(entree') :
             \/ entree'[j].type # "ordre"
             \/ \E i \in 1..Len(entree) : entree'[j] = entree[i],
           \A e \in EnMain' : e.op \in {"tache", "lireDebut"} => AvantTache(e.pos)
    PROVE  \A p \in PositionsPoste : AvantTache(p)' => AvantTache(p)
<1> SUFFICES ASSUME NEW p \in PositionsPoste, AvantTache(p)' PROVE AvantTache(p)
  OBVIOUS
<1>1. CASE \E e \in EnMain' : e.pos = p /\ e.op \in {"tache", "lireDebut"}
  BY <1>1
<1>2. CASE \E j \in 1..Len(entree') :
             entree'[j].type = "ordre" /\ entree'[j].ordre = "tache" /\ entree'[j].posA = p
  BY <1>2 DEF AvantTache
<1>3. QED  BY <1>1, <1>2 DEF AvantTache

LEMMA PossibleGarde ==
    ASSUME TachePossible, cubes' = cubes,
           \A p \in PositionsPoste : AvantTache(p)' => AvantTache(p)
    PROVE  TachePossible'
BY DEF TachePossible, AvecPlace

LEMMA AvantRobot ==
    ASSUME InvTypes, InvTravail, InvAttentes, OrdrePris, PieceEnTete, Robot
    PROVE  \A p \in PositionsPoste : AvantTache(p)' => AvantTache(p)
<1>1. RobotNext
  BY DEF Robot
<1>2. \A j \in 1..Len(entree') : \E i \in 1..Len(entree) : entree'[j] = entree[i]
  BY EntreeRobot
<1>3. ASSUME NEW g \in EnMain, g.op \in {"tache", "lireDebut"} PROVE AvantTache(g.pos)
  BY <1>3 DEF AvantTache
<1> SUFFICES ASSUME NEW x \in EnMain', x.op \in {"tache", "lireDebut"}
             PROVE  AvantTache(x.pos)
  BY <1>2, AvantGarde
<1>4. CASE EnvoyerRobot \/ EnvoyerJoints \/ DescendreBras \/ MonterBras
  <2>1. PICK f : f = Suivante
    OBVIOUS
  <2>2. Poursuit(f) /\ f.op = "consigne"
    BY <1>4, <2>1, SuitePoursuit, EffetsRpos
  <2>3. x = f
    BY <2>2, MainPoursuit
  <2>4. QED  BY <2>2, <2>3
<1>5. CASE AutreSuite
  <2>1. PICK f : f = Suivante
    OBVIOUS
  <2>2. PICK e : e = Courant
    OBVIOUS
  <2>3. Poursuit(f)
    BY <1>5, <2>1, SuitePoursuit
  <2>4. x = f
    BY <2>3, MainPoursuit
  <2>5. f.pos = e.pos /\ e.op \in {"tache", "lireDebut"}
    BY <1>5, <2>1, <2>2, <2>4, SuiteEtTache
  <2>6. e \in EnMain
    <3>1. e.op \in OpsPieces
      BY <2>5 DEF OpsPieces, Lectures
    <3>2. QED  BY <2>2, <2>3, <3>1, MainPoursuit
  <2>7. QED  BY <1>3, <2>4, <2>5, <2>6
<1>6. CASE Fin
  BY <1>6, Fins, MainTermine
<1>7. CASE Update \/ UpdateHeure
  BY <1>7, MainUpdate
<1>8. CASE SpinPrincipal \/ SpinOnce \/ FinLot \/ CallbackReponse
  BY <1>3, <1>8, MainLots
<1>9. CASE CallbackOrdre
  <2>1. /\ entree[1].type = "ordre" /\ entree[1].ordre = "tache" /\ 1 \in 1..Len(entree)
        /\ entree[1].posA = x.pos
    BY <1>9, MainOrdre
  <2>2. QED  BY <2>1 DEF AvantTache
<1>10. QED  BY <1>1, <1>4, <1>5, <1>6, <1>7, <1>8, <1>9, SortesDePas

LEMMA AvantScene ==
    ASSUME InvTypes, InvTravail, InvQuestions, InvVols, InvAttentes, InvScene,
           TachePossible, NEW c \in Canaux, Scene(c)
    PROVE  TachePossible'
<1>1. PICK m : m.type = "reponse" /\ entree' = Append(entree, m)
  BY TypesReponse
<1>2. \A j \in 1..Len(entree') :
        \/ entree'[j].type # "ordre"
        \/ \E i \in 1..Len(entree) : entree'[j] = entree[i]
  BY <1>1, EntreeAjoutee
<1>3. CASE c \notin Ecritures
  <2>1. EnMain' = EnMain /\ cubes' = cubes
    BY <1>3, SceneAutre DEF InvScene
  <2>2. \A e \in EnMain' : e.op \in {"tache", "lireDebut"} => AvantTache(e.pos)
    BY <2>1 DEF AvantTache
  <2>3. QED  BY <1>2, <2>1, <2>2, AvantGarde, PossibleGarde
<1>4. CASE c \in Ecritures
  <2>1. PICK e \in EnMain : EnMain = {e} /\ EnMain' = EnMain /\ APeindre(e)
    BY <1>4, ScenePeint DEF InvScene
  <2>2. SansOrdre
    BY MainSansTache DEF InvScene
  <2>3. \A j \in 1..Len(entree') : entree'[j].type # "ordre"
    BY <1>2, <2>2 DEF SansOrdre
  <2>4. \A x \in EnMain' : x.op \notin {"tache", "lireDebut"}
    BY <2>1 DEF APeindre, Peintures
  <2>5. \A p \in PositionsPoste : ~AvantTache(p)'
    BY <2>3, <2>4 DEF AvantTache
  <2>6. QED  BY <2>5 DEF TachePossible
<1>5. QED  BY <1>3, <1>4

LEMMA AvantOrdre ==
    ASSUME InvTypes, PieceEnTete, TachePossible, NEW m \in UNION Programmes, DonneOrdre(m)
    PROVE  TachePossible'
<1>1. m \in OrdresPossibles /\ entree' = Append(entree, m) /\ UNCHANGED <<appels, cubes>>
  BY TypesDonneOrdre, HorsDuRobot
<1>2. EnMain' = EnMain
  BY <1>1, MainLots
<1>3. m.ordre = "tache" => m.posA \in PositionsPoste
  BY <1>1 DEF OrdresPossibles
<1>4. Prudent /\ m.ordre = "tache" => AvecPlace(cubes[NomPoste(m.posA)])
  BY <1>3 DEF DonneOrdre, OrdreSense, Occupe, AvecPlace
<1>5. \A j \in 1..Len(entree') :
        entree'[j] = m \/ \E i \in 1..Len(entree) : entree'[j] = entree[i]
  BY <1>1, EntreeAjoutee
<1>6. ASSUME NEW p \in PositionsPoste, AvantTache(p)'
      PROVE  AvantTache(p) \/ (m.ordre = "tache" /\ m.posA = p)
  <2>1. CASE \E e \in EnMain' : e.pos = p /\ e.op \in {"tache", "lireDebut"}
    BY <1>2, <2>1 DEF AvantTache
  <2>2. CASE \E j \in 1..Len(entree') :
               entree'[j].type = "ordre" /\ entree'[j].ordre = "tache" /\ entree'[j].posA = p
    BY <1>5, <2>2 DEF AvantTache
  <2>3. QED  BY <1>6, <2>1, <2>2 DEF AvantTache
<1>7. QED  BY <1>1, <1>4, <1>6 DEF TachePossible, AvecPlace

LEMMA PossiblePas ==
    ASSUME InvTypes, InvTravail, InvQuestions, InvVols, InvAttentes, OrdrePris, InvScene,
           TachePossible, [Next]_vars
    PROVE  TachePossible'
<1>1. ASSUME UNCHANGED <<appels, entree, cubes>> PROVE TachePossible'
  <2>1. EnMain' = EnMain
    BY <1>1, MainLots DEF InvScene
  <2>2. \A p \in PositionsPoste : AvantTache(p)' => AvantTache(p)
    BY <1>1, <2>1 DEF AvantTache
  <2>3. QED  BY <1>1, <2>2, PossibleGarde
<1>2. CASE Robot
  <2>1. cubes' = cubes
    BY <1>2 DEF Robot, varsSimulateur
  <2>2. QED  BY <1>2, <2>1, AvantRobot, PossibleGarde DEF InvScene
<1>3. CASE \E c \in Canaux : Scene(c)
  BY <1>3, AvantScene
<1>4. CASE \E m \in UNION Programmes : DonneOrdre(m)
  BY <1>4, AvantOrdre DEF InvScene
<1>5. CASE Bras
  BY <1>1, <1>5 DEF Bras, BrasBouge, varsRobot, varsTopics
<1>6. CASE \E k \in Genres : Constate(k)
  BY <1>1, <1>6 DEF Constate, varsRobot, varsMonde, varsSimulateur, varsTopics
<1>7. CASE Retour
  BY <1>1, <1>7 DEF Retour, RetourRobotCallback, varsRobot, varsSimulateur
<1>8. CASE \E p \in PositionsNavette : Navette(p)
  BY <1>1, <1>8 DEF Navette, NavetteBouge, varsRobot, varsTopics
<1>9. CASE UNCHANGED vars
  BY <1>1, <1>9 DEF vars, varsRobot, varsMonde, varsSimulateur, varsTopics
<1>10. QED  BY <1>2, <1>3, <1>4, <1>5, <1>6, <1>7, <1>8, <1>9 DEF Next

-----------------------------------------------------------------------------
(* The task is done when nothing is left to do.  Nothing was left already: *)
LEMMA DejaFaite ==
    ASSUME TacheFaite, Prudent, NEW p \in PositionsPoste, demandes' = {TacheDe(p)},
           UNCHANGED <<cubes, demandes>>, Vacant
    PROVE  Faite(cubes[NomPoste(p)], p)'
BY DEF TacheFaite, Faite

LEMMA VacantAvant ==
    ASSUME \A i \in 1..Len(appels) :
             ~Travail(appels[i]) \/ \E j \in 1..Len(appels') : appels'[j] = appels[i],
           \A i \in 1..Len(entree) :
             entree[i].type # "ordre" \/ \E j \in 1..Len(entree') : entree'[j] = entree[i],
           tache' = tache, Vacant'
    PROVE  Vacant
<1>1. Oisif
  BY DEF Oisif, Vacant
<1>2. SansOrdre
  BY DEF SansOrdre, Vacant
<1>3. SansTache
  BY DEF SansTache, Vacant
<1>4. QED  BY <1>1, <1>2, <1>3 DEF Vacant

LEMMA FinsDeTache ==
    ASSUME Fin, Courant.op \in {"tache", "lireDebut", "peindreDebut", "update", "lireFin",
                                "peindreFin", "confirmer"}
    PROVE  TacheImpossible \/ TacheTerminee \/ DebutTask
<1>1. ~(PositionAtteinte \/ PinceDejaFaite \/ PinceFin \/ RetourFin)
  BY DEF PositionAtteinte, PinceDejaFaite, PinceFin, RetourFin, Recu, Libre, Actif, Courant
<1>2. ~(ColorerSansNavette \/ FinPrise \/ FinPose \/ EvacuerFin)
  BY DEF ColorerSansNavette, Colorer, FinPrise, FinPose, EvacuerFin, Peint, Recu, Libre, Actif,
         Courant
<1>3. ~(TacheContinue \/ InitFin \/ StopTache)
  BY DEF TacheContinue, InitFin, StopTache, Recu, Libre, Actif, Courant
<1>4. QED  BY <1>1, <1>2, <1>3 DEF Fin

(* The robot finds what the command saw: it never refuses the task. *)
LEMMA JamaisImpossible ==
    ASSUME InvTypes, InvScene, TachePossible, Prudent, TacheImpossible
    PROVE  FALSE
<1>1. PICK e : e = Courant
  OBVIOUS
<1>2. /\ appels # <<>> /\ e.op = "lireDebut" /\ Lu(e)
      /\ PosteVide(e.lues) \/ PostePlein(e.lues)
  BY <1>1 DEF TacheImpossible, Libre, Actif, Courant
<1>3. e \in EtapeType /\ EtapeJuste(e) /\ e.lues \in LuesType
  BY <1>1, <1>2, Tete DEF InvTypes
<1>4. e \in EnMain
  <2>1. e.op \in OpsPieces /\ Courant.op # "lot"
    BY <1>1, <1>2 DEF OpsPieces, Lectures
  <2>2. QED  BY <1>1, <1>2, <2>1, MainTete DEF InvScene
<1>5. e.pos \in PositionsPoste
  BY <1>2, <1>3 DEF EtapeJuste, OpsPoste
<1>6. AvecPlace(cubes[NomPoste(e.pos)])
  BY <1>2, <1>4, <1>5 DEF TachePossible, AvantTache
<1>7. e.objet = NomPoste(e.pos) /\ \A k \in 1..Len(e.lues) : e.lues[k] = cubes[e.objet][k]
  BY <1>2, <1>4, <1>5
  DEF InvScene, MainSuivie, Suivie, LieuJuste, LectureJuste, OpsLieu, Lieu, Lectures
<1>8. /\ Len(e.lues) \in 1..NB_CUBE /\ Len(e.lues) \in Nat
      /\ Len(e.lues) = NB_CUBE \/ e.lues[Len(e.lues)] = 0
  BY <1>2, <1>3, LueEntiere
<1>9. 1 \in 1..Len(e.lues) /\ NB_CUBE >= 2 /\ Len(e.lues) \in 1..Len(e.lues)
  BY <1>8, Constantes
<1>10. e.lues[1] # 0
  BY <1>6, <1>7, <1>9 DEF AvecPlace
<1>11. ~PosteVide(e.lues)
  <2>1. ASSUME NEW n, n = Len(e.lues), n = 1 PROVE FALSE
    <3>1. n # NB_CUBE
      BY <1>9, <2>1
    <3>2. e.lues[n] = 0
      BY <1>8, <2>1, <3>1
    <3>3. QED  BY <1>10, <2>1, <3>2
  <2>2. QED  BY <2>1 DEF PosteVide
<1>12. ~PostePlein(e.lues)
  BY <1>6, <1>7, <1>9 DEF AvecPlace, PostePlein
<1>13. QED  BY <1>2, <1>11, <1>12

LEMMA TerminaisonFaite ==
    ASSUME InvTypes, InvScene, InvPiles, TacheTerminee
    PROVE  /\ Courant.pos \in PositionsPoste
           /\ Faite(cubes[NomPoste(Courant.pos)], Courant.pos)
<1>1. PICK e : e = Courant
  OBVIOUS
<1>2. appels # <<>> /\ e.op = "confirmer"
  BY <1>1 DEF TacheTerminee, Recu, Actif, Courant
<1>3. EtapeJuste(e)
  BY <1>1, <1>2, Tete DEF InvTypes
<1>4. e \in EnMain
  <2>1. e.op \in OpsPieces /\ Courant.op # "lot"
    BY <1>1, <1>2 DEF OpsPieces, Lectures
  <2>2. QED  BY <1>1, <1>2, <2>1, MainTete DEF InvScene
<1>5. e.pos \in PositionsPoste
  BY <1>2, <1>3 DEF EtapeJuste, OpsPoste
<1>6. e.objet = NomPoste(e.pos)
  BY <1>2, <1>4, <1>5 DEF InvScene, MainSuivie, Suivie, LieuJuste, OpsLieu, Lieu
<1>7. Faite(cubes[e.objet], e.pos)
  BY <1>2, <1>4 DEF InvPiles, Preparee
<1>8. QED  BY <1>1, <1>5, <1>6, <1>7

LEMMA FaiteFin ==
    ASSUME InvTypes, InvTravail, InvScene, InvPiles, TachePossible, TacheFaite, Fin, Prudent,
           UNCHANGED <<cubes, demandes>>,
           NEW p \in PositionsPoste, demandes = {TacheDe(p)}, Vacant'
    PROVE  Faite(cubes[NomPoste(p)], p)'
<1>1. PICK e : e = Courant
  OBVIOUS
<1>2. /\ Termine /\ appels # <<>> /\ e.op # "lot" /\ entree' = entree
  BY <1>1, Fins DEF Termine
<1>3. e = appels[1] /\ 1 \in 1..Len(appels)
  BY <1>1, <1>2, Tete DEF InvTypes
<1>4. \A i \in 1..Len(appels) : i = 1 \/ \E j \in 1..Len(appels') : appels'[j] = appels[i]
  <2>1. /\ Len(appels) \in Nat /\ Len(appels') = Len(appels) - 1
        /\ \A j \in 1..Len(appels') : appels'[j] = appels[j + 1]
    BY <1>2, PileTermine DEF InvTypes
  <2> SUFFICES ASSUME NEW i \in 1..Len(appels), i # 1
               PROVE  \E j \in 1..Len(appels') : appels'[j] = appels[i]
    OBVIOUS
  <2>2. i - 1 \in 1..Len(appels') /\ (i - 1) + 1 = i
    BY <2>1
  <2>3. QED  BY <2>1, <2>2
<1>5. CASE ~Travail(e)
  <2>1. e.op = "verifier"
    BY <1>2, <1>5 DEF Travail
  <2>2. ~DebutTask
    BY <1>1, <2>1 DEF DebutTask, Peint, Recu, Actif, Courant
  <2>3. tache' = tache
    BY <2>2, FinsEtTaches
  <2>4. \A i \in 1..Len(appels) :
          ~Travail(appels[i]) \/ \E j \in 1..Len(appels') : appels'[j] = appels[i]
    BY <1>3, <1>4, <1>5
  <2>5. Vacant
    BY <1>2, <2>3, <2>4, VacantAvant
  <2>6. QED  BY <2>5, DejaFaite
<1>6. CASE Travail(e)
  <2>1. EtapeDe(TacheDe(p), e)
    <3>1. PICK g \in Genres : demandes = {g} /\ EtapeDe(g, e)
      BY <1>3, <1>6 DEF InvTravail, InvEtapes, EtapesAttendues
    <3>2. g = TacheDe(p)
      BY <3>1
    <3>3. QED  BY <3>1, <3>2
  <2>2. TacheDe(p) \in {"tache1", "tache4"} /\ PosteDe(TacheDe(p)) = p
    BY DEF TacheDe, PosteDe, PositionsPoste
  <2>3. e.op \in {"tache", "lireDebut", "peindreDebut", "update", "lireFin",
                  "peindreFin", "confirmer"}
    BY <2>1, <2>2, OpsDuGenre DEF EtapeDe
  <2>4. CASE TacheImpossible
    BY <2>4, JamaisImpossible
  <2>5. CASE TacheTerminee
    <3>1. e.op = "confirmer"
      BY <1>1, <2>5 DEF TacheTerminee, Recu, Actif, Courant
    <3>2. e.pos = p
      BY <2>1, <2>2, <3>1 DEF EtapeDe
    <3>3. Faite(cubes[NomPoste(p)], p)
      BY <1>1, <2>5, <3>2, TerminaisonFaite
    <3>4. QED  BY <3>3 DEF Faite
  <2>6. CASE DebutTask
    <3>1. Courant.pos \in PositionsPoste /\ tache' = [tache EXCEPT ![Courant.pos] = TRUE]
      BY <2>6, DebutDeTache DEF InvTypes
    <3>2. tache \in [PositionsPoste -> BOOLEAN]
      BY DEF InvTypes, TypesMemoire
    <3>3. tache'[Courant.pos]
      BY <3>1, <3>2
    <3>4. QED  BY <3>1, <3>3 DEF Vacant, SansTache
  <2>7. QED  BY <1>1, <2>3, <2>4, <2>5, <2>6, FinsDeTache
<1>7. QED  BY <1>5, <1>6

LEMMA FaiteRobot ==
    ASSUME InvTypes, InvTravail, InvAttentes, OrdrePris, InvScene, InvPiles,
           InvTaches, Robot, Prudent,
           NEW p \in PositionsPoste, demandes' = {TacheDe(p)}, Vacant'
    PROVE  Faite(cubes[NomPoste(p)], p)'
<1>1. RobotNext /\ UNCHANGED <<cubes, demandes>>
  BY DEF Robot, varsSimulateur
<1>2. ASSUME NEW i \in 1..Len(appels'), Travail(appels'[i]) PROVE FALSE
  BY <1>2 DEF Vacant, Oisif
<1>3. CASE EnvoyerRobot \/ EnvoyerJoints \/ DescendreBras \/ MonterBras \/ AutreSuite
  <2>1. PICK f : f = Suivante
    OBVIOUS
  <2>2. Poursuit(f)
    BY <1>3, <2>1, SuitePoursuit
  <2>3. appels'[1] = f /\ Travail(f) /\ 1 \in 1..Len(appels')
    BY <2>2, PilePoursuit DEF InvTypes, Poursuit
  <2>4. QED  BY <1>2, <2>3
<1>4. CASE Fin
  BY <1>1, <1>4, FaiteFin DEF InvTaches
<1>5. CASE Update
  <2>1. appels'[1].op = "update" /\ Len(appels') = 1
    BY <1>5, UpdateSuite DEF InvTypes
  <2>2. QED  BY <1>2, <2>1 DEF Travail
<1>6. CASE UpdateHeure
  <2>1. appels # <<>> /\ Courant.op = "update" /\ tache' = tache
    BY <1>6, UpdateHeureSuite DEF InvTypes
  <2>2. UpdatePresent
    BY <2>1, Tete DEF InvTypes, UpdatePresent
  <2>3. ~SansTache'
    BY <2>1, <2>2 DEF InvTaches, UpdateUtile, SansTache
  <2>4. QED  BY <2>3 DEF Vacant
<1>7. CASE SpinPrincipal \/ SpinOnce
  <2>1. PrendLot
    BY <1>7 DEF SpinPrincipal, SpinOnce
  <2>2. /\ \A i \in 1..Len(appels) : i + 1 \in 1..Len(appels') /\ appels'[i + 1] = appels[i]
        /\ entree' = entree /\ tache' = tache
    BY <2>1, PrendLotSuite DEF InvTypes, varsTopics, varsMemoire
  <2>3. Vacant
    BY <2>2, VacantAvant
  <2>4. QED  BY <1>1, <2>3, DejaFaite DEF InvTaches
<1>8. CASE FinLot
  <2>1. /\ appels # <<>> /\ appels[1].op = "lot"
        /\ Len(appels') = Len(appels) - 1 /\ Len(appels) \in Nat
        /\ \A i \in 1..Len(appels') : appels'[i] = appels[i + 1]
        /\ entree' = entree /\ tache' = tache
    BY <1>8, FinLotSuite DEF InvTypes, varsTopics
  <2>2. ASSUME NEW i \in 1..Len(appels), i # 1
        PROVE  \E j \in 1..Len(appels') : appels'[j] = appels[i]
    <3>1. i - 1 \in 1..Len(appels') /\ (i - 1) + 1 = i
      BY <2>1, <2>2
    <3>2. QED  BY <2>1, <3>1
  <2>3. ~Travail(appels[1])
    BY <2>1 DEF Travail
  <2>4. Vacant
    BY <2>1, <2>2, <2>3, VacantAvant
  <2>5. QED  BY <1>1, <2>4, DejaFaite DEF InvTaches
<1>9. CASE CallbackReponse
  <2>1. /\ appels' = appels /\ tache' = tache /\ lot > 0 /\ Head(entree).type = "reponse"
        /\ entree' = Tail(entree)
    BY <1>9, CallbackReponseSuite DEF InvTypes
  <2>2. /\ Head(entree) = entree[1] /\ Len(entree') = Len(entree) - 1 /\ Len(entree) \in Nat
        /\ \A j \in 1..Len(entree') : entree'[j] = entree[j + 1]
    BY <2>1, EntreeLue DEF InvTypes
  <2>3. ASSUME NEW i \in 1..Len(entree), entree[i].type = "ordre"
        PROVE  \E j \in 1..Len(entree') : entree'[j] = entree[i]
    <3>1. i - 1 \in 1..Len(entree') /\ (i - 1) + 1 = i
      BY <2>1, <2>2, <2>3
    <3>2. QED  BY <2>2, <3>1
  <2>4. Vacant
    BY <2>1, <2>3, VacantAvant
  <2>5. QED  BY <1>1, <2>4, DejaFaite DEF InvTaches
<1>10. CASE CallbackOrdre
  <2>1. PICK m : m = Head(entree)
    OBVIOUS
  <2>2. /\ m.type = "ordre" /\ m = entree[1] /\ 1 \in 1..Len(entree)
        /\ m.ordre = "tache" => \E e \in EnMain' : e.op = "tache"
    BY <1>10, <2>1, MainOrdre
  <2>3. Genre(m) = TacheDe(p)
    BY <1>1, <2>2 DEF InvTravail, InvOrdre, OrdreEnRoute
  <2>4. m.ordre = "tache"
    BY <2>3 DEF Genre, TacheDe
  <2>5. PICK i \in 1..Len(appels') : appels'[i].op = "tache"
    BY <2>2, <2>4, MainDe
  <2>6. QED  BY <1>2, <2>5 DEF Travail
<1>11. QED
  BY <1>1, <1>3, <1>4, <1>5, <1>6, <1>7, <1>8, <1>9, <1>10, SortesDePas

LEMMA FaitePas ==
    ASSUME InvTypes, InvTravail, InvQuestions, InvVols, InvAttentes, DemandeSeule, OrdrePris,
           InvScene, InvPiles, InvTaches, [Next]_vars
    PROVE  TacheFaite'
<1> SUFFICES ASSUME Prudent, NEW p \in PositionsPoste, demandes' = {TacheDe(p)}, Vacant'
             PROVE  Faite(cubes[NomPoste(p)], p)'
  BY DEF TacheFaite
<1>1. ASSUME UNCHANGED <<appels, entree, tache, cubes, demandes>>
      PROVE  Faite(cubes[NomPoste(p)], p)'
  <2>1. Vacant
    BY <1>1, VacantAvant
  <2>2. QED  BY <1>1, <2>1, DejaFaite DEF InvTaches
<1>2. CASE Robot
  BY <1>2, FaiteRobot
<1>3. CASE \E c \in Canaux : Scene(c)
  <2>1. PICK c \in Canaux : Scene(c)
    BY <1>3
  <2>2. PICK m : entree' = Append(entree, m)
    BY <2>1, TypesReponse
  <2>3. \A i \in 1..Len(entree) : i \in 1..Len(entree') /\ entree'[i] = entree[i]
    BY <2>2, EntreeAjoutee
  <2>4. UNCHANGED <<appels, tache, demandes>>
    BY <2>1, TypesReponse DEF varsRobot, varsMemoire
  <2>5. Vacant
    BY <2>3, <2>4, VacantAvant
  <2>6. EnMain = {}
    <3> SUFFICES ASSUME NEW e \in EnMain PROVE FALSE
      OBVIOUS
    <3>1. ~Oisif
      BY MainSansTache DEF InvScene
    <3>2. QED  BY <2>5, <3>1 DEF Vacant
  <2>7. c \notin Ecritures
    BY <2>1, <2>6, ScenePeint DEF InvScene
  <2>8. cubes' = cubes
    BY <2>1, <2>7, SceneAutre DEF InvScene
  <2>9. QED  BY <2>4, <2>5, <2>8, DejaFaite DEF InvTaches
<1>4. CASE \E m \in UNION Programmes : DonneOrdre(m)
  <2>1. PICK m : m.type = "ordre" /\ entree' = Append(entree, m)
    BY <1>4, TypesDonneOrdre
  <2>2. ~SansOrdre'
    <3>1. Len(entree) + 1 \in 1..Len(entree') /\ entree'[Len(entree) + 1] = m
      BY <2>1, EntreeAjoutee
    <3>2. QED  BY <2>1, <3>1 DEF SansOrdre
  <2>3. QED  BY <2>2 DEF Vacant
<1>5. CASE Bras
  BY <1>1, <1>5 DEF Bras, BrasBouge, varsRobot, varsTopics, varsMemoire
<1>6. CASE \E k \in Genres : Constate(k)
  <2>1. PICK k \in Genres : k \in demandes /\ demandes' = demandes \ {k}
    BY <1>6 DEF Constate
  <2>2. demandes' = {}
    BY <2>1 DEF DemandeSeule
  <2>3. QED  BY <2>2
<1>7. CASE Retour
  BY <1>1, <1>7 DEF Retour, RetourRobotCallback, varsRobot, varsSimulateur, varsMemoire
<1>8. CASE \E q \in PositionsNavette : Navette(q)
  BY <1>1, <1>8 DEF Navette, NavetteBouge, varsRobot, varsTopics, varsMemoire
<1>9. CASE UNCHANGED vars
  BY <1>1, <1>9 DEF vars, varsRobot, varsMonde, varsSimulateur, varsTopics, varsMemoire
<1>10. QED  BY <1>2, <1>3, <1>4, <1>5, <1>6, <1>7, <1>8, <1>9 DEF Next

LEMMA TachesPas ==
    ASSUME InvTypes, InvTravail, InvQuestions, InvVols, InvAttentes, DemandeSeule, OrdrePris,
           InvScene, InvPiles, InvTaches, [Next]_vars
    PROVE  InvTaches'
BY UpdatePas, PossiblePas, FaitePas DEF InvTaches

LEMMA TachesInit ==
    ASSUME Init, InvTypes
    PROVE  InvTaches
<1>1. SansTache /\ demandes = {} /\ Len(entree) = 0 /\ EnMain = {}
  <2>1. entree = <<>>
    BY DEF Init, InitTopics
  <2>2. QED  BY <2>1, EmptySeq, RienEnMain DEF Init, InitRobot, SansTache
<1>2. UpdateUtile
  <2>1. Len(appels) = 1 /\ appels[1] = Etape("init", 0, 0)
    <3>1. appels = <<Etape("init", 0, 0)>>
      BY DEF Init, InitRobot
    <3>2. QED  BY ONLY <3>1
  <2>2. appels[1].op = "init"
    <3>1. "init" \in Ops /\ 0 \in 0..4 /\ 0 \in 0..10
      BY DEF Ops
    <3>2. QED  BY <2>1, <3>1, EtapeLue
  <2>3. ~UpdatePresent
    BY <2>1, <2>2 DEF UpdatePresent
  <2>4. QED  BY <2>3 DEF UpdateUtile
<1>3. TachePossible
  BY <1>1 DEF TachePossible, AvantTache
<1>4. TacheFaite
  BY <1>1 DEF TacheFaite
<1>5. QED  BY <1>2, <1>3, <1>4 DEF InvTaches

LEMMA TachesToujours ==
    UneALaFois /\ SceneNeuve => (Spec => [](InvPieces /\ InvTaches))
<1> SUFFICES ASSUME UneALaFois, SceneNeuve PROVE Spec => [](InvPieces /\ InvTaches)
  OBVIOUS
<1>1. Spec => []InvPieces
  BY PiecesToujours
<1>2. ASSUME Init, InvPieces PROVE InvTaches
  BY <1>2, TachesInit DEF InvPieces, InvRobot, Inv
<1>3. ASSUME InvPieces, InvTaches, [Next]_vars PROVE InvTaches'
  BY <1>3, TachesPas DEF InvPieces, InvRobot, Inv
<1>4. QED  BY <1>1, <1>2, <1>3, PTL DEF Spec

LEMMA TacheSignalee ==
    ASSUME InvPieces, InvTaches, Prudent
    PROVE  TacheFinieExacte
<1> SUFFICES ASSUME NEW p \in PositionsPoste, TacheDe(p) \in demandes, TacheFinie(p) = 1
             PROVE  /\ ~tache[p]
                    /\ \E i \in 1..NB_CUBE : cubes[NomPoste(p)][i] = CouleurTache(p)
                    /\ \A i \in 1..NB_CUBE : cubes[NomPoste(p)][i] # CouleurEnCours(p)
  BY DEF TacheFinieExacte, TacheDe
<1>1. demandes = {TacheDe(p)}
  BY DEF InvPieces, InvRobot, DemandeSeule
<1>2. TacheDe(p) \in Signales /\ Signale(TacheDe(p))
  BY DEF Signales, Signale, TacheDe, PosteDe, TacheFinie, PositionsPoste
<1>3. Vacant
  <2>1. ~Initialise
    BY <1>1 DEF Initialise
  <2>2. \A g \in Genres : ~EnCours(g)
    <3> SUFFICES ASSUME NEW g \in Genres, EnCours(g) PROVE FALSE
      OBVIOUS
    <3>1. g = TacheDe(p)
      BY <1>1 DEF EnCours
    <3>2. QED  BY <1>2, <3>1 DEF EnCours
  <2>3. QED  BY <2>1, <2>2 DEF InvPieces, InvRobot, Inv, InvTravail, InvFins, UnTravail
<1>4. Faite(cubes[NomPoste(p)], p)
  BY <1>1, <1>3 DEF InvTaches, TacheFaite
<1>5. ~tache[p]
  BY <1>3 DEF Vacant, SansTache
<1>6. EnMain = {}
  <2> SUFFICES ASSUME NEW e \in EnMain PROVE FALSE
    OBVIOUS
  <2>1. ~Oisif
    BY MainSansTache DEF InvPieces, InvRobot, Inv, InvScene
  <2>2. QED  BY <1>3, <2>1 DEF Vacant
<1>7. \A q \in PositionsPoste : ~Entame(q)
  BY <1>3, <1>6 DEF Entame, Vacant, SansTache
<1>8. Saine(cubes[NomPoste(p)])
  BY <1>7, Constantes DEF InvPieces, InvPiles
<1>9. \A i \in 1..NB_CUBE : cubes[NomPoste(p)][i] # CouleurEnCours(p)
  BY <1>8, CouleursDistinctes DEF Saine
<1>10. QED  BY <1>4, <1>5, <1>9 DEF Faite

(* When orders are given one at a time and the command looks before it     *)
(* gives a task, what TacheFinie reports is true: the post shows the       *)
(* finished cube, none is half done, and the node holds no task there      *)
(* (faireTacheCallback, update and colorerPosteFinTask of robots.cpp, the  *)
(* returns 8 and 9 read by robotsInterface.cpp).                           *)
THEOREM TacheToujoursFinie ==
    UneALaFois /\ SceneNeuve /\ Prudent => (Spec => []TacheFinieExacte)
<1> SUFFICES ASSUME UneALaFois, SceneNeuve, Prudent PROVE Spec => []TacheFinieExacte
  OBVIOUS
<1>1. InvPieces /\ InvTaches => TacheFinieExacte
  BY TacheSignalee
<1>2. QED  BY <1>1, TachesToujours, PTL

-----------------------------------------------------------------------------
(* The products.  At a prise the gripper is empty, and one step at most    *)
(* puts a piece down.                                                      *)
OpsPrise == {"prise", "lirePrise", "peindrePrise"}
OpsPose == {"pose", "lirePose", "peindrePose"}

LEMMA RangPiece ==
    ASSUME InvTypes, InvTravail, InvMouvement, NEW i \in 1..Len(appels),
           appels[i].op \in OpsPrise \cup OpsPose
    PROVE  /\ demandes = {"deplacer"} /\ SansOrdre
           /\ Len(appels) - i = IF appels[i].op \in OpsPrise THEN 9 ELSE 4
<1>1. Travail(appels[i])
  BY DEF Travail, OpsPrise, OpsPose
<1>2. demandes = {"deplacer"}
  <2>1. appels[i].op # "init"
    BY DEF OpsPrise, OpsPose
  <2>2. PICK g \in Genres : demandes = {g} /\ EtapeDe(g, appels[i])
    BY <1>1, <2>1 DEF InvTravail, InvEtapes, EtapesAttendues
  <2>3. appels[i].op \in OpsDe(g)
    BY <2>2 DEF EtapeDe
  <2>4. g = "deplacer"
    BY <2>3, OpsDuGenre DEF OpsPrise, OpsPose, Genres
  <2>5. QED  BY <2>2, <2>4
<1>3. ~Oisif
  BY <1>1 DEF Oisif
<1>4. PICK A \in Positions, B \in Positions : Deroule(A, B)
  BY <1>2, <1>3, TravailDuDeplacer DEF InvMouvement
<1>5. SansOrdre
  BY <1>2, <1>3, TravailDuDeplacer DEF InvMouvement
<1>6. \/ Tenue(A, B, Len(appels) - i, appels[i].op, appels[i].pos, Rpos)
      \/ Intacte(A, B, Len(appels) - i, appels[i].op, appels[i].pos)
  BY <1>1, <1>4 DEF Deroule, Travail
<1>7. Len(appels) - i = IF appels[i].op \in OpsPrise THEN 9 ELSE 4
  <2>1. PICK o : o = appels[i].op
    OBVIOUS
  <2>2. PICK r : r = Len(appels) - i
    OBVIOUS
  <2>3. CASE Tenue(A, B, r, o, appels[i].pos, Rpos)
    BY <2>1, <2>2, <2>3 DEF Tenue, OpsPrise, OpsPose
  <2>4. CASE Intacte(A, B, r, o, appels[i].pos)
    BY <2>1, <2>2, <2>4 DEF Intacte, OpsPrise, OpsPose
  <2>5. QED  BY <1>6, <2>1, <2>2, <2>3, <2>4
<1>8. QED  BY <1>2, <1>5, <1>7

LEMMA PoseSeule ==
    ASSUME InvTypes, InvTravail, InvMouvement,
           NEW i \in 1..Len(appels), NEW j \in 1..Len(appels),
           appels[i].op \in OpsPose, appels[j].op \in OpsPose
    PROVE  i = j
<1>1. Len(appels) - i = 4 /\ Len(appels) - j = 4
  BY RangPiece DEF OpsPrise, OpsPose
<1>2. Len(appels) \in Nat
  <2>1. appels \in Seq(EtapeType)
    BY DEF InvTypes, TypesFiles
  <2>2. QED  BY <2>1
<1>3. QED  BY <1>1, <1>2

LEMMA PriseVide ==
    ASSUME InvTypes, InvTravail, InvMouvement, NEW i \in 1..Len(appels), AuTravail(i),
           appels[i].op \in OpsPrise
    PROVE  couleur_transportee = SansCube
<1>1. Len(appels) - i = 9
  BY RangPiece
<1>2. SUFFICES ASSUME couleur_transportee # SansCube PROVE FALSE
  OBVIOUS
<1>3. PICK j \in 1..Len(appels) :
        AuTravail(j) /\ Travail(appels[j]) /\ Len(appels) - j \in 4..8
  BY <1>2 DEF InvMouvement, PinceVide
<1>4. Travail(appels[i])
  BY DEF Travail, OpsPrise
<1>5. i = j
  BY <1>3, <1>4 DEF AuTravail, Travail
<1>6. QED  BY <1>1, <1>3, <1>5

(* A writing begins with the reading that goes before it. *)
LEMMA PeintureVient ==
    ASSUME InvTypes, NEW f, f = Suivante, NEW e, e = Courant, AutreSuite, f.op \in Peintures
    PROVE  /\ ColorerPeint \/ TacheColore \/ FinTask \/ EvacuerEfface
           /\ e.op \in Lectures /\ f.lues = e.lues /\ Lu(e)
           /\ f.op = "peindrePrise" => e.op = "lirePrise"
           /\ f.op = "peindrePose" => e.op = "lirePose"
           /\ f.op = "peindreEvac" => EvacuerEfface
<1>1. CASE ConsigneRecue \/ PositionNonAtteinte \/ PinceCommande \/ PinceAttend \/ InitDemande
  <2>1. f.op \in {"sonder", "pince", "serrage", "init"}
    BY <1>1, EffetsMouvement DEF Vers, Fiche1
  <2>2. QED  BY <2>1 DEF Peintures
<1>2. CASE ColorerNavette \/ ColorerPoste \/ TacheHeure \/ Evacuer \/ TacheEchue
  <2>1. f.op \in {"lirePrise", "lirePose", "lireDebut", "lireEvac", "lireFin"}
    BY <1>2, EffetsLectures DEF Debute, LectureDe, Fiche1
  <2>2. QED  BY <2>1 DEF Peintures
<1>3. CASE LireCouleur \/ CouleurRecue
  <2>1. f.op \in Lectures
    BY <1>3, EffetsLectures DEF Vers, Fiche1
  <2>2. QED  BY <2>1 DEF Peintures, Lectures
<1>4. CASE FinTaskPeint \/ FaireTache \/ Confirmer \/ PasEncoreCouleur
  <2>1. f.op \in {"tache", "confirmer"}
    BY <1>4, EffetsTaches DEF Vers, Fiche1
  <2>2. QED  BY <2>1 DEF Peintures
<1>5. CASE ColorerPeint
  <2>1. /\ \/ e.op = "lirePrise" /\ f.op = "peindrePrise"
           \/ e.op = "lirePose" /\ f.op = "peindrePose"
        /\ f.lues = e.lues /\ Lu(e)
    BY <1>5, EffetsPeintures DEF Peinture, Fiche1
  <2>2. QED  BY <1>5, <2>1 DEF Lectures
<1>6. CASE TacheColore
  <2>1. e.op = "lireDebut" /\ f.op = "peindreDebut" /\ f.lues = e.lues /\ Lu(e)
    BY <1>6, EffetsPeintures DEF Peinture, Fiche1
  <2>2. QED  BY <1>6, <2>1 DEF Lectures
<1>7. CASE FinTask
  <2>1. e.op = "lireFin" /\ f.op = "peindreFin" /\ f.lues = e.lues /\ Lu(e)
    BY <1>7, EffetsPeintures DEF Peinture, Fiche1
  <2>2. QED  BY <1>7, <2>1 DEF Lectures
<1>8. CASE EvacuerEfface
  <2>1. e.op = "lireEvac" /\ f.op = "peindreEvac" /\ f.lues = e.lues /\ Lu(e)
    BY <1>8, EffetsPeintures DEF Peinture, Fiche1
  <2>2. QED  BY <1>8, <2>1 DEF Lectures
<1>9. QED  BY <1>1, <1>2, <1>3, <1>4, <1>5, <1>6, <1>7, <1>8 DEF AutreSuite

(* How the step goes on when it puts a piece down, or is about to. *)
LEMMA SuitePose ==
    ASSUME InvTypes, InvTravail, InvAttentes, NEW f, f = Suivante, NEW e, e = Courant,
           AutreSuite
    PROVE  /\ f.op = "pose" => e.op = "pose"
           /\ f.op = "lirePose" => e.op \in {"pose", "lirePose"}
           /\ f.op = "peindrePose" => e.op = "lirePose"
<1>1. appels # <<>>
  BY SuitePoursuit DEF Poursuit
<1>2. AttenteJuste(e)
  BY <1>1, Tete DEF InvTypes, InvAttentes
<1>3. e.op = "verifier" \/ Mene(e.op, f.op)
  BY <1>2, Suites
<1>4. e.op = "verifier" => f.op = "lireFin"
  <2>1. e.op = "verifier" => TacheEchue
    <3>1. SuiteDuRobot => e.op # "verifier"
      BY SuitesDuRobot DEF MemeSuite, MemeTravail, Travail
    <3>2. QED  BY <3>1 DEF AutreSuite, SuiteDuRobot
  <2>2. QED  BY <2>1, EffetsLectures DEF Debute
<1>5. f.op = "peindrePose" => e.op = "lirePose"
  BY PeintureVient DEF Peintures
<1>6. QED  BY <1>3, <1>4, <1>5 DEF Mene

-----------------------------------------------------------------------------
(* Where a piece is to be put, from the order to the writing.  A command   *)
(* that looks before it moves a piece finds the place empty, and so does   *)
(* the robot.                                                              *)
Destination(p) ==
    \/ \E i \in 1..Len(entree) :
         entree[i].type = "ordre" /\ entree[i].ordre = "deplacer" /\ entree[i].posB = p
    \/ \E i \in 1..Len(appels) : appels[i].op = "pose" /\ appels[i].pos = p
    \/ \E e \in EnMain :
         e.pos = p /\ (e.op = "lirePose" \/ (e.op = "peindrePose" /\ APeindre(e)))
DestinationVide == Prudent => \A p \in Positions : Destination(p) => Vide(p)

LEMMA DestinationGarde ==
    ASSUME \A j \in 1..Len(entree') :
             \/ entree'[j].type # "ordre"
             \/ \E i \in 1..Len(entree) : entree'[j] = entree[i],
           \A j \in 1..Len(appels') : appels'[j].op = "pose" => Destination(appels'[j].pos),
           \A e \in EnMain' : e.op = "lirePose" \/ (e.op = "peindrePose" /\ APeindre(e)')
                                => Destination(e.pos)
    PROVE  \A p : Destination(p)' => Destination(p)
<1> SUFFICES ASSUME NEW p, Destination(p)' PROVE Destination(p)
  OBVIOUS
<1>1. CASE \E e \in EnMain' :
             e.pos = p /\ (e.op = "lirePose" \/ (e.op = "peindrePose" /\ APeindre(e)'))
  BY <1>1
<1>2. CASE \E j \in 1..Len(entree') :
             entree'[j].type = "ordre" /\ entree'[j].ordre = "deplacer" /\ entree'[j].posB = p
  BY <1>2 DEF Destination
<1>3. CASE \E j \in 1..Len(appels') : appels'[j].op = "pose" /\ appels'[j].pos = p
  BY <1>3
<1>4. QED  BY <1>1, <1>2, <1>3 DEF Destination

LEMMA DestinationOrdre ==
    ASSUME InvTypes, InvTravail, NEW p, Destination(p)
    PROVE  demandes = {"deplacer"}
<1>1. CASE \E i \in 1..Len(entree) : entree[i].type = "ordre" /\ entree[i].ordre = "deplacer"
  <2>1. PICK i \in 1..Len(entree) : entree[i].type = "ordre" /\ entree[i].ordre = "deplacer"
    BY <1>1
  <2>2. demandes = {Genre(entree[i])}
    BY <2>1 DEF InvTravail, InvOrdre, OrdreEnRoute
  <2>3. QED  BY <2>1, <2>2 DEF Genre
<1>2. ASSUME NEW i \in 1..Len(appels), appels[i].op \in OpsPose PROVE demandes = {"deplacer"}
  <2>1. Travail(appels[i]) /\ appels[i].op # "init"
    BY <1>2 DEF Travail, OpsPose
  <2>2. PICK g \in Genres : demandes = {g} /\ appels[i].op \in OpsDe(g)
    BY <2>1 DEF InvTravail, InvEtapes, EtapesAttendues, EtapeDe
  <2>3. g = "deplacer"
    BY <1>2, <2>2, OpsDuGenre DEF OpsPose, Genres
  <2>4. QED  BY <2>2, <2>3
<1>3. CASE \E i \in 1..Len(appels) : appels[i].op = "pose"
  BY <1>2, <1>3 DEF OpsPose
<1>4. CASE \E e \in EnMain : e.op \in {"lirePose", "peindrePose"}
  BY <1>2, <1>4, MainDe DEF OpsPose
<1>5. QED  BY <1>1, <1>3, <1>4 DEF Destination

LEMMA DestinationRobot ==
    ASSUME InvTypes, InvTravail, InvAttentes, OrdrePris, PieceEnTete, Robot
    PROVE  \A p : Destination(p)' => Destination(p)
<1>1. RobotNext
  BY DEF Robot
<1>2. \A j \in 1..Len(entree') :
        \/ entree'[j].type # "ordre"
        \/ \E i \in 1..Len(entree) : entree'[j] = entree[i]
  BY EntreeRobot
<1>3. \A i \in 1..Len(appels) : appels[i].op = "pose" => Destination(appels[i].pos)
  BY DEF Destination
<1>4. \A e \in EnMain : e.op = "lirePose" \/ (e.op = "peindrePose" /\ APeindre(e))
                          => Destination(e.pos)
  BY DEF Destination
<1>5. CASE EnvoyerRobot \/ EnvoyerJoints \/ DescendreBras \/ MonterBras
  <2>1. PICK f : f = Suivante
    OBVIOUS
  <2>2. Poursuit(f) /\ f.op = "consigne"
    BY <1>5, <2>1, SuitePoursuit, EffetsRpos
  <2>3. /\ Len(appels') = Len(appels) /\ appels'[1] = f
        /\ \A i \in 2..Len(appels) : appels'[i] = appels[i]
        /\ Len(appels) \in Nat
    BY <2>2, PilePoursuit DEF InvTypes
  <2>4. \A i \in 1..Len(appels) : i = 1 \/ i \in 2..Len(appels)
    BY <2>3
  <2>5. \A i \in 1..Len(appels') : appels'[i].op = "pose" => Destination(appels'[i].pos)
    BY <1>3, <2>2, <2>3, <2>4
  <2>6. \A x \in EnMain' : x = f
    BY <2>2, MainPoursuit
  <2>7. QED  BY <1>2, <2>2, <2>5, <2>6, DestinationGarde
<1>6. CASE AutreSuite
  <2>1. PICK f : f = Suivante
    OBVIOUS
  <2>2. PICK e : e = Courant
    OBVIOUS
  <2>3. Poursuit(f)
    BY <1>6, <2>1, SuitePoursuit
  <2>4. e = appels[1] /\ 1 \in 1..Len(appels)
    BY <2>2, <2>3, Tete DEF InvTypes, Poursuit
  <2>5. /\ f.pos = e.pos
        /\ f.op = "pose" => e.op = "pose"
        /\ f.op = "lirePose" => e.op \in {"pose", "lirePose"}
        /\ f.op = "peindrePose" => e.op = "lirePose"
    BY <1>6, <2>1, <2>2, SuitePose, SuiteEtTache
  <2>6. /\ Len(appels') = Len(appels) /\ appels'[1] = f
        /\ \A i \in 2..Len(appels) : appels'[i] = appels[i]
        /\ Len(appels) \in Nat
    BY <2>3, PilePoursuit DEF InvTypes
  <2>7. \A i \in 1..Len(appels) : i = 1 \/ i \in 2..Len(appels)
    BY <2>6
  <2>8. e.op = "pose" => Destination(e.pos)
    BY <1>3, <2>4
  <2>9. e.op = "lirePose" => Destination(e.pos)
    <3>1. e.op = "lirePose" => e \in EnMain
      BY <2>4, MainDe DEF OpsPieces, Lectures
    <3>2. QED  BY <1>4, <3>1
  <2>10. \A i \in 1..Len(appels') : appels'[i].op = "pose" => Destination(appels'[i].pos)
    BY <1>3, <2>5, <2>6, <2>7, <2>8
  <2>11. \A x \in EnMain' : x = f
    BY <2>3, MainPoursuit
  <2>12. \A x \in EnMain' : x.op \in {"lirePose", "peindrePose"} => Destination(x.pos)
    BY <2>5, <2>8, <2>9, <2>11
  <2>13. QED  BY <1>2, <2>10, <2>12, DestinationGarde
<1>7. CASE Fin
  <2>1. /\ Termine /\ EnMain' = {}
        /\ \A i \in 1..Len(appels') : i + 1 \in 1..Len(appels) /\ appels'[i] = appels[i + 1]
    BY <1>7, Fins, PileTermine, MainTermine DEF InvTypes
  <2>2. QED  BY <1>2, <1>3, <2>1, DestinationGarde
<1>8. CASE Update
  <2>1. EnMain' = {} /\ Len(appels') = 1 /\ appels'[1].op = "update"
    BY <1>8, MainUpdate, UpdateSuite DEF InvTypes
  <2>2. \A i \in 1..Len(appels') : appels'[i].op = "update"
    BY <2>1
  <2>3. QED  BY <1>2, <2>1, <2>2, DestinationGarde
<1>9. CASE UpdateHeure
  <2>1. /\ EnMain' = {} /\ Len(appels) \in Nat
        /\ \A i \in 1..2 : appels'[i].op = "verifier"
        /\ \A i \in 1..Len(appels') :
             i \in 1..2 \/ \E j \in 2..Len(appels) : appels'[i] = appels[j]
    BY <1>9, MainUpdate, UpdateHeureSuite DEF InvTypes
  <2>2. \A j \in 2..Len(appels) : j \in 1..Len(appels)
    BY <2>1
  <2>3. \A i \in 1..Len(appels') : appels'[i].op = "pose" => Destination(appels'[i].pos)
    BY <1>3, <2>1, <2>2
  <2>4. QED  BY <1>2, <2>1, <2>3, DestinationGarde
<1>10. CASE SpinPrincipal \/ SpinOnce \/ FinLot \/ CallbackReponse
  <2>1. EnMain' = EnMain /\ requetes' = requetes
    BY <1>10, MainLots DEF SpinPrincipal, SpinOnce, PrendLot, FinLot, CallbackReponse, varsTopics
  <2>2. \A i \in 1..Len(appels') :
          appels'[i].op = "lot" \/ \E j \in 1..Len(appels) : appels'[i] = appels[j]
    <3>1. CASE SpinPrincipal \/ SpinOnce
      <4>1. PrendLot
        BY <3>1 DEF SpinPrincipal, SpinOnce
      <4>2. QED  BY <4>1, PrendLotSuite, LotJuste DEF InvTypes
    <3>2. CASE FinLot
      BY <3>2, FinLotSuite DEF InvTypes
    <3>3. CASE CallbackReponse
      BY <3>3 DEF CallbackReponse
    <3>4. QED  BY <1>10, <3>1, <3>2, <3>3
  <2>3. \A i \in 1..Len(appels') : appels'[i].op = "pose" => Destination(appels'[i].pos)
    BY <1>3, <2>2
  <2>4. \A e : APeindre(e)' <=> APeindre(e)
    BY <2>1 DEF APeindre
  <2>5. QED  BY <1>2, <1>4, <2>1, <2>3, <2>4, DestinationGarde
<1>11. CASE CallbackOrdre
  <2>1. PICK m : m = Head(entree)
    OBVIOUS
  <2>2. /\ m.type = "ordre" /\ m = entree[1] /\ 1 \in 1..Len(entree)
        /\ \A x \in EnMain' : x.op = "tache"
    BY <1>11, <2>1, MainOrdre
  <2>3. m \in OrdresPossibles /\ EtapesDOrdre(Genre(m), Callback(m)) /\ Genre(m) \in Genres
    BY <1>11, <2>1, CallbackOrdreSuite DEF InvTypes
  <2>4. PICK s : s = Callback(m)
    OBVIOUS
  <2>5. \A i \in 1..Len(appels') :
          \/ i \in 1..Len(s) /\ appels'[i] = s[i]
          \/ \E j \in 1..Len(appels) : appels'[i] = appels[j]
    BY <1>11, <2>1, <2>4, PileOrdre
  <2>6. ASSUME NEW i \in 1..Len(s), s[i].op = "pose" PROVE Destination(s[i].pos)
    <3>1. EtapeDe(Genre(m), s[i])
      BY <2>3, <2>4 DEF EtapesDOrdre, EtapeDOrdre
    <3>2. "pose" \in OpsDe(Genre(m))
      BY <2>6, <3>1 DEF EtapeDe
    <3>3. Genre(m) = "deplacer"
      BY <2>3, <3>2, OpsDuGenre DEF Genres
    <3>4. m.ordre = "deplacer"
      BY <3>3 DEF Genre
    <3>5. m.posA \in Positions /\ m.posB \in Positions
      BY <2>3, <3>4 DEF OrdresPossibles
    <3>6. s = DeplacerPiece(m.posA, m.posB)
      BY <2>4, <3>4 DEF Callback
    <3>7. i \in 1..11 /\ Intacte(m.posA, m.posB, 12 - i, s[i].op, s[i].pos)
      BY <3>5, <3>6, DeplacerPasAPas
    <3>8. s[i].pos = m.posB
      BY <2>6, <3>7 DEF Intacte
    <3>9. QED  BY <2>2, <3>4, <3>8 DEF Destination
  <2>7. \A i \in 1..Len(appels') : appels'[i].op = "pose" => Destination(appels'[i].pos)
    BY <1>3, <2>5, <2>6
  <2>8. QED  BY <1>2, <2>2, <2>7, DestinationGarde
<1>12. QED
  BY <1>1, <1>5, <1>6, <1>7, <1>8, <1>9, <1>10, <1>11, SortesDePas

LEMMA VideGarde ==
    ASSUME DestinationVide, UNCHANGED <<cubes, navette>>,
           \A p : Destination(p)' => Destination(p)
    PROVE  DestinationVide'
BY DEF DestinationVide, Vide

LEMMA VidePeint ==
    ASSUME InvTypes, InvTravail, InvQuestions, InvVols, InvAttentes, InvMouvement, InvScene,
           DestinationVide, NEW c \in Ecritures, Scene(c)
    PROVE  DestinationVide'
<1> SUFFICES ASSUME Prudent, NEW p \in Positions, Destination(p)' PROVE Vide(p)'
  BY DEF DestinationVide
<1>1. PICK m \in ReponseType : entree' = Append(entree, m)
  BY ScenePeint DEF InvScene
<1>2. PICK e \in EnMain :
        /\ EnMain' = {e} /\ APeindre(e) /\ e.objet \in Objets
        /\ requetes'[CanalPeinture(e.objet)] = <<>>
        /\ cubes' = [cubes EXCEPT ![e.objet] = Contenu(e)]
        /\ UNCHANGED <<appels, navette>>
  BY ScenePeint DEF InvScene
<1>3. \A j \in 1..Len(entree') : entree'[j].type # "ordre"
  <2>1. m.type = "reponse"
    BY DEF ReponseType
  <2>2. SansOrdre
    BY MainSansTache DEF InvScene
  <2>3. QED  BY <1>1, <2>1, <2>2, EntreeAjoutee DEF SansOrdre
<1>4. ~APeindre(e)' /\ e.op \in Peintures
  BY <1>2 DEF APeindre
<1>5. PICK j \in 1..Len(appels) : appels[j].op = "pose" /\ appels[j].pos = p
  BY <1>2, <1>3, <1>4 DEF Destination, Peintures
<1>6. PICK i \in 1..Len(appels) : appels[i] = e /\ AuTravail(i)
  BY MainConnu DEF InvScene
<1>7. e.op = "peindrePrise"
  <2>1. demandes = {"deplacer"}
    BY <1>5, RangPiece DEF OpsPose
  <2>2. Travail(e) /\ e.op # "init"
    BY <1>4 DEF Travail, Peintures
  <2>3. PICK g \in Genres : demandes = {g} /\ e.op \in OpsDe(g)
    BY <1>6, <2>2 DEF InvTravail, InvEtapes, EtapesAttendues, EtapeDe
  <2>4. g = "deplacer"
    BY <2>1, <2>3
  <2>5. e.op \in {"peindrePrise", "peindrePose"}
    BY <1>4, <2>3, <2>4, OpsDuGenre DEF Peintures
  <2>6. e.op # "peindrePose"
    <3>1. ASSUME e.op = "peindrePose" PROVE FALSE
      <4>1. i = j
        BY <1>5, <1>6, <3>1, PoseSeule DEF OpsPose
      <4>2. QED  BY <1>5, <1>6, <3>1, <4>1
    <3>2. QED  BY <3>1
  <2>7. QED  BY <2>5, <2>6
<1>8. Contenu(e) = SansCube
  <2>1. couleur_transportee = SansCube
    BY <1>6, <1>7, PriseVide DEF OpsPrise
  <2>2. QED  BY <1>7, <2>1 DEF Contenu
<1>9. \A o \in Objets : cubes[o] = SansCube => cubes'[o] = SansCube
  BY <1>2, <1>8 DEF InvTypes, TypesScene
<1>10. Vide(p)
  BY <1>5 DEF DestinationVide, Destination
<1>11. CASE p \in PositionsPoste
  <2>1. NomPoste(p) \in Objets /\ cubes[NomPoste(p)] = SansCube
    BY <1>10, <1>11, Constantes DEF Vide
  <2>2. QED  BY <1>9, <1>11, <2>1 DEF Vide
<1>12. CASE p \notin PositionsPoste
  <2>1. navette[p] # AucuneNavette /\ cubes[navette[p]] = SansCube
    BY <1>10, <1>12 DEF Vide
  <2>2. navette[p] \in Objets
    <3>1. p \in PositionsNavette
      BY <1>12 DEF Positions
    <3>2. QED  BY <2>1, <3>1, Constantes DEF InvTypes, TypesScene
  <2>3. QED  BY <1>2, <1>9, <1>12, <2>1, <2>2 DEF Vide
<1>13. QED  BY <1>11, <1>12

LEMMA VidePas ==
    ASSUME InvTypes, InvTravail, InvQuestions, InvVols, InvAttentes, OrdrePris, InvMouvement,
           InvScene, DestinationVide, [Next]_vars
    PROVE  DestinationVide'
<1>1. ASSUME UNCHANGED <<appels, entree, requetes>> PROVE \A p : Destination(p)' => Destination(p)
  <2>1. EnMain' = EnMain
    BY <1>1, MainLots DEF InvScene
  <2>2. QED  BY <1>1, <2>1 DEF Destination, APeindre
<1>2. CASE Robot
  <2>1. UNCHANGED <<cubes, navette>>
    BY <1>2 DEF Robot, varsSimulateur
  <2>2. QED  BY <1>2, <2>1, DestinationRobot, VideGarde DEF InvScene
<1>3. CASE \E c \in Canaux : Scene(c)
  <2>1. PICK c \in Canaux : Scene(c)
    BY <1>3
  <2>2. CASE c \in Ecritures
    BY <2>1, <2>2, VidePeint
  <2>3. CASE c \notin Ecritures
    <3>1. /\ EnMain' = EnMain /\ PeinturesEgales /\ UNCHANGED <<appels, navette, cubes>>
      BY <2>1, <2>3, SceneAutre DEF InvScene
    <3>2. PICK r : r.type = "reponse" /\ entree' = Append(entree, r)
      BY <2>1, TypesReponse
    <3>3. \A j \in 1..Len(entree') :
            \/ entree'[j].type # "ordre"
            \/ \E i \in 1..Len(entree) : entree'[j] = entree[i]
      BY <3>2, EntreeAjoutee
    <3>4. \A e \in EnMain' : e.op = "lirePose" \/ (e.op = "peindrePose" /\ APeindre(e)')
                               => Destination(e.pos)
      <4>1. \A e : APeindre(e)' <=> APeindre(e)
        BY <3>1, APeindreEgal DEF APeindre
      <4>2. QED  BY <3>1, <4>1 DEF Destination
    <3>5. \A j \in 1..Len(appels') : appels'[j].op = "pose" => Destination(appels'[j].pos)
      BY <3>1 DEF Destination
    <3>6. QED  BY <3>1, <3>3, <3>4, <3>5, DestinationGarde, VideGarde
  <2>4. QED  BY <2>2, <2>3
<1>4. CASE \E m \in UNION Programmes : DonneOrdre(m)
  <2>1. PICK m \in UNION Programmes : DonneOrdre(m)
    BY <1>4
  <2>2. /\ m \in OrdresPossibles /\ entree' = Append(entree, m)
        /\ UNCHANGED <<appels, requetes, cubes>> /\ navette' = navette
    BY <2>1, TypesDonneOrdre, HorsDuRobot DEF DonneOrdre
  <2>3. EnMain' = EnMain
    BY <2>2, MainLots DEF InvScene
  <2>4. \A j \in 1..Len(entree') :
          entree'[j] = m \/ \E i \in 1..Len(entree) : entree'[j] = entree[i]
    BY <2>2, EntreeAjoutee
  <2>5. Prudent /\ m.ordre = "deplacer" => Vide(m.posB)
    BY <2>1 DEF DonneOrdre, OrdreSense
  <2>6. ASSUME NEW p, Destination(p)' PROVE Destination(p) \/ (m.ordre = "deplacer" /\ m.posB = p)
    <3>1. CASE \E j \in 1..Len(entree') :
                 entree'[j].type = "ordre" /\ entree'[j].ordre = "deplacer" /\ entree'[j].posB = p
      BY <2>4, <3>1 DEF Destination
    <3>2. CASE \/ \E i \in 1..Len(appels) : appels[i].op = "pose" /\ appels[i].pos = p
               \/ \E e \in EnMain :
                    e.pos = p /\ (e.op = "lirePose" \/ (e.op = "peindrePose" /\ APeindre(e)))
      BY <3>2 DEF Destination
    <3>3. QED  BY <2>2, <2>3, <2>6, <3>1, <3>2 DEF Destination, APeindre
  <2>7. \A p : Vide(p) => Vide(p)'
    BY <2>2 DEF Vide
  <2>8. QED  BY <2>5, <2>6, <2>7 DEF DestinationVide
<1>5. CASE \E q \in PositionsNavette : Navette(q)
  <2>1. "deplacer" \notin demandes /\ UNCHANGED <<appels, entree, requetes>>
    BY <1>5 DEF Navette, NavetteBouge, varsRobot, varsTopics
  <2>2. \A p : ~Destination(p)'
    BY <1>1, <2>1, DestinationOrdre
  <2>3. QED  BY <2>2 DEF DestinationVide
<1>6. CASE Bras
  <2>1. UNCHANGED <<appels, entree, requetes, cubes, navette>>
    BY <1>6 DEF Bras, BrasBouge, varsRobot, varsTopics
  <2>2. QED  BY <1>1, <2>1, VideGarde
<1>7. CASE \E k \in Genres : Constate(k)
  <2>1. UNCHANGED <<appels, entree, requetes, cubes, navette>>
    BY <1>7 DEF Constate, varsRobot, varsMonde, varsSimulateur, varsTopics
  <2>2. QED  BY <1>1, <2>1, VideGarde
<1>8. CASE Retour
  <2>1. UNCHANGED <<appels, entree, requetes, cubes, navette>>
    BY <1>8 DEF Retour, RetourRobotCallback, varsRobot, varsSimulateur
  <2>2. QED  BY <1>1, <2>1, VideGarde
<1>9. CASE UNCHANGED vars
  <2>1. UNCHANGED <<appels, entree, requetes, cubes, navette>>
    BY <1>9 DEF vars, varsRobot, varsMonde, varsSimulateur, varsTopics
  <2>2. QED  BY <1>1, <2>1, VideGarde
<1>10. QED  BY <1>2, <1>3, <1>4, <1>5, <1>6, <1>7, <1>8, <1>9 DEF Next

-----------------------------------------------------------------------------
(* Where a product is.  From the writing of an empty stack under it to the *)
(* writing of the stack that carries it, a product is in the hand of the   *)
(* robot: read and erased, or in the gripper.                              *)
Saisie(p) == \E e \in EnMain : e.op = "peindrePrise" /\ ~APeindre(e) /\ e.lues[1] = p
Portee(p) ==
    couleur_transportee[1] = p /\ \A e \in EnMain : e.op = "peindrePose" => APeindre(e)
Pris(p) == Saisie(p) \/ Portee(p)

(* It is then at no place, else at one place at most, and is never lost.   *)
ProduitSuivi(p) ==
    /\ Pris(p) => Premiers(p) = {}
    /\ \A o, q \in Premiers(p) : o = q
    /\ (\E o \in Objets : CubesInitiaux[o][1] = p) =>
         Pris(p) \/ Premiers(p) # {} \/ p \in evacues

(* A writing follows a reading of one cube at least, and what it evacuates *)
(* is written down.                                                        *)
Ecrite(e) ==
    e.op \in Peintures =>
        /\ Len(e.lues) \in 1..NB_CUBE
        /\ e.op = "peindreEvac" => e.lues[1] \in evacues

ProduitsSuivis == Prudent => \A p \in Produits : ProduitSuivi(p)
MainEcrite == \A e \in EnMain : Ecrite(e)
InvProduits == DestinationVide /\ MainEcrite /\ ProduitsSuivis

(* Only an evacuation changes the list of what left the cell. *)
LEMMA EvacuesGardes ==
    ASSUME RobotNext, ~EvacuerEfface
    PROVE  evacues' = evacues
<1>1. CASE Appels
  <2>1. CASE SpinPrincipal \/ SpinOnce \/ FinLot \/ CallbackReponse \/ CallbackOrdre
    BY <2>1 DEF SpinPrincipal, SpinOnce, PrendLot, FinLot, CallbackReponse, CallbackOrdre,
                varsMemoire
  <2>2. CASE InitDemande \/ InitFin \/ Update
    BY <2>2 DEF InitDemande, InitFin, Update, varsMemoire
  <2>3. QED  BY <1>1, <2>1, <2>2 DEF Appels
<1>2. CASE Mouvement
  <2>1. CASE EnvoyerRobot \/ EnvoyerJoints \/ DescendreBras \/ MonterBras
    BY <2>1 DEF EnvoyerRobot, EnvoyerJoints, DescendreBras, MonterBras, NouveauRpos, varsMemoire
  <2>2. CASE ConsigneRecue \/ PositionNonAtteinte \/ PositionAtteinte
    BY <2>2 DEF ConsigneRecue, PositionNonAtteinte, PositionAtteinte, varsMemoire
  <2>3. CASE PinceDejaFaite \/ PinceCommande \/ PinceAttend \/ PinceFin \/ RetourFin
    BY <2>3 DEF PinceDejaFaite, PinceCommande, PinceAttend, PinceFin, RetourFin, varsMemoire
  <2>4. QED  BY <1>2, <2>1, <2>2, <2>3 DEF Mouvement
<1>3. CASE Pieces
  <2>1. CASE \/ LireCouleur \/ CouleurRecue \/ ColorerSansNavette \/ ColorerNavette
             \/ ColorerPoste \/ ColorerPeint \/ FinPrise \/ FinPose
    BY <2>1 DEF LireCouleur, CouleurRecue, ColorerSansNavette, ColorerNavette, ColorerPoste,
                ColorerPeint, FinPrise, FinPose, varsMemoire
  <2>2. CASE \/ FaireTache \/ TacheHeure \/ TacheImpossible \/ TacheColore \/ DebutTask
             \/ UpdateHeure \/ TacheContinue \/ TacheEchue \/ FinTask
    BY <2>2 DEF FaireTache, TacheHeure, TacheImpossible, TacheColore, DebutTask, UpdateHeure,
                TacheContinue, TacheEchue, FinTask, varsMemoire
  <2>3. CASE \/ FinTaskPeint \/ Confirmer \/ PasEncoreCouleur \/ TacheTerminee
             \/ StopTache \/ Evacuer \/ EvacuerFin
    BY <2>3 DEF FinTaskPeint, Confirmer, PasEncoreCouleur, TacheTerminee, StopTache, Evacuer,
                EvacuerFin, varsMemoire
  <2>4. QED  BY <1>3, <2>1, <2>2, <2>3 DEF Pieces
<1>4. QED  BY <1>1, <1>2, <1>3 DEF RobotNext

(* Three ends say what the gripper holds, the others leave it alone. *)
LEMMA FinsDePince ==
    ASSUME Fin, ~FinPrise, ~FinPose, ~ColorerSansNavette
    PROVE  /\ couleur_transportee' = couleur_transportee
           /\ Courant.op \notin {"peindrePrise", "peindrePose"}
<1>1. CASE PositionAtteinte \/ PinceDejaFaite \/ PinceFin \/ RetourFin
  BY <1>1 DEF PositionAtteinte, PinceDejaFaite, PinceFin, RetourFin, Recu, Libre, Actif, Courant,
              varsMemoire
<1>2. CASE EvacuerFin \/ TacheContinue \/ InitFin \/ TacheImpossible
  BY <1>2 DEF EvacuerFin, TacheContinue, InitFin, TacheImpossible, Peint, Recu, Libre, Actif,
              Courant, varsMemoire
<1>3. CASE TacheTerminee \/ StopTache \/ DebutTask
  BY <1>3 DEF TacheTerminee, StopTache, DebutTask, Peint, Recu, Libre, Actif, Courant,
              varsMemoire
<1>4. QED  BY <1>1, <1>2, <1>3 DEF Fin

LEMMA PremierComplet ==
    ASSUME NEW s, Len(s) \in 1..NB_CUBE
    PROVE  Complete(s)[1] = s[1]
<1>1. 1 \in 1..NB_CUBE /\ 1 <= Len(s)
  BY Constantes
<1>2. QED  BY <1>1 DEF Complete

(* A product is followed when its place and the hand stay as they are. *)
LEMMA SuiviGarde ==
    ASSUME NEW p, ProduitSuivi(p), UNCHANGED cubes, evacues \subseteq evacues',
           Pris(p)' <=> Pris(p)
    PROVE  ProduitSuivi(p)'
BY DEF ProduitSuivi, Premiers

LEMMA PrisSansPeindre ==
    ASSUME UNCHANGED couleur_transportee,
           \A e \in EnMain : e.op \notin {"peindrePrise", "peindrePose"},
           \A e \in EnMain' : e.op \notin {"peindrePrise", "peindrePose"}
    PROVE  \A p : Pris(p)' <=> Pris(p)
<1>1. \A p : ~Saisie(p) /\ ~Saisie(p)'
  BY DEF Saisie
<1>2. \A p : Portee(p)' <=> Portee(p)
  BY DEF Portee
<1>3. QED  BY <1>1, <1>2 DEF Pris

-----------------------------------------------------------------------------
(* The robot does not write by itself: what it holds only changes name.    *)
LEMMA MainAutreSuite ==
    ASSUME InvTypes, InvTravail, PieceEnTete, NEW f, f = Suivante, NEW e, e = Courant, AutreSuite
    PROVE  /\ EnMain = IF e.op \in OpsPieces THEN {e} ELSE {}
           /\ EnMain' = IF f.op \in OpsPieces THEN {f} ELSE {}
           /\ appels # <<>> /\ e \in EtapeType /\ e.lues \in LuesType
<1>1. Poursuit(f)
  BY SuitePoursuit
<1>2. e \in EtapeType /\ e.lues \in LuesType /\ appels # <<>>
  BY <1>1, Tete DEF InvTypes, Poursuit
<1>3. QED  BY <1>1, <1>2, MainPoursuit

LEMMA EcriteRobot ==
    ASSUME InvTypes, InvTravail, OrdrePris, PieceEnTete, MainEcrite, Robot
    PROVE  MainEcrite' /\ evacues \subseteq evacues'
<1>1. RobotNext
  BY DEF Robot
<1>2. evacues \subseteq evacues'
  <2>1. EvacuerEfface => evacues \subseteq evacues'
    BY DEF EvacuerEfface
  <2>2. QED  BY <1>1, <2>1, EvacuesGardes
<1> SUFFICES MainEcrite'
  BY <1>2
<1>3. ASSUME \A e \in EnMain' : e.op \in Peintures => e \in EnMain
      PROVE  MainEcrite'
  BY <1>2, <1>3 DEF MainEcrite, Ecrite
<1>4. CASE EnvoyerRobot \/ EnvoyerJoints \/ DescendreBras \/ MonterBras
  <2>1. PICK f : f = Suivante
    OBVIOUS
  <2>2. Poursuit(f) /\ f.op = "consigne"
    BY <1>4, <2>1, SuitePoursuit, EffetsRpos
  <2>3. \A x \in EnMain' : x = f
    BY <2>2, MainPoursuit
  <2>4. QED  BY <1>3, <2>2, <2>3 DEF Peintures
<1>5. CASE AutreSuite
  <2>1. PICK f : f = Suivante
    OBVIOUS
  <2>2. PICK e : e = Courant
    OBVIOUS
  <2>3. /\ \A x \in EnMain' : x = f
        /\ e.lues \in LuesType
    BY <1>5, <2>1, <2>2, MainAutreSuite
  <2>4. CASE f.op \in Peintures
    <3>1. /\ e.op \in Lectures /\ f.lues = e.lues /\ Lu(e)
          /\ f.op = "peindreEvac" => EvacuerEfface
      BY <1>5, <2>1, <2>2, <2>4, PeintureVient
    <3>2. Len(f.lues) \in 1..NB_CUBE
      BY <2>3, <3>1, LueEntiere
    <3>3. f.op = "peindreEvac" => f.lues[1] \in evacues'
      BY <2>2, <3>1 DEF EvacuerEfface
    <3>4. QED  BY <2>3, <3>2, <3>3 DEF MainEcrite, Ecrite
  <2>5. CASE f.op \notin Peintures
    BY <1>3, <2>3, <2>5
  <2>6. QED  BY <2>4, <2>5
<1>6. CASE Fin
  BY <1>3, <1>6, Fins, MainTermine
<1>7. CASE Update \/ UpdateHeure
  BY <1>3, <1>7, MainUpdate
<1>8. CASE SpinPrincipal \/ SpinOnce \/ FinLot \/ CallbackReponse
  BY <1>3, <1>8, MainLots
<1>9. CASE CallbackOrdre
  <2>1. PICK m : m = Head(entree)
    OBVIOUS
  <2>2. \A e \in EnMain' : e.op = "tache"
    BY <1>9, <2>1, MainOrdre
  <2>3. QED  BY <1>3, <2>2 DEF Peintures
<1>10. QED  BY <1>1, <1>4, <1>5, <1>6, <1>7, <1>8, <1>9, SortesDePas

(* A prise and a pose end with the exchange they have written: the hand    *)
(* holds after them what it held before.                                   *)
LEMMA PrisFin ==
    ASSUME InvTypes, InvTravail, InvVols, InvAttentes, InvMouvement, PieceEnTete,
           MainEcrite, DestinationVide, Prudent, Fin, NEW p \in Produits
    PROVE  Pris(p)' <=> Pris(p)
<1>1. PICK e : e = Courant
  OBVIOUS
<1>2. /\ EnMain' = {} /\ EnMain = IF e.op \in OpsPieces THEN {e} ELSE {}
      /\ appels # <<>> /\ e = appels[1] /\ 1 \in 1..Len(appels)
  BY <1>1, Fins, MainTermine, Tete DEF InvTypes, Termine
<1>3. Pris(p)' <=> couleur_transportee'[1] = p
  BY <1>2 DEF Pris, Saisie, Portee
<1>4. SansCube[1] # p
  BY CouleursDistinctes, Constantes DEF SansCube
<1>5. CASE FinPrise
  <2>1. e.op = "peindrePrise" /\ rep[e.attend]
    BY <1>1, <1>5 DEF FinPrise, Peint, Recu, Actif, Courant
  <2>2. EnMain = {e} /\ ~APeindre(e)
    BY <1>1, <1>2, <2>1, DejaPeint DEF OpsPieces, Peintures
  <2>3. couleur_transportee = SansCube
    <3>1. AuTravail(1)
      BY DEF AuTravail
    <3>2. QED  BY <1>2, <2>1, <3>1, PriseVide DEF OpsPrise
  <2>4. couleur_transportee'[1] = e.lues[1]
    <3>1. Len(e.lues) \in 1..NB_CUBE
      BY <2>1, <2>2 DEF MainEcrite, Ecrite, Peintures
    <3>2. couleur_transportee' = Complete(e.lues)
      BY <1>1, <1>5 DEF FinPrise
    <3>3. QED  BY <3>1, <3>2, PremierComplet
  <2>5. Pris(p) <=> e.lues[1] = p
    BY <1>4, <2>1, <2>2, <2>3 DEF Pris, Saisie, Portee
  <2>6. QED  BY <1>3, <2>4, <2>5
<1>6. CASE FinPose
  <2>1. e.op = "peindrePose" /\ rep[e.attend] /\ couleur_transportee' = SansCube
    BY <1>1, <1>6 DEF FinPose, Peint, Recu, Actif, Courant
  <2>2. EnMain = {e} /\ ~APeindre(e)
    BY <1>1, <1>2, <2>1, DejaPeint DEF OpsPieces, Peintures
  <2>3. ~Pris(p)
    BY <2>1, <2>2 DEF Pris, Saisie, Portee
  <2>4. QED  BY <1>3, <1>4, <2>1, <2>3
<1>7. CASE ColorerSansNavette
  <2>1. /\ e.op \in {"prise", "pose"} /\ e.pos \in PositionsNavette
        /\ navette[e.pos] = AucuneNavette /\ couleur_transportee' = SansCube
    BY <1>1, <1>7 DEF ColorerSansNavette, Colorer, Libre, Actif, Courant
  <2>2. e.op # "pose"
    <3>1. SUFFICES ASSUME e.op = "pose" PROVE FALSE
      OBVIOUS
    <3>2. Destination(e.pos) /\ e.pos \in Positions
      BY <1>2, <2>1, <3>1 DEF Destination, Positions
    <3>3. Vide(e.pos)
      BY <3>2 DEF DestinationVide
    <3>4. e.pos \notin PositionsPoste
      BY <2>1 DEF PositionsNavette, PositionsPoste
    <3>5. QED  BY <2>1, <3>3, <3>4 DEF Vide
  <2>3. couleur_transportee = SansCube
    <3>1. AuTravail(1)
      BY DEF AuTravail
    <3>2. QED  BY <1>2, <2>1, <2>2, <3>1, PriseVide DEF OpsPrise
  <2>4. EnMain = {}
    BY <1>2, <2>1 DEF OpsPieces, Lectures, Peintures
  <2>5. QED  BY <1>3, <2>1, <2>3, <2>4 DEF Pris, Saisie, Portee
<1>8. CASE ~FinPrise /\ ~FinPose /\ ~ColorerSansNavette
  <2>1. /\ couleur_transportee' = couleur_transportee
        /\ e.op \notin {"peindrePrise", "peindrePose"}
    BY <1>1, <1>8, FinsDePince
  <2>2. QED  BY <1>2, <2>1, PrisSansPeindre
<1>9. QED  BY <1>5, <1>6, <1>7, <1>8

LEMMA PrisSuite ==
    ASSUME InvTypes, InvTravail, InvQuestions, InvVols, InvAttentes, InvScene,
           UNCHANGED <<cubes, navette>>, AutreSuite
    PROVE  \A p : Pris(p)' <=> Pris(p)
<1>1. PICK f : f = Suivante
  OBVIOUS
<1>2. PICK e : e = Courant
  OBVIOUS
<1>3. /\ EnMain = IF e.op \in OpsPieces THEN {e} ELSE {}
      /\ EnMain' = IF f.op \in OpsPieces THEN {f} ELSE {}
      /\ appels # <<>> /\ e \in EtapeType
  BY <1>1, <1>2, MainAutreSuite DEF InvScene
<1>4. AttenteJuste(e)
  BY <1>2, <1>3, Tete DEF InvTypes, InvAttentes
<1>5. /\ couleur_transportee' = couleur_transportee
      /\ e.op = "verifier" \/ Mene(e.op, f.op)
  BY <1>1, <1>2, <1>4, Suites DEF Garde
<1>6. CASE f.op \in {"peindrePrise", "peindrePose"}
  <2>1. /\ ColorerPeint \/ TacheColore \/ FinTask \/ EvacuerEfface
        /\ e.op \in Lectures
    BY <1>1, <1>2, <1>6, PeintureVient DEF Peintures
  <2>2. EnMain = {e} /\ Suivie(e)
    BY <1>3, <2>1, OpsDesPieces DEF InvScene, MainSuivie
  <2>3. APeindre(f)'
    BY <1>1, <1>2, <1>3, <2>1, <2>2, SuivieEcrite
  <2>4. EnMain' = {f}
    BY <1>3, <1>6 DEF OpsPieces, Peintures
  <2>5. \A p : ~Saisie(p) /\ ~Saisie(p)'
    BY <2>1, <2>2, <2>3, <2>4 DEF Saisie, Lectures
  <2>6. \A p : Portee(p)' <=> Portee(p)
    BY <1>5, <2>1, <2>2, <2>3, <2>4 DEF Portee, Lectures
  <2>7. QED  BY <2>5, <2>6 DEF Pris
<1>7. CASE f.op \notin {"peindrePrise", "peindrePose"}
  <2>1. e.op \notin {"peindrePrise", "peindrePose"}
    BY <1>5, <1>7 DEF Mene
  <2>2. QED  BY <1>3, <1>5, <1>7, <2>1, PrisSansPeindre
<1>8. QED  BY <1>6, <1>7

-----------------------------------------------------------------------------
LEMMA LieuDePose ==
    ASSUME InvTypes, InvTravail, InvMouvement, NEW i \in 1..Len(appels),
           appels[i].op \in OpsPose
    PROVE  appels[i].pos \in Positions
<1>1. Travail(appels[i])
  BY DEF Travail, OpsPose
<1>2. demandes = {"deplacer"} /\ SansOrdre
  BY RangPiece
<1>3. ~Oisif
  BY <1>1 DEF Oisif
<1>4. PICK A \in Positions, B \in Positions : Deroule(A, B)
  BY <1>2, <1>3, TravailDuDeplacer DEF InvMouvement
<1>5. PICK o : o = appels[i].op
  OBVIOUS
<1>6. PICK r : r = Len(appels) - i
  OBVIOUS
<1>7. PICK p : p = appels[i].pos
  OBVIOUS
<1>8. Tenue(A, B, r, o, p, Rpos) \/ Intacte(A, B, r, o, p)
  BY <1>1, <1>4, <1>5, <1>6, <1>7 DEF Deroule, Travail
<1>9. p = B
  <2>1. CASE Tenue(A, B, r, o, p, Rpos)
    BY <1>5, <2>1 DEF Tenue, OpsPose
  <2>2. CASE Intacte(A, B, r, o, p)
    BY <1>5, <2>2 DEF Intacte, OpsPose
  <2>3. QED  BY <1>8, <2>1, <2>2
<1>10. QED  BY <1>7, <1>9

(* A writing changes one place.  What it does to a product: nothing when   *)
(* it keeps the product of that place.                                     *)
LEMMA PremiersPeints ==
    ASSUME InvTypes, NEW b \in Objets, NEW c, cubes' = [cubes EXCEPT ![b] = c], NEW p
    PROVE  /\ c[1] # p => Premiers(p)' = Premiers(p) \ {b}
           /\ c[1] = p => Premiers(p)' = Premiers(p) \cup {b}
           /\ b \in Premiers(p) <=> cubes[b][1] = p
<1>1. /\ cubes'[b] = c
      /\ \A o \in Objets : o # b => cubes'[o] = cubes[o]
  BY DEF InvTypes, TypesScene
<1>2. b \in Premiers(p) <=> cubes[b][1] = p
  BY DEF Premiers
<1>3. CASE c[1] # p
  BY <1>1, <1>2, <1>3 DEF Premiers
<1>4. CASE c[1] = p
  BY <1>1, <1>2, <1>4 DEF Premiers
<1>5. QED  BY <1>2, <1>3, <1>4

LEMMA SuiviPeint ==
    ASSUME InvTypes, InvTravail, InvQuestions, InvVols, InvAttentes, InvMouvement, InvScene,
           InvPiles, InvProduits, Prudent, NEW c \in Ecritures, Scene(c), NEW p \in Produits
    PROVE  ProduitSuivi(p)'
<1>1. PICK e \in EnMain :
        /\ EnMain = {e} /\ EnMain' = EnMain /\ APeindre(e) /\ e.objet \in Objets
        /\ requetes'[CanalPeinture(e.objet)] = <<>>
        /\ cubes' = [cubes EXCEPT ![e.objet] = Contenu(e)]
        /\ UNCHANGED <<couleur_transportee, evacues>>
  BY ScenePeint DEF InvScene
<1>2. PICK b : b = e.objet
  OBVIOUS
<1>3. PICK s : s = Contenu(e)
  OBVIOUS
<1>4. ~APeindre(e)' /\ e.op \in Peintures
  BY <1>1 DEF APeindre
<1>5. /\ s[1] # p => Premiers(p)' = Premiers(p) \ {b}
      /\ s[1] = p => Premiers(p)' = Premiers(p) \cup {b}
      /\ b \in Premiers(p) <=> cubes[b][1] = p
  BY <1>1, <1>2, <1>3, PremiersPeints
<1>6. e.lues[1] = cubes[b][1]
  <2>1. 1 \in 1..Len(e.lues)
    BY <1>4, Constantes DEF InvProduits, MainEcrite, Ecrite
  <2>2. LectureJuste(e)
    BY DEF InvScene, MainSuivie, Suivie
  <2>3. QED  BY <1>1, <1>2, <2>1, <2>2 DEF LectureJuste
<1>7. /\ Saisie(p)' <=> e.op = "peindrePrise" /\ e.lues[1] = p
      /\ ~Saisie(p)
  BY <1>1, <1>4 DEF Saisie
<1>8. /\ Portee(p)' <=> couleur_transportee[1] = p /\ e.op # "peindrePose"
      /\ Portee(p) <=> couleur_transportee[1] = p
  BY <1>1, <1>4 DEF Portee
<1>9. ProduitSuivi(p)
  BY DEF InvProduits, ProduitsSuivis
<1>10. SansCube[1] # p
  BY CouleursDistinctes, Constantes DEF SansCube
<1>11. PICK i \in 1..Len(appels) : appels[i] = e /\ AuTravail(i)
  BY MainConnu DEF InvScene
<1>12. CASE e.op = "peindrePrise"
  <2>1. couleur_transportee = SansCube
    BY <1>11, <1>12, PriseVide DEF OpsPrise
  <2>2. s[1] # p
    BY <1>3, <1>10, <1>12, <2>1 DEF Contenu
  <2>3. /\ Pris(p)' <=> b \in Premiers(p)
        /\ ~Pris(p)
    BY <1>5, <1>6, <1>7, <1>8, <1>10, <1>12, <2>1 DEF Pris
  <2>4. Premiers(p)' = Premiers(p) \ {b}
    BY <1>5, <2>2
  <2>5. QED  BY <1>1, <1>9, <2>3, <2>4 DEF ProduitSuivi
<1>13. CASE e.op = "peindrePose"
  <2>1. e.pos \in Positions
    BY <1>11, <1>13, LieuDePose DEF OpsPose
  <2>2. Destination(e.pos)
    BY <1>1, <1>13 DEF Destination
  <2>3. Vide(e.pos)
    BY <2>1, <2>2 DEF InvProduits, DestinationVide
  <2>4. b = Lieu(e.pos)
    BY <1>2, <1>13 DEF InvScene, MainSuivie, Suivie, LieuJuste, OpsLieu
  <2>5. b \notin Premiers(p)
    BY <1>5, <1>10, <2>3, <2>4 DEF Vide, Lieu
  <2>6. s = couleur_transportee
    BY <1>3, <1>13 DEF Contenu
  <2>7. ~Pris(p)' /\ (Pris(p) <=> s[1] = p)
    BY <1>7, <1>8, <1>13, <2>6 DEF Pris
  <2>8. CASE s[1] = p
    <3>1. Premiers(p)' = {b}
      BY <1>5, <1>9, <2>7, <2>8 DEF ProduitSuivi
    <3>2. QED  BY <2>7, <3>1 DEF ProduitSuivi
  <2>9. CASE s[1] # p
    <3>1. Premiers(p)' = Premiers(p)
      BY <1>5, <2>5, <2>9
    <3>2. QED  BY <1>1, <1>9, <2>7, <2>9, <3>1 DEF ProduitSuivi
  <2>10. QED  BY <2>8, <2>9
<1>14. CASE e.op \notin {"peindrePrise", "peindrePose"}
  <2>1. Pris(p)' <=> Pris(p)
    BY <1>7, <1>8, <1>14 DEF Pris
  <2>2. CASE e.op = "peindreEvac"
    <3>1. s = SansCube
      BY <1>3, <2>2 DEF Contenu
    <3>2. Premiers(p)' = Premiers(p) \ {b}
      BY <1>5, <1>10, <3>1
    <3>3. b \in Premiers(p) => p \in evacues
      BY <1>4, <1>5, <1>6, <2>2 DEF InvProduits, MainEcrite, Ecrite
    <3>4. QED  BY <1>1, <1>9, <2>1, <3>2, <3>3 DEF ProduitSuivi
  <2>3. CASE e.op \in {"peindreDebut", "peindreFin"}
    <3>1. s[1] = cubes[b][1]
      BY <1>3, <1>6, <2>3 DEF InvPiles, Preparee
    <3>2. Premiers(p)' = Premiers(p)
      BY <1>5, <3>1
    <3>3. QED  BY <1>1, <1>9, <2>1, <3>2 DEF ProduitSuivi
  <2>4. QED  BY <1>4, <1>14, <2>2, <2>3 DEF Peintures
<1>15. QED  BY <1>12, <1>13, <1>14

-----------------------------------------------------------------------------
LEMMA SuivisRobot ==
    ASSUME InvTypes, InvTravail, InvQuestions, InvVols, InvAttentes, OrdrePris, InvMouvement,
           InvScene, InvProduits, Robot
    PROVE  MainEcrite' /\ ProduitsSuivis'
<1>1. RobotNext /\ UNCHANGED <<cubes, navette>>
  BY DEF Robot, varsSimulateur
<1>2. MainEcrite' /\ evacues \subseteq evacues'
  BY EcriteRobot DEF InvScene, InvProduits
<1>3. SUFFICES ASSUME Prudent, NEW p \in Produits PROVE ProduitSuivi(p)'
  BY <1>2 DEF ProduitsSuivis
<1>4. ASSUME Pris(p)' <=> Pris(p) PROVE ProduitSuivi(p)'
  BY <1>1, <1>2, <1>3, <1>4, SuiviGarde DEF InvProduits, ProduitsSuivis
<1>5. CASE AutreSuite
  BY <1>1, <1>4, <1>5, PrisSuite
<1>6. CASE Fin
  BY <1>3, <1>4, <1>6, PrisFin DEF InvScene, InvProduits
<1>7. CASE EnvoyerRobot \/ EnvoyerJoints \/ DescendreBras \/ MonterBras
  <2>1. PICK f : f = Suivante
    OBVIOUS
  <2>2. Poursuit(f) /\ f.op = "consigne"
    BY <1>7, <2>1, SuitePoursuit, EffetsRpos
  <2>3. /\ Courant.op \notin {"peindrePrise", "peindrePose"}
        /\ couleur_transportee' = couleur_transportee
    BY <1>7 DEF EnvoyerRobot, EnvoyerJoints, DescendreBras, MonterBras, NouveauRpos, Libre,
                Actif, Courant
  <2>4. /\ \A x \in EnMain' : x = f
        /\ \A x \in EnMain : x = Courant
    BY <2>2, MainPoursuit DEF InvScene
  <2>5. QED  BY <1>4, <2>2, <2>3, <2>4, PrisSansPeindre
<1>8. CASE Update \/ UpdateHeure
  <2>1. couleur_transportee' = couleur_transportee
    BY <1>8 DEF Update, UpdateHeure, varsMemoire
  <2>2. QED  BY <1>4, <1>8, <2>1, MainUpdate, PrisSansPeindre DEF InvScene
<1>9. CASE SpinPrincipal \/ SpinOnce \/ FinLot \/ CallbackReponse
  <2>1. UNCHANGED <<couleur_transportee, requetes>>
    BY <1>9 DEF SpinPrincipal, SpinOnce, PrendLot, FinLot, CallbackReponse, varsMemoire,
                varsTopics
  <2>2. EnMain' = EnMain
    BY <1>9, MainLots DEF InvScene
  <2>3. Pris(p)' <=> Pris(p)
    BY <2>1, <2>2 DEF Pris, Saisie, Portee, APeindre
  <2>4. QED  BY <1>4, <2>3
<1>10. CASE CallbackOrdre
  <2>1. PICK m : m = Head(entree)
    OBVIOUS
  <2>2. EnMain = {} /\ \A e \in EnMain' : e.op = "tache"
    BY <1>10, <2>1, MainOrdre
  <2>3. couleur_transportee' = couleur_transportee
    BY <1>10 DEF CallbackOrdre, varsMemoire
  <2>4. QED  BY <1>4, <2>2, <2>3, PrisSansPeindre
<1>11. QED  BY <1>1, <1>5, <1>6, <1>7, <1>8, <1>9, <1>10, SortesDePas

LEMMA SuivisAilleurs ==
    ASSUME InvProduits, EnMain' = EnMain, PeinturesEgales,
           UNCHANGED <<cubes, couleur_transportee, evacues>>
    PROVE  MainEcrite' /\ ProduitsSuivis'
<1>1. MainEcrite'
  BY DEF InvProduits, MainEcrite, Ecrite
<1>2. \A e : APeindre(e)' <=> APeindre(e)
  BY APeindreEgal DEF APeindre
<1>3. \A p : Pris(p)' <=> Pris(p)
  BY <1>2 DEF Pris, Saisie, Portee
<1>4. ProduitsSuivis'
  BY <1>3, SuiviGarde DEF InvProduits, ProduitsSuivis
<1>5. QED  BY <1>1, <1>4

LEMMA ProduitsPas ==
    ASSUME InvTypes, InvTravail, InvQuestions, InvVols, InvAttentes, OrdrePris, InvMouvement,
           InvScene, InvPiles, InvProduits, [Next]_vars
    PROVE  InvProduits'
<1>1. DestinationVide'
  BY VidePas DEF InvProduits
<1> SUFFICES MainEcrite' /\ ProduitsSuivis'
  BY <1>1 DEF InvProduits
<1>2. CASE Robot
  BY <1>2, SuivisRobot
<1>3. CASE \E c \in Canaux : Scene(c)
  <2>1. PICK c \in Canaux : Scene(c)
    BY <1>3
  <2>2. CASE c \in Ecritures
    <3>1. ProduitsSuivis'
      BY <2>1, <2>2, SuiviPeint DEF ProduitsSuivis
    <3>2. EnMain' = EnMain /\ UNCHANGED evacues
      BY <2>1, <2>2, ScenePeint DEF InvScene
    <3>3. MainEcrite'
      BY <3>2 DEF InvProduits, MainEcrite, Ecrite
    <3>4. QED  BY <3>1, <3>3
  <2>3. CASE c \notin Ecritures
    BY <2>1, <2>3, SceneAutre, SuivisAilleurs DEF InvScene
  <2>4. QED  BY <2>2, <2>3
<1>4. ASSUME UNCHANGED <<appels, requetes, cubes, couleur_transportee, evacues>>
      PROVE  MainEcrite' /\ ProduitsSuivis'
  <2>1. EnMain' = EnMain
    BY <1>4, MainLots DEF InvScene
  <2>2. PeinturesEgales
    BY <1>4 DEF PeinturesEgales
  <2>3. QED  BY <1>4, <2>1, <2>2, SuivisAilleurs
<1>5. CASE Bras
  BY <1>4, <1>5 DEF Bras, BrasBouge, varsRobot, varsMemoire, varsTopics
<1>6. CASE \/ \E m \in UNION Programmes : DonneOrdre(m)
           \/ \E k \in Genres : Constate(k)
           \/ Retour \/ UNCHANGED vars
           \/ \E p \in PositionsNavette : Navette(p)
  BY <1>4, <1>6, HorsDuRobot
<1>7. QED  BY <1>2, <1>3, <1>5, <1>6 DEF Next

(* No two places hold the same product at the start. *)
ProduitsUniques ==
    \A p \in Produits : \A o, q \in Objets :
        CubesInitiaux[o][1] = p /\ CubesInitiaux[q][1] = p => o = q

LEMMA ProduitsInit ==
    ASSUME Init, ProduitsUniques
    PROVE  InvProduits
<1>1. Len(entree) = 0 /\ EnMain = {}
  <2>1. entree = <<>>
    BY DEF Init, InitTopics
  <2>2. QED  BY <2>1, EmptySeq, RienEnMain
<1>2. cubes = CubesInitiaux /\ couleur_transportee = SansCube
  BY DEF Init, InitRobot, InitSimulateur
<1>3. DestinationVide
  <2>1. Len(appels) = 1 /\ appels[1] = Etape("init", 0, 0)
    <3>1. appels = <<Etape("init", 0, 0)>>
      BY DEF Init, InitRobot
    <3>2. QED  BY ONLY <3>1
  <2>2. appels[1].op = "init"
    <3>1. "init" \in Ops /\ 0 \in 0..4 /\ 0 \in 0..10
      BY DEF Ops
    <3>2. QED  BY <2>1, <3>1, EtapeLue
  <2>3. \A p : ~Destination(p)
    BY <1>1, <2>1, <2>2 DEF Destination
  <2>4. QED  BY <2>3 DEF DestinationVide
<1>4. MainEcrite
  BY <1>1 DEF MainEcrite
<1>5. ASSUME NEW p \in Produits PROVE ProduitSuivi(p)
  <2>1. ~Pris(p)
    BY <1>1, <1>2, CouleursDistinctes, Constantes DEF Pris, Saisie, Portee, SansCube
  <2>2. \A o, q \in Premiers(p) : o = q
    BY <1>2 DEF Premiers, ProduitsUniques
  <2>3. (\E o \in Objets : CubesInitiaux[o][1] = p) => Premiers(p) # {}
    BY <1>2 DEF Premiers
  <2>4. QED  BY <2>1, <2>2, <2>3 DEF ProduitSuivi
<1>6. QED  BY <1>3, <1>4, <1>5 DEF InvProduits, ProduitsSuivis

LEMMA ProduitsToujours ==
    UneALaFois /\ SceneNeuve /\ ProduitsUniques => (Spec => [](InvPieces /\ InvProduits))
<1> SUFFICES ASSUME UneALaFois, SceneNeuve, ProduitsUniques
             PROVE  Spec => [](InvPieces /\ InvProduits)
  OBVIOUS
<1>1. Spec => []InvPieces
  BY PiecesToujours
<1>2. ASSUME Init PROVE InvProduits
  BY <1>2, ProduitsInit
<1>3. ASSUME InvPieces, InvProduits, [Next]_vars PROVE InvProduits'
  BY <1>3, ProduitsPas DEF InvPieces, InvRobot, Inv
<1>4. QED  BY <1>1, <1>2, <1>3, PTL DEF Spec

LEMMA ProduitsAuRepos ==
    ASSUME InvPieces, InvProduits, Prudent
    PROVE  ProduitsConserves
<1> SUFFICES ASSUME AuRepos
             PROVE  /\ couleur_transportee = SansCube
                    /\ \A p \in Produits :
                         (\E o \in Objets : CubesInitiaux[o][1] = p) =>
                             \/ Cardinality(Premiers(p)) = 1
                             \/ Premiers(p) = {} /\ p \in evacues
  BY DEF ProduitsConserves
<1>1. Len(appels) = 0
  BY EmptySeq DEF AuRepos
<1>2. couleur_transportee = SansCube
  BY <1>1 DEF InvPieces, InvRobot, InvMouvement, PinceVide
<1>3. EnMain = {}
  BY <1>1, MainDe
<1>4. ASSUME NEW p \in Produits, \E o \in Objets : CubesInitiaux[o][1] = p
      PROVE  Cardinality(Premiers(p)) = 1 \/ (Premiers(p) = {} /\ p \in evacues)
  <2>1. ~Pris(p)
    BY <1>2, <1>3, CouleursDistinctes, Constantes DEF Pris, Saisie, Portee, SansCube
  <2>2. ProduitSuivi(p)
    BY DEF InvProduits, ProduitsSuivis
  <2>3. CASE Premiers(p) = {}
    BY <1>4, <2>1, <2>2, <2>3 DEF ProduitSuivi
  <2>4. CASE Premiers(p) # {}
    <3>1. PICK o : Premiers(p) = {o}
      BY <2>2, <2>4 DEF ProduitSuivi
    <3>2. QED  BY <3>1, FS_Singleton
  <2>5. QED  BY <2>3, <2>4
<1>5. QED  BY <1>2, <1>4

(* When orders are given one at a time by a command that looks before it   *)
(* moves a piece, no product is lost nor doubled: with nothing under way   *)
(* the gripper is empty and each product of the start is at exactly one    *)
(* place or was evacuated (colorer and evacuerPieceCallback of robots.cpp, *)
(* which read a stack and write it elsewhere in separate requests).        *)
THEOREM ProduitsToujoursConserves ==
    UneALaFois /\ SceneNeuve /\ ProduitsUniques /\ Prudent => (Spec => []ProduitsConserves)
<1> SUFFICES ASSUME UneALaFois, SceneNeuve, ProduitsUniques, Prudent
             PROVE  Spec => []ProduitsConserves
  OBVIOUS
<1>1. InvPieces /\ InvProduits => ProduitsConserves
  BY ProduitsAuRepos
<1>2. QED  BY <1>1, ProduitsToujours, PTL
=============================================================================
