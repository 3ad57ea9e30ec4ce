------------------------ MODULE SuiviNavettes_proofs ------------------------
(***************************************************************************)
(* What is proved of the tracking of the shuttles, for every rail network, *)
(* number of shuttles and mode (Cadence, Discipline): the types, that no   *)
(* shuttle is ever in two queues, and that the tracking implements         *)
(* LieuNavettes: what the robots are told of a shuttle moves along the     *)
(* rails, one section at a time, or stops with an error in the log.        *)
(***************************************************************************)
EXTENDS SuiviNavettes, WellFoundedInduction, SequenceTheorems, FiniteSetTheorems, TLAPS

(* The loop over the sections finds a next edge as long as one is left.    *)
LEMMA MinimumExiste ==
    ASSUME NEW S, S \subseteq Nat, S # {}
    PROVE  Minimum(S) \in S
<1>1. PICK m \in S : \A j \in S : ~(<<j, m>> \in OpToRel(<, Nat))
  BY WFMin, NatLessThanWellFounded
<1>2. \A j \in S : m <= j
  <2>1. TAKE j \in S
  <2>2. ~(j < m)
    BY <1>1 DEF OpToRel
  <2>3. QED BY <2>2
<1>3. QED BY <1>2 DEF Minimum

(* A successor is a section, and another one.                              *)
LEMMA SuccesseurEstTroncon ==
    ASSUME NEW t \in Troncons, NEW s \in Successeurs(t)
    PROVE  s \in Troncons /\ s # t /\ s > 0
BY ReseauAssumption, SuccesseurAssumption DEF Successeurs

(* FileAttente::maj names a section, none (0) or a loss (-1); it moves     *)
(* nothing out of an empty queue and never back into the same one.         *)
LEMMA MajProperties ==
    ASSUME TypeOK, NEW t \in Troncons
    PROVE  /\ maj(t) \in Successeurs(t) \cup {0, PerdUne}
           /\ maj(t) # 0 => file[t] # <<>>
           /\ maj(t) # t
<1>1. CASE file[t] = <<>>
  BY <1>1, ReseauAssumption DEF maj
<1>2. CASE file[t] # <<>> /\ id_aiguillage[t] = 0
  BY <1>2, ReseauAssumption, SuccesseurAssumption DEF maj, PerdUne, Successeurs
<1>3. CASE file[t] # <<>> /\ id_aiguillage[t] # 0
  BY <1>3, ReseauAssumption, SuccesseurAssumption DEF maj, PerdUne, Successeurs
<1>4. QED BY <1>1, <1>2, <1>3
-----------------------------------------------------------------------------
(* How the steps of the manager change the queues: not at all, by dropping *)
(* the head of one, or by moving it to the end of another.                 *)
Garde == file' = file
Depart(t) ==
    /\ file[t] # <<>>
    /\ file' = [file EXCEPT ![t] = Tail(@)]
    /\ erreur_log' = Append(erreur_log, t)
Passage(t, s) ==
    /\ file[t] # <<>> /\ s # t
    /\ file' = [file EXCEPT ![s] = Append(@, Head(file[t])), ![t] = Tail(@)]
    /\ erreur_log' = erreur_log

LEMMA EffetTraiteFront ==
    ASSUME TypeOK, TraiteFront
    PROVE  \E t \in Troncons :
              \/ Garde /\ erreur_log' = erreur_log
              \/ Depart(t)
              \/ \E s \in Successeurs(t) : Passage(t, s)
<1> DEFINE t == Minimum(fronts)
           s == maj(t)
<1>1. t \in Troncons
  BY MinimumExiste, ReseauAssumption DEF TraiteFront, TypeOK
<1>2. /\ s \in Successeurs(t) \cup {0, PerdUne}
      /\ s # 0 => file[t] # <<>>
      /\ s # t
  BY <1>1, MajProperties
<1>3. CASE s \in Successeurs(t)
  <2>1. s \in Troncons /\ s > 0
    <3> HIDE DEF s, t
    <3>1. QED BY <1>1, <1>3, SuccesseurEstTroncon
  <2>2. Passage(t, s)
    BY <1>2, <2>1 DEF TraiteFront, Passage, PerdUne
  <2>3. QED BY <1>1, <1>3, <2>2
<1>4. CASE s = PerdUne
  <2>1. Depart(t)
    BY <1>2, <1>4 DEF TraiteFront, Depart, PerdUne
  <2>2. QED BY <1>1, <2>1
<1>5. CASE s = 0
  <2>1. Garde /\ erreur_log' = erreur_log
    BY <1>5 DEF TraiteFront, Garde, PerdUne
  <2>2. QED BY <1>1, <2>1
<1>6. QED BY <1>2, <1>3, <1>4, <1>5
-----------------------------------------------------------------------------
(* The types, of the rail and of the manager.                              *)
LEMMA TypesInit == Init => TypeOK
BY ReseauAssumption, PosteAssumption, FileInitialeAssumption
DEF Init, InitManager, InitVoie, TypeOK, CapteursType, CapteursAuRepos, Aucune

LEMMA TypesPas ==
    ASSUME TypeOK, NavettePresente, [Next]_vars
    PROVE  TypeOK'
<1>1. CASE InitPosNavette /\ UNCHANGED varsVoie
  BY <1>1, FileInitialeAssumption DEF InitPosNavette, TypeOK, varsVoie
<1>2. CASE Releve /\ UNCHANGED varsVoie
  BY <1>2 DEF Releve, TypeOK, varsVoie, CapteursType
<1>3. CASE TraiteFront /\ UNCHANGED varsVoie
  <2>1. file' \in [Troncons -> Seq(Navettes)] /\ erreur_log' \in Seq(Troncons)
    <3>1. PICK t \in Troncons :
              \/ Garde /\ erreur_log' = erreur_log
              \/ Depart(t)
              \/ \E s \in Successeurs(t) : Passage(t, s)
      BY <1>3, EffetTraiteFront
    <3>2. CASE Garde /\ erreur_log' = erreur_log
      BY <3>2 DEF Garde, TypeOK
    <3>3. CASE Depart(t)
      <4>1. Tail(file[t]) \in Seq(Navettes)
        BY <3>3 DEF Depart, TypeOK
      <4>2. QED BY <3>3, <4>1 DEF Depart, TypeOK
    <3>4. ASSUME NEW s \in Successeurs(t), Passage(t, s)
          PROVE  file' \in [Troncons -> Seq(Navettes)]
      <4>1. Head(file[t]) \in Navettes /\ Tail(file[t]) \in Seq(Navettes)
        BY <3>4 DEF Passage, TypeOK
      <4>2. s \in Troncons
        BY SuccesseurEstTroncon
      <4>3. Append(file[s], Head(file[t])) \in Seq(Navettes)
        BY <4>1, <4>2 DEF TypeOK
      <4>4. QED BY <3>4, <4>1, <4>2, <4>3 DEF Passage, TypeOK
    <3>5. QED BY <3>1, <3>2, <3>3, <3>4 DEF Passage, TypeOK
  <2>2. QED BY <1>3, <2>1 DEF TraiteFront, TypeOK, varsVoie
<1>4. CASE CallbackCapteurs(Image) /\ UNCHANGED varsVoie
  BY <1>4 DEF CallbackCapteurs, FinDeTour, Image, TypeOK, CapteursType, varsVoie
<1>5. CASE SpinSansCapteurs /\ UNCHANGED varsVoie
  BY <1>5 DEF SpinSansCapteurs, FinDeTour, TypeOK, varsVoie
<1>6. ASSUME NEW c \in TronconsPoste, ShuttleAtPoste(c), UNCHANGED varsVoie
      PROVE  TypeOK'
  <2>1. file[c] # <<>> => Head(file[c]) \in Navettes
    BY PosteAssumption DEF TypeOK
  <2>2. QED BY <1>6, <2>1 DEF ShuttleAtPoste, TypeOK, varsVoie
<1>7. ASSUME NEW t \in Troncons, ArriveCapteur(t)
      PROVE  TypeOK'
  BY <1>7 DEF ArriveCapteur, Arrive, TypeOK, varsManager
<1>8. ASSUME NEW t \in Troncons, QuitteCapteur(t)
      PROVE  TypeOK'
  <2>1. PICK s \in Successeurs(t) : Quitte(t, s)
    BY <1>8 DEF QuitteCapteur
  <2>2. s \in Troncons
    BY SuccesseurEstTroncon
  <2>3. Head(voie[t]) \in Navettes /\ Tail(voie[t]) \in Seq(Navettes)
    BY <2>1 DEF Quitte, NavettePresente, TypeOK
  <2>4. Append(voie[s], Head(voie[t])) \in Seq(Navettes)
    BY <2>2, <2>3 DEF TypeOK
  <2>5. QED BY <1>8, <2>1, <2>2, <2>3, <2>4 DEF QuitteCapteur, Quitte, TypeOK, varsManager
<1>9. ASSUME NEW a \in Commandes, OrdreAiguillage(a)
      PROVE  TypeOK'
  BY <1>9, ModeAssumption DEF OrdreAiguillage, BougeAiguillage, TypeOK, varsManager
<1>10. CASE UNCHANGED vars
  BY <1>10 DEF vars, varsManager, varsVoie, TypeOK
<1>11. QED
  BY <1>1, <1>2, <1>3, <1>4, <1>5, <1>6, <1>7, <1>8, <1>9, <1>10
  DEF Next, ManagerNext, EnvNext

(* A shuttle that stands on a sensor is still in its section when another  *)
(* one joins it.                                                           *)
LEMMA PresencePas ==
    ASSUME TypeOK, NavettePresente, [Next]_vars
    PROVE  NavettePresente'
<1>1. CASE UNCHANGED varsVoie
  BY <1>1 DEF NavettePresente, varsVoie
<1>2. ASSUME NEW t \in Troncons, ArriveCapteur(t)
      PROVE  NavettePresente'
  BY <1>2 DEF ArriveCapteur, Arrive, NavettePresente, TypeOK
<1>3. ASSUME NEW t \in Troncons, QuitteCapteur(t)
      PROVE  NavettePresente'
  <2>1. PICK s \in Successeurs(t) : Quitte(t, s)
    BY <1>3 DEF QuitteCapteur
  <2>2. s \in Troncons /\ s # t
    BY SuccesseurEstTroncon
  <2>3. Head(voie[t]) \in Navettes
    BY <2>1 DEF Quitte, NavettePresente, TypeOK
  <2>4. Append(voie[s], Head(voie[t])) # <<>>
    <3>1. voie[s] \in Seq(Navettes)
      BY <2>2 DEF TypeOK
    <3>2. Len(Append(voie[s], Head(voie[t]))) = Len(voie[s]) + 1
      BY <2>3, <3>1, AppendProperties
    <3>3. QED BY <3>1, <3>2
  <2>5. SUFFICES ASSUME NEW u \in Troncons, present'[u]
                 PROVE  voie'[u] # <<>>
    BY DEF NavettePresente
  <2>6. CASE u = s
    BY <2>1, <2>2, <2>4, <2>6 DEF Quitte, TypeOK
  <2>7. CASE u # s
    BY <2>1, <2>5, <2>7 DEF Quitte, NavettePresente, TypeOK
  <2>8. QED BY <2>6, <2>7
<1>4. ASSUME NEW a \in Commandes, OrdreAiguillage(a)
      PROVE  NavettePresente'
  BY <1>4 DEF OrdreAiguillage, BougeAiguillage, NavettePresente
<1>5. QED
  BY <1>1, <1>2, <1>3, <1>4 DEF Next, ManagerNext, EnvNext, vars
-----------------------------------------------------------------------------
(* No step of Next but these two touches the queues.                       *)
LEMMA QuiTouche ==
    ASSUME [Next]_vars
    PROVE  InitPosNavette \/ TraiteFront \/ (Garde /\ erreur_log' = erreur_log)
BY DEF Next, ManagerNext, EnvNext, vars, varsManager, Garde, Releve,
       CallbackCapteurs, SpinSansCapteurs, ShuttleAtPoste, ArriveCapteur,
       QuitteCapteur, OrdreAiguillage

(* Where the element i of the new queue u was before the head of t was     *)
(* moved to s (or dropped, for s = 0, which is no section).                *)
FileOrigine(t, s, u, i) == IF u = s /\ i = Len(file[s]) + 1 THEN t ELSE u
RangOrigine(t, s, u, i) ==
    IF u = t THEN i + 1 ELSE IF u = s /\ i = Len(file[s]) + 1 THEN 1 ELSE i

LEMMA Origine ==
    ASSUME TypeOK, NEW t \in Troncons, NEW s \in Troncons \cup {0},
           IF s = 0 THEN Depart(t) ELSE Passage(t, s),
           NEW u \in Troncons, NEW i \in DOMAIN file'[u]
    PROVE  /\ i \in Nat \ {0}
           /\ FileOrigine(t, s, u, i) \in Troncons
           /\ RangOrigine(t, s, u, i) \in DOMAIN file[FileOrigine(t, s, u, i)]
           /\ file'[u][i] = file[FileOrigine(t, s, u, i)][RangOrigine(t, s, u, i)]
<1> USE DEF FileOrigine, RangOrigine
<1>1. file[t] \in Seq(Navettes) /\ file[t] # <<>> /\ Len(file[t]) \in Nat \ {0}
  BY DEF Depart, Passage, TypeOK
<1>2. file[u] \in Seq(Navettes) /\ 0 \notin Troncons
  BY ReseauAssumption DEF TypeOK
<1>3. CASE u = t
  <2>1. file'[u] = Tail(file[t]) /\ s # t
    BY <1>2, <1>3 DEF Depart, Passage, TypeOK
  <2>2. i \in Nat \ {0} /\ i + 1 \in DOMAIN file[t] /\ Tail(file[t])[i] = file[t][i + 1]
    BY <1>1, <2>1
  <2>3. QED BY <1>3, <2>1, <2>2
<1>4. CASE u # t /\ u # s
  <2>1. file'[u] = file[u]
    BY <1>4 DEF Depart, Passage, TypeOK
  <2>2. QED BY <1>2, <1>4, <2>1
<1>5. CASE u # t /\ u = s
  <2>1. file'[u] = Append(file[s], Head(file[t]))
    BY <1>2, <1>5 DEF Passage, TypeOK
  <2>2. Head(file[t]) = file[t][1] /\ 1 \in DOMAIN file[t]
    BY <1>1
  <2>3. /\ i \in 1..Len(file[s]) + 1
        /\ file'[u][i] = IF i = Len(file[s]) + 1 THEN Head(file[t]) ELSE file[s][i]
    BY <1>1, <1>2, <1>5, <2>1, <2>2 DEF TypeOK
  <2>4. QED BY <1>2, <1>5, <2>2, <2>3
<1>6. QED BY <1>3, <1>4, <1>5

LEMMA OrigineInjective ==
    ASSUME TypeOK, NEW t \in Troncons, NEW s \in Troncons \cup {0}, s # t,
           NEW u \in Troncons, NEW i \in Nat \ {0},
           NEW v \in Troncons, NEW j \in Nat \ {0},
           FileOrigine(t, s, u, i) = FileOrigine(t, s, v, j),
           RangOrigine(t, s, u, i) = RangOrigine(t, s, v, j)
    PROVE  u = v /\ i = j
BY DEF FileOrigine, RangOrigine

LEMMA UneSeuleFilePas ==
    ASSUME TypeOK, UneSeuleFile, NEW t \in Troncons, NEW s \in Troncons \cup {0},
           IF s = 0 THEN Depart(t) ELSE Passage(t, s)
    PROVE  UneSeuleFile'
<1>1. s # t
  BY ReseauAssumption DEF Passage
<1>2. SUFFICES ASSUME NEW u \in Troncons, NEW v \in Troncons,
                      NEW i \in DOMAIN file'[u], NEW j \in DOMAIN file'[v],
                      file'[u][i] = file'[v][j]
               PROVE  u = v /\ i = j
  BY DEF UneSeuleFile
<1> DEFINE x == FileOrigine(t, s, u, i)
           y == FileOrigine(t, s, v, j)
           k == RangOrigine(t, s, u, i)
           l == RangOrigine(t, s, v, j)
<1>3. i \in Nat \ {0} /\ x \in Troncons /\ k \in DOMAIN file[x] /\ file'[u][i] = file[x][k]
  BY Origine
<1>4. j \in Nat \ {0} /\ y \in Troncons /\ l \in DOMAIN file[y] /\ file'[v][j] = file[y][l]
  BY Origine
<1>5. x = y /\ k = l
  <2> HIDE DEF x, y, k, l
  <2>1. file[x][k] = file[y][l]
    BY <1>2, <1>3, <1>4
  <2>2. QED BY <1>3, <1>4, <2>1 DEF UneSeuleFile
<1>6. /\ i \in Nat \ {0} /\ j \in Nat \ {0}
      /\ FileOrigine(t, s, u, i) = FileOrigine(t, s, v, j)
      /\ RangOrigine(t, s, u, i) = RangOrigine(t, s, v, j)
  BY <1>3, <1>4, <1>5
<1>7. QED BY <1>1, <1>6, OrigineInjective
-----------------------------------------------------------------------------
LEMMA InvariantInit == Init => InvInductif
<1> SUFFICES ASSUME Init PROVE NavettePresente /\ UneSeuleFile
  BY TypesInit DEF InvInductif
<1>1. NavettePresente
  BY DEF Init, InitVoie, NavettePresente
<1>2. UneSeuleFile
  BY DEF Init, InitManager, UneSeuleFile
<1>3. QED BY <1>1, <1>2

LEMMA InvariantPas ==
    ASSUME InvInductif, [Next]_vars
    PROVE  InvInductif'
<1> USE DEF InvInductif
<1>1. TypeOK' /\ NavettePresente'
  BY TypesPas, PresencePas
<1>2. UneSeuleFile'
  <2>1. CASE InitPosNavette
    BY <2>1, FileInitialeAssumption DEF InitPosNavette, UneSeuleFile
  <2>2. CASE TraiteFront
    <3>1. PICK t \in Troncons :
              \/ Garde /\ erreur_log' = erreur_log
              \/ Depart(t)
              \/ \E s \in Successeurs(t) : Passage(t, s)
      BY <2>2, EffetTraiteFront
    <3>2. CASE Garde
      BY <3>2 DEF Garde, UneSeuleFile
    <3>3. CASE Depart(t)
      BY <3>3, UneSeuleFilePas
    <3>4. ASSUME NEW s \in Successeurs(t), Passage(t, s)
          PROVE  UneSeuleFile'
      <4>1. s \in Troncons /\ s # 0
        BY SuccesseurEstTroncon
      <4>2. QED BY <3>4, <4>1, UneSeuleFilePas
    <3>5. QED BY <3>1, <3>2, <3>3, <3>4
  <2>3. CASE Garde
    BY <2>3 DEF Garde, UneSeuleFile
  <2>4. QED BY <2>1, <2>2, <2>3, QuiTouche
<1>3. QED BY <1>1, <1>2

(* Whatever the network, the shuttles, the switches and the edges missed:  *)
(* the state of the manager and of the rail keeps its types.               *)
THEOREM TypeCorrect == Spec => []TypeOK
<1>1. InvInductif => TypeOK
  BY DEF InvInductif
<1>2. QED BY InvariantInit, InvariantPas, <1>1, PTL DEF Spec

(* add_navette_in_queue and delete_navette_in_queue never leave a shuttle  *)
(* in two queues, or twice in one.                                         *)
THEOREM JamaisDeuxFiles == Spec => []UneSeuleFile
<1>1. InvInductif => UneSeuleFile
  BY DEF InvInductif
<1>2. QED BY InvariantInit, InvariantPas, <1>1, PTL DEF Spec

(* Both, with what carries the induction.                                  *)
THEOREM InvariantCorrect == Spec => []InvInductif
BY InvariantInit, InvariantPas, PTL DEF Spec
-----------------------------------------------------------------------------
(* The tracking implements LieuNavettes.                                   *)

(* Lieu, as a function of the queues.                                      *)
EstDans(f, n, t) == \E i \in DOMAIN f[t] : f[t][i] = n
Place(f, n) ==
    IF \E t \in Troncons : EstDans(f, n, t)
    THEN CHOOSE t \in Troncons : EstDans(f, n, t)
    ELSE -1

LEMMA LieuEstPlace ==
    /\ Lieu = [n \in Navettes |-> IF etape = "attente" THEN 0 ELSE Place(file, n)]
    /\ Lieu' = [n \in Navettes |-> IF etape' = "attente" THEN 0 ELSE Place(file', n)]
BY DEF Lieu, Place, EstDans

LEMMA PlaceUnique ==
    ASSUME NEW f, NEW n, NEW t \in Troncons, EstDans(f, n, t),
           \A u \in Troncons : EstDans(f, n, u) => u = t
    PROVE  Place(f, n) = t
BY DEF Place

LEMMA PlaceAucune ==
    ASSUME NEW f, NEW n, \A u \in Troncons : ~EstDans(f, n, u)
    PROVE  Place(f, n) = -1
BY DEF Place

LEMMA PlaceEstTroncon ==
    ASSUME NEW f, NEW n, NEW t \in Troncons, EstDans(f, n, t)
    PROVE  Place(f, n) \in Troncons
BY DEF Place

LEMMA MemePlace ==
    ASSUME NEW f, NEW g, NEW n,
           \A u \in Troncons : EstDans(f, n, u) <=> EstDans(g, n, u)
    PROVE  Place(f, n) = Place(g, n)
<1>1. CASE \E u \in Troncons : EstDans(f, n, u)
  <2>1. (CHOOSE t \in Troncons : EstDans(f, n, t)) = (CHOOSE t \in Troncons : EstDans(g, n, t))
    OBVIOUS
  <2>2. QED BY <1>1, <2>1 DEF Place
<1>2. CASE \A u \in Troncons : ~EstDans(f, n, u)
  BY <1>2 DEF Place
<1>3. QED BY <1>1, <1>2
-----------------------------------------------------------------------------
(* A treated edge takes the head of t to s, or out of sight when s = 0,    *)
(* and leaves every other shuttle in its queue.                            *)
LEMMA TeteSeuleBouge ==
    ASSUME InvInductif, NEW t \in Troncons, NEW s \in Troncons \cup {0}, s # t,
           IF s = 0 THEN Depart(t) ELSE Passage(t, s),
           NEW n \in Navettes, NEW u \in Troncons
    PROVE  EstDans(file', n, u) <=>
              IF n = Head(file[t]) THEN u = s ELSE EstDans(file, n, u)
<1> USE DEF InvInductif
<1>1. /\ file[t] \in Seq(Navettes) /\ Len(file[t]) \in Nat \ {0}
      /\ 1 \in DOMAIN file[t] /\ Head(file[t]) = file[t][1]
  BY DEF Depart, Passage, TypeOK
<1>2. file[u] \in Seq(Navettes) /\ 0 \notin Troncons
  BY ReseauAssumption DEF TypeOK
<1>3. ASSUME EstDans(file', n, u)
      PROVE  IF n = Head(file[t]) THEN u = s ELSE EstDans(file, n, u)
  <2>1. PICK i \in DOMAIN file'[u] : file'[u][i] = n
    BY <1>3 DEF EstDans
  <2> DEFINE x == FileOrigine(t, s, u, i)
             k == RangOrigine(t, s, u, i)
  <2>2. i \in Nat \ {0} /\ x \in Troncons /\ k \in DOMAIN file[x] /\ n = file[x][k]
    BY <2>1, Origine
  <2>3. CASE n = Head(file[t])
    <3>1. x = t /\ k = 1
      <4> HIDE DEF x, k
      <4>1. QED BY <1>1, <2>2, <2>3 DEF UneSeuleFile
    <3>2. QED BY <2>2, <2>3, <3>1 DEF FileOrigine, RangOrigine
  <2>4. CASE n # Head(file[t])
    <3>1. ~(x = t /\ k = 1)
      BY <1>1, <2>2, <2>4
    <3>2. x = u
      BY <3>1 DEF FileOrigine, RangOrigine
    <3>3. QED
      <4> HIDE DEF x, k
      <4>1. QED BY <2>2, <2>4, <3>2 DEF EstDans
  <2>5. QED BY <2>3, <2>4
<1>4. ASSUME n = Head(file[t]), u = s
      PROVE  EstDans(file', n, u)
  <2>1. file'[u] = Append(file[u], n)
    BY <1>2, <1>4 DEF Passage, TypeOK
  <2>2. /\ Len(file[u]) + 1 \in DOMAIN Append(file[u], n)
        /\ Append(file[u], n)[Len(file[u]) + 1] = n
    BY <1>2
  <2>3. QED BY <2>1, <2>2 DEF EstDans
<1>5. ASSUME n # Head(file[t]), EstDans(file, n, u)
      PROVE  EstDans(file', n, u)
  <2>1. PICK i \in DOMAIN file[u] : file[u][i] = n
    BY <1>5 DEF EstDans
  <2>2. CASE u = t
    <3>1. file'[u] = Tail(file[t])
      BY <1>2, <2>2 DEF Depart, Passage, TypeOK
    <3>2. i \in 2..Len(file[t])
      BY <1>1, <1>5, <2>1, <2>2
    <3>3. i - 1 \in DOMAIN Tail(file[t]) /\ Tail(file[t])[i - 1] = file[t][i]
      BY <1>1, <3>2
    <3>4. QED BY <2>1, <2>2, <3>1, <3>3 DEF EstDans
  <2>3. CASE u # t /\ u = s
    <3>1. file'[u] = Append(file[u], Head(file[t]))
      BY <1>2, <2>3 DEF Passage, TypeOK
    <3>2. Head(file[t]) \in Navettes
      BY <1>1
    <3>3. /\ i \in DOMAIN Append(file[u], Head(file[t]))
          /\ Append(file[u], Head(file[t]))[i] = file[u][i]
      BY <1>2, <2>1, <3>2
    <3>4. QED BY <2>1, <3>1, <3>3 DEF EstDans
  <2>4. CASE u # t /\ u # s
    <3>1. file'[u] = file[u]
      BY <2>4 DEF Depart, Passage, TypeOK
    <3>2. QED BY <2>1, <3>1 DEF EstDans
  <2>5. QED BY <2>2, <2>3, <2>4
<1>6. QED BY <1>3, <1>4, <1>5

(* The shuttle that moves, and where it was.                               *)
LEMMA TeteEnPlace ==
    ASSUME InvInductif, NEW t \in Troncons, file[t] # <<>>
    PROVE  Head(file[t]) \in Navettes /\ Place(file, Head(file[t])) = t
<1>1. /\ file[t] \in Seq(Navettes)
      /\ 1 \in DOMAIN file[t] /\ Head(file[t]) = file[t][1]
  BY DEF InvInductif, TypeOK
<1>2. EstDans(file, Head(file[t]), t)
  BY <1>1 DEF EstDans
<1>3. \A u \in Troncons : EstDans(file, Head(file[t]), u) => u = t
  BY <1>1 DEF EstDans, InvInductif, UneSeuleFile
<1>4. Place(file, Head(file[t])) = t
  BY <1>2, <1>3, PlaceUnique
<1>5. QED BY <1>1, <1>4

LEMMA EffetSurLieu ==
    ASSUME InvInductif, NEW t \in Troncons, NEW s \in Troncons \cup {0}, s # t,
           IF s = 0 THEN Depart(t) ELSE Passage(t, s),
           etape # "attente", etape' # "attente"
    PROVE  /\ Head(file[t]) \in Navettes
           /\ Lieu[Head(file[t])] = t
           /\ Lieu' = [Lieu EXCEPT ![Head(file[t])] = IF s = 0 THEN -1 ELSE s]
<1> DEFINE h == Head(file[t])
<1>1. h \in Navettes /\ Place(file, h) = t
  BY TeteEnPlace DEF Depart, Passage
<1>2. \A n \in Navettes : n # h => Place(file', n) = Place(file, n)
  <2>1. TAKE n \in Navettes
  <2>2. HAVE n # h
  <2>3. \A u \in Troncons : EstDans(file', n, u) <=> EstDans(file, n, u)
    BY <2>2, TeteSeuleBouge
  <2>4. QED BY <2>3, MemePlace
<1>3. \A u \in Troncons : EstDans(file', h, u) <=> u = s
  BY <1>1, TeteSeuleBouge
<1>4. Place(file', h) = IF s = 0 THEN -1 ELSE s
  <2>1. CASE s = 0
    <3>1. \A u \in Troncons : ~EstDans(file', h, u)
      BY <1>3, <2>1, ReseauAssumption
    <3>2. QED BY <2>1, <3>1, PlaceAucune
  <2>2. CASE s # 0
    <3>1. s \in Troncons /\ EstDans(file', h, s)
      BY <1>3, <2>2
    <3>2. QED BY <1>3, <2>2, <3>1, PlaceUnique
  <2>3. QED BY <2>1, <2>2
<1> HIDE DEF h
<1>5. /\ Lieu = [n \in Navettes |-> Place(file, n)]
      /\ Lieu' = [n \in Navettes |-> Place(file', n)]
  BY LieuEstPlace
<1>6. Lieu[h] = t /\ Lieu' = [Lieu EXCEPT ![h] = IF s = 0 THEN -1 ELSE s]
  BY <1>1, <1>2, <1>4, <1>5
<1>7. QED BY <1>1, <1>6 DEF h
-----------------------------------------------------------------------------
LEMMA RaffinementInit == Init => Abstrait!Init
<1> SUFFICES ASSUME Init PROVE Abstrait!Init
  OBVIOUS
<1>1. Lieu = [n \in Navettes |-> 0]
  BY LieuEstPlace DEF Init, InitManager
<1>2. Len(erreur_log) = 0
  BY DEF Init, InitManager
<1>3. QED BY <1>1, <1>2 DEF Abstrait!Init

(* Nothing else changes where a shuttle is said to be.                     *)
LEMMA PlacesInchangees ==
    ASSUME [Next]_vars, Garde, erreur_log' = erreur_log, ~InitPosNavette
    PROVE  UNCHANGED <<Lieu, Len(erreur_log)>>
<1>1. etape = "attente" <=> etape' = "attente"
  BY DEF Next, ManagerNext, EnvNext, vars, varsManager, Releve, TraiteFront,
         CallbackCapteurs, SpinSansCapteurs, FinDeTour, ShuttleAtPoste,
         ArriveCapteur, QuitteCapteur, OrdreAiguillage
<1>2. file' = file
  BY DEF Garde
<1>3. Lieu' = Lieu
  BY <1>1, <1>2, LieuEstPlace
<1>4. QED BY <1>3

LEMMA RaffinementPas ==
    ASSUME InvInductif, [Next]_vars
    PROVE  [Abstrait!Next]_<<Lieu, Len(erreur_log)>>
<1>1. CASE InitPosNavette
  <2>1. Lieu = [n \in Navettes |-> 0]
    BY <1>1, LieuEstPlace DEF InitPosNavette
  <2>2. Lieu' \in [Navettes -> Troncons]
    <3>1. Lieu' = [n \in Navettes |-> Place(file', n)]
      BY <1>1, LieuEstPlace DEF InitPosNavette
    <3>2. \A n \in Navettes : Place(file', n) \in Troncons
      <4>1. TAKE n \in Navettes
      <4>2. PICK t \in Troncons : EstDans(FileInitiale, n, t)
        BY FileInitialeAssumption DEF EstDans
      <4>3. file' = FileInitiale
        BY <1>1 DEF InitPosNavette
      <4>4. QED BY <4>2, <4>3, PlaceEstTroncon
    <3>3. QED BY <3>1, <3>2
  <2>3. Len(erreur_log)' = Len(erreur_log)
    BY <1>1 DEF InitPosNavette
  <2>4. Abstrait!Demarre
    BY <2>1, <2>2, <2>3 DEF Abstrait!Demarre
  <2>5. QED BY <2>4 DEF Abstrait!Next
<1>2. CASE TraiteFront
  <2>1. etape # "attente" /\ etape' # "attente"
    BY <1>2 DEF TraiteFront
  <2>2. PICK t \in Troncons :
           \/ Garde /\ erreur_log' = erreur_log
           \/ Depart(t)
           \/ \E s \in Successeurs(t) : Passage(t, s)
    BY <1>2, EffetTraiteFront DEF InvInductif
  <2>3. CASE Garde /\ erreur_log' = erreur_log
    BY <2>1, <2>3, PlacesInchangees DEF InitPosNavette
  <2>4. CASE Depart(t)
    <3> DEFINE n == Head(file[t])
    <3>1. 0 # t
      BY ReseauAssumption
    <3>2. n \in Navettes /\ Lieu[n] = t /\ Lieu' = [Lieu EXCEPT ![n] = -1]
      BY <2>1, <2>4, <3>1, EffetSurLieu
    <3>3. Len(erreur_log)' = Len(erreur_log) + 1
      BY <2>4 DEF Depart, InvInductif, TypeOK
    <3> HIDE DEF n
    <3>4. Abstrait!Perd(n)
      BY <3>2, <3>3 DEF Abstrait!Perd
    <3>5. QED BY <3>2, <3>4 DEF Abstrait!Next
  <2>5. ASSUME NEW s \in Successeurs(t), Passage(t, s)
        PROVE  Abstrait!Next
    <3> DEFINE n == Head(file[t])
    <3>1. s \in Troncons /\ s # t /\ s # 0
      BY SuccesseurEstTroncon
    <3>2. n \in Navettes /\ Lieu[n] = t /\ Lieu' = [Lieu EXCEPT ![n] = s]
      BY <2>1, <2>5, <3>1, EffetSurLieu
    <3>3. Len(erreur_log)' = Len(erreur_log)
      BY <2>5 DEF Passage
    <3>4. s \in Abstrait!Successeurs(t)
      BY DEF Successeurs, Abstrait!Successeurs
    <3> HIDE DEF n
    <3>5. Abstrait!Avance(n)
      BY <3>2, <3>3, <3>4 DEF Abstrait!Avance
    <3>6. QED BY <3>2, <3>5 DEF Abstrait!Next
  <2>6. QED BY <2>2, <2>3, <2>4, <2>5
<1>3. CASE Garde /\ erreur_log' = erreur_log /\ ~InitPosNavette
  BY <1>3, PlacesInchangees
<1>4. QED BY <1>1, <1>2, <1>3, QuiTouche

(* Spec implements LieuNavettes, whatever the rail and the switches do:    *)
(* add_navette_in_queue and delete_navette_in_queue together move one      *)
(* shuttle to a neighbouring section, and a shuttle is given up only with  *)
(* a Msg_Erreur of code 4.                                                 *)
THEOREM TrackingImplementeLieux == Spec => ImplementeLieux
<1>1. InvInductif /\ [Next]_vars => [Abstrait!Next]_<<Lieu, Len(erreur_log)>>
  BY RaffinementPas
<1>2. QED
  BY RaffinementInit, InvariantCorrect, <1>1, PTL
  DEF Spec, ImplementeLieux, Abstrait!Spec
-----------------------------------------------------------------------------
(* No shuttle disappears without an error: while the manager waits the log *)
(* is empty, then each error of code 4 stands for one shuttle given up.    *)
Comptes == etape = "attente" => erreur_log = <<>>
InvPertes == InvInductif /\ Comptes /\ PerteSignalee

LEMMA SuiviesSontPlacees ==
    ASSUME NEW f \in [Troncons -> Seq(Navettes)]
    PROVE  UNION {{f[t][i] : i \in DOMAIN f[t]} : t \in Troncons}
              = {n \in Navettes : \E t \in Troncons : EstDans(f, n, t)}
<1>1. \A t \in Troncons : \A i \in DOMAIN f[t] : f[t][i] \in Navettes
  OBVIOUS
<1>2. QED BY <1>1 DEF EstDans

LEMMA SuiviesApres ==
    ASSUME InvInductif, NEW t \in Troncons, NEW s \in Troncons \cup {0}, s # t,
           IF s = 0 THEN Depart(t) ELSE Passage(t, s), TypeOK'
    PROVE  /\ Head(file[t]) \in Suivies
           /\ Suivies' = IF s = 0 THEN Suivies \ {Head(file[t])} ELSE Suivies
<1> DEFINE h == Head(file[t])
<1>1. /\ Suivies = {n \in Navettes : \E u \in Troncons : EstDans(file, n, u)}
      /\ Suivies' = {n \in Navettes : \E u \in Troncons : EstDans(file', n, u)}
  BY SuiviesSontPlacees DEF InvInductif, TypeOK, Suivies
<1>2. h \in Navettes /\ EstDans(file, h, t)
  <2>1. /\ file[t] \in Seq(Navettes) /\ file[t] # <<>>
        /\ 1 \in DOMAIN file[t] /\ Head(file[t]) = file[t][1]
    BY DEF Depart, Passage, InvInductif, TypeOK
  <2>2. QED BY <2>1 DEF EstDans
<1>3. \A n \in Navettes, u \in Troncons :
         EstDans(file', n, u) <=> IF n = h THEN u = s ELSE EstDans(file, n, u)
  BY TeteSeuleBouge
<1>4. 0 \notin Troncons
  BY ReseauAssumption
<1> HIDE DEF h
<1>5. h \in Suivies /\ Suivies' = IF s = 0 THEN Suivies \ {h} ELSE Suivies
  BY <1>1, <1>2, <1>3, <1>4
<1>6. QED BY <1>5 DEF h

LEMMA PertesInit == Init => InvPertes
<1> SUFFICES ASSUME Init PROVE Comptes /\ PerteSignalee
  BY InvariantInit DEF InvPertes
<1>1. QED BY DEF Init, InitManager, Comptes, PerteSignalee

LEMMA PertesPas ==
    ASSUME InvPertes, [Next]_vars
    PROVE  InvPertes'
<1> USE DEF InvPertes
<1>1. InvInductif' /\ TypeOK'
  BY InvariantPas DEF InvInductif
<1>2. CASE InitPosNavette
  <2>1. erreur_log = <<>> /\ erreur_log' = <<>> /\ etape' = "releve" /\ file' = FileInitiale
    BY <1>2 DEF InitPosNavette, Comptes
  <2>2. Suivies' = Navettes
    <3>1. Suivies' = {n \in Navettes : \E t \in Troncons : EstDans(file', n, t)}
      BY <1>1, SuiviesSontPlacees DEF TypeOK, Suivies
    <3>2. QED BY <2>1, <3>1, FileInitialeAssumption DEF EstDans
  <2>3. Cardinality(Navettes) \in Nat
    BY ReseauAssumption, FS_CardinalityType
  <2>4. QED BY <1>1, <2>1, <2>2, <2>3 DEF Comptes, PerteSignalee
<1>3. CASE TraiteFront
  <2>1. etape # "attente" /\ etape' # "attente"
    BY <1>3 DEF TraiteFront
  <2>2. IsFiniteSet(Suivies) /\ Cardinality(Suivies) \in Nat /\ Cardinality(Navettes) \in Nat
    <3>1. Suivies \subseteq Navettes
      BY SuiviesSontPlacees DEF Suivies, InvInductif, TypeOK
    <3>2. QED BY <3>1, ReseauAssumption, FS_Subset, FS_CardinalityType
  <2>3. Len(erreur_log) \in Nat
    BY DEF InvInductif, TypeOK
  <2>4. PICK t \in Troncons :
           \/ Garde /\ erreur_log' = erreur_log
           \/ Depart(t)
           \/ \E s \in Successeurs(t) : Passage(t, s)
    BY <1>3, EffetTraiteFront DEF InvInductif
  <2>5. CASE Garde /\ erreur_log' = erreur_log
    BY <1>1, <2>1, <2>5 DEF Garde, Comptes, PerteSignalee, Suivies
  <2>6. CASE Depart(t)
    <3>1. 0 # t
      BY ReseauAssumption
    <3>2. Head(file[t]) \in Suivies /\ Suivies' = Suivies \ {Head(file[t])}
      BY <1>1, <2>6, <3>1, SuiviesApres
    <3>3. Cardinality(Suivies') = Cardinality(Suivies) - 1
      BY <2>2, <3>2, FS_RemoveElement
    <3>4. Len(erreur_log') = Len(erreur_log) + 1
      BY <2>6 DEF Depart, InvInductif, TypeOK
    <3>5. QED BY <1>1, <2>1, <2>2, <2>3, <3>3, <3>4 DEF Comptes, PerteSignalee
  <2>7. ASSUME NEW s \in Successeurs(t), Passage(t, s)
        PROVE  Comptes' /\ PerteSignalee'
    <3>1. s \in Troncons /\ s # t /\ s # 0
      BY SuccesseurEstTroncon
    <3>2. Suivies' = Suivies
      BY <1>1, <2>7, <3>1, SuiviesApres
    <3>3. QED BY <2>1, <2>7, <3>2 DEF Passage, Comptes, PerteSignalee
  <2>8. QED BY <1>1, <2>4, <2>5, <2>6, <2>7
<1>4. CASE Garde /\ erreur_log' = erreur_log /\ ~InitPosNavette
  <2>1. etape = "attente" <=> etape' = "attente"
    BY <1>4 DEF Next, ManagerNext, EnvNext, vars, varsManager, Releve, TraiteFront,
       CallbackCapteurs, SpinSansCapteurs, FinDeTour, ShuttleAtPoste,
       ArriveCapteur, QuitteCapteur, OrdreAiguillage
  <2>2. QED BY <1>1, <1>4, <2>1 DEF Garde, Comptes, PerteSignalee, Suivies
<1>5. QED BY <1>2, <1>3, <1>4, QuiTouche

(* As many errors of code 4 are published as shuttles are missing from the *)
(* queues: a shuttle is never dropped in silence.                          *)
THEOREM PerteToujoursSignalee == Spec => []PerteSignalee
<1>1. InvPertes => PerteSignalee
  BY DEF InvPertes
<1>2. QED BY PertesInit, PertesPas, <1>1, PTL DEF Spec
=============================================================================
