------------------------- MODULE SuiviExact_proofs --------------------------
(***************************************************************************)
(* The tracking is exact when the rail is slow for the loop of the manager *)
(* (Cadence) and the switches are set in time (Discipline), for every rail *)
(* network and number of shuttles: the queues are the sections up to the   *)
(* departures not yet treated, no shuttle is declared lost, and the service*)
(* names the shuttle that stands in front of the robot.                    *)
(***************************************************************************)
EXTENDS SuiviNavettes_proofs

(* What the image, its sample and the edges have to do with each other.    *)
Echantillon ==
    /\ etape = "attente" =>
         /\ \A t \in Troncons : ~present[t] /\ ~capteur.PS[t] /\ ~etat_capteur[t]
         /\ voie = FileInitiale
    /\ etape # "fronts" => fronts = {}
    /\ etape = "fronts" => /\ etat_capteur = capteur.PS
                           /\ \A t \in fronts : ~capteur.PS[t]

(* The manager has the switch a as it is.                                  *)
ImageJuste(a) ==
    /\ capteur.DD[a] <=> aig[a] = "D"
    /\ capteur.DG[a] <=> aig[a] = "G"

(* Of a departure not yet treated: the sensor is low, the switch behind it *)
(* leads somewhere, its shuttle is still in the queue, and once the low    *)
(* level has been received, so has the switch.                             *)
DepartSuivi(t) ==
    /\ ~present[t]
    /\ Sortie(t) \in Successeurs(t)
    /\ file[t] # <<>>
    /\ ~capteur.PS[t] /\ id_aiguillage[t] # 0 => ImageJuste(id_aiguillage[t])

DepartsSuivis == \A t \in Troncons : DepartEnCours(t) => DepartSuivi(t)

(* Two departures do not go to one section.                                *)
DepartsSepares ==
    \A t, u \in Troncons :
        DepartEnCours(t) /\ DepartEnCours(u) /\ Sortie(t) = Sortie(u) => t = u

(* A shuttle that stands on a sensor is in the queue.                      *)
PresenceSuivie == \A t \in Troncons : present[t] => file[t] # <<>>

Restee(t) == IF DepartEnCours(t) THEN Tail(file[t]) ELSE file[t]

(* SuiviExact, said of every departure toward the section.                 *)
SectionExacte(t) ==
    /\ \A u \in Troncons :
         DepartEnCours(u) /\ Sortie(u) = t => voie[t] = Append(Restee(t), Head(file[u]))
    /\ ~EntreeEnCours(t) => voie[t] = Restee(t)

SectionsExactes == etape # "attente" => \A t \in Troncons : SectionExacte(t)

InvSuivi ==
    /\ InvInductif
    /\ Echantillon
    /\ DepartsSuivis
    /\ DepartsSepares
    /\ PresenceSuivie
    /\ SectionsExactes
    /\ PasDeFaussePerte
-----------------------------------------------------------------------------
LEMMA EchantillonPas ==
    ASSUME Cadence, InvSuivi, [Next]_vars
    PROVE  Echantillon'
<1> USE DEF InvSuivi, InvInductif, Echantillon
<1>1. CASE InitPosNavette /\ UNCHANGED varsVoie
  BY <1>1 DEF InitPosNavette, varsVoie
<1>2. CASE Releve /\ UNCHANGED varsVoie
  BY <1>2 DEF Releve, varsVoie, TypeOK
<1>3. CASE TraiteFront /\ UNCHANGED varsVoie
  BY <1>3 DEF TraiteFront, varsVoie
<1>4. CASE CallbackCapteurs(Image) /\ UNCHANGED varsVoie
  BY <1>4 DEF CallbackCapteurs, PretASpin, FinDeTour, Image, varsVoie
<1>5. CASE SpinSansCapteurs /\ UNCHANGED varsVoie
  BY <1>5 DEF SpinSansCapteurs, FinDeTour, varsVoie
<1>6. ASSUME NEW c \in TronconsPoste, ShuttleAtPoste(c), UNCHANGED varsVoie
      PROVE  Echantillon'
  BY <1>6 DEF ShuttleAtPoste, varsVoie
<1>7. ASSUME NEW t \in Troncons, ArriveCapteur(t)
      PROVE  Echantillon'
  BY <1>7 DEF ArriveCapteur, Arrive, varsManager
<1>8. ASSUME NEW t \in Troncons, QuitteCapteur(t)
      PROVE  Echantillon'
  BY <1>8 DEF QuitteCapteur, Quitte, varsManager
<1>9. ASSUME NEW a \in Commandes, OrdreAiguillage(a)
      PROVE  Echantillon'
  BY <1>9 DEF OrdreAiguillage, BougeAiguillage, varsManager
<1>10. CASE UNCHANGED vars
  BY <1>10 DEF vars, varsManager, varsVoie
<1>11. QED
  BY <1>1, <1>2, <1>3, <1>4, <1>5, <1>6, <1>7, <1>8, <1>9, <1>10
  DEF Next, ManagerNext, EnvNext
-----------------------------------------------------------------------------
(* What a step does to the departures under way: sampling and receiving    *)
(* change none, the treatment of an edge ends one, a shuttle that leaves   *)
(* its sensor begins one.                                                  *)
LEMMA DepartsGardes ==
    ASSUME Cadence, InvSuivi, NEW u \in Troncons,
           \/ UNCHANGED varsVoie /\
                \/ InitPosNavette \/ Releve
                \/ CallbackCapteurs(Image) \/ SpinSansCapteurs
                \/ \E c \in TronconsPoste : ShuttleAtPoste(c)
           \/ \E t \in Troncons : ArriveCapteur(t)
           \/ \E a \in Commandes : OrdreAiguillage(a)
           \/ UNCHANGED vars
    PROVE  DepartEnCours(u)' <=> DepartEnCours(u)
<1> USE DEF InvSuivi, InvInductif, Echantillon, DepartEnCours
<1>1. CASE InitPosNavette /\ UNCHANGED varsVoie
  BY <1>1 DEF InitPosNavette, varsVoie
<1>2. CASE Releve /\ UNCHANGED varsVoie
  BY <1>2 DEF Releve, varsVoie, TypeOK
<1>3. CASE CallbackCapteurs(Image) /\ UNCHANGED varsVoie
  BY <1>3 DEF CallbackCapteurs, PretASpin, FinDeTour, Image, varsVoie
<1>4. CASE SpinSansCapteurs /\ UNCHANGED varsVoie
  BY <1>4 DEF SpinSansCapteurs, FinDeTour, varsVoie
<1>5. ASSUME NEW c \in TronconsPoste, ShuttleAtPoste(c), UNCHANGED varsVoie
      PROVE  DepartEnCours(u)' <=> DepartEnCours(u)
  BY <1>5 DEF ShuttleAtPoste, varsVoie
<1>6. ASSUME NEW t \in Troncons, ArriveCapteur(t)
      PROVE  DepartEnCours(u)' <=> DepartEnCours(u)
  BY <1>6 DEF ArriveCapteur, Arrive, varsManager, TypeOK
<1>7. ASSUME NEW a \in Commandes, OrdreAiguillage(a)
      PROVE  DepartEnCours(u)' <=> DepartEnCours(u)
  BY <1>7 DEF OrdreAiguillage, BougeAiguillage, varsManager
<1>8. CASE UNCHANGED vars
  BY <1>8 DEF vars, varsManager, varsVoie
<1>9. QED
  BY <1>1, <1>2, <1>3, <1>4, <1>5, <1>6, <1>7, <1>8

LEMMA DepartNouveau ==
    ASSUME Cadence, InvSuivi, NEW t \in Troncons, QuitteCapteur(t), NEW u \in Troncons
    PROVE  /\ ~DepartEnCours(t)
           /\ DepartEnCours(u)' <=> DepartEnCours(u) \/ u = t
BY DEF InvSuivi, InvInductif, Echantillon, DepartEnCours, QuitteCapteur, Quitte,
       varsManager, TypeOK

LEMMA DepartFini ==
    ASSUME InvSuivi, TraiteFront, UNCHANGED varsVoie
    PROVE  \E t \in Troncons :
              /\ DepartEnCours(t) /\ ~capteur.PS[t]
              /\ t = Minimum(fronts) /\ fronts' = fronts \ {t}
              /\ \A u \in Troncons : DepartEnCours(u)' <=> DepartEnCours(u) /\ u # t
<1>1. PICK t \in fronts : t = Minimum(fronts)
  BY MinimumExiste, ReseauAssumption DEF TraiteFront, InvSuivi, InvInductif, TypeOK
<1>2. t \in Troncons /\ fronts' = fronts \ {t} /\ etape = "fronts" /\ ~capteur.PS[t]
  BY <1>1 DEF TraiteFront, InvSuivi, InvInductif, Echantillon, TypeOK
<1>3. DepartEnCours(t)
  BY <1>1 DEF DepartEnCours
<1>4. ASSUME NEW u \in Troncons
      PROVE  DepartEnCours(u)' <=> DepartEnCours(u) /\ u # t
  BY <1>2 DEF TraiteFront, varsVoie, DepartEnCours
<1>5. QED BY <1>1, <1>2, <1>3, <1>4
-----------------------------------------------------------------------------
Suite == DepartsSuivis /\ DepartsSepares /\ PresenceSuivie /\ SectionsExactes /\ PasDeFaussePerte

(* Where the switch behind a section is decides where it leads.            *)
LEMMA SortieGardee ==
    ASSUME NEW u \in Troncons,
           id_aiguillage[u] # 0 => aig'[id_aiguillage[u]] = aig[id_aiguillage[u]]
    PROVE  Sortie(u)' = Sortie(u)
BY DEF Sortie

(* The queues, the sections and the switches stay, and so do the departures:*)
(* what is said of them too.                                               *)
LEMMA RienNeBouge ==
    ASSUME InvSuivi, UNCHANGED <<file, voie, present, erreur_log>>, etape' # "attente" => etape # "attente",
           \A u \in Troncons : DepartEnCours(u)' <=> DepartEnCours(u),
           \A u \in Troncons : DepartEnCours(u) =>
              /\ Sortie(u)' = Sortie(u)
              /\ ~capteur'.PS[u] /\ id_aiguillage[u] # 0 => ImageJuste(id_aiguillage[u])'
    PROVE  Suite'
<1>1. DepartsSuivis'
  BY DEF InvSuivi, DepartsSuivis, DepartSuivi, Successeurs
<1>2. DepartsSepares'
  BY DEF InvSuivi, DepartsSepares
<1>3. PresenceSuivie' /\ PasDeFaussePerte'
  BY DEF InvSuivi, PresenceSuivie, PasDeFaussePerte
<1>4. SectionsExactes'
  <2>1. SUFFICES ASSUME etape' # "attente", NEW t \in Troncons
                 PROVE  SectionExacte(t)'
    BY DEF SectionsExactes
  <2>2. SectionExacte(t) /\ Restee(t)' = Restee(t)
    BY <2>1 DEF InvSuivi, SectionsExactes, Restee
  <2>3. EntreeEnCours(t)' <=> EntreeEnCours(t)
    BY DEF EntreeEnCours
  <2>4. QED BY <2>2, <2>3 DEF SectionExacte
<1>5. QED BY <1>1, <1>2, <1>3, <1>4 DEF Suite

LEMMA SuitePasSimple ==
    ASSUME Cadence, InvSuivi, UNCHANGED varsVoie,
           \/ Releve \/ CallbackCapteurs(Image) \/ SpinSansCapteurs
           \/ \E c \in TronconsPoste : ShuttleAtPoste(c)
           \/ UNCHANGED vars
    PROVE  Suite'
<1>1. UNCHANGED <<file, voie, present, aig, erreur_log>> /\ (etape' # "attente" => etape # "attente")
  BY DEF Releve, CallbackCapteurs, SpinSansCapteurs, FinDeTour, ShuttleAtPoste, vars,
         varsManager, varsVoie
<1>2. \A u \in Troncons : DepartEnCours(u)' <=> DepartEnCours(u)
  BY DepartsGardes
<1>3. capteur' = Image \/ capteur' = capteur
  BY DEF Releve, CallbackCapteurs, SpinSansCapteurs, ShuttleAtPoste, vars, varsManager
<1>4. ASSUME NEW u \in Troncons, DepartEnCours(u)
      PROVE  /\ Sortie(u)' = Sortie(u)
             /\ ~capteur'.PS[u] /\ id_aiguillage[u] # 0 => ImageJuste(id_aiguillage[u])'
  <2>1. Sortie(u)' = Sortie(u)
    BY <1>1, SortieGardee
  <2>2. CASE capteur' = capteur
    <3>1. DepartSuivi(u)
      BY <1>4 DEF InvSuivi, DepartsSuivis
    <3>2. QED BY <1>1, <2>1, <2>2, <3>1 DEF DepartSuivi, ImageJuste
  <2>3. CASE capteur' = Image
    <3>1. id_aiguillage[u] # 0 => id_aiguillage[u] \in Aiguillages
      BY ReseauAssumption
    <3>2. QED BY <1>1, <2>1, <2>3, <3>1 DEF Image, ImageJuste
  <2>4. QED BY <1>3, <2>2, <2>3
<1>5. QED BY <1>1, <1>2, <1>4, RienNeBouge

LEMMA SuitePasOrdre ==
    ASSUME Cadence, Discipline, InvSuivi, NEW a \in Commandes, OrdreAiguillage(a)
    PROVE  Suite'
<1>1. UNCHANGED <<file, voie, present, etape, capteur, erreur_log>>
  BY DEF OrdreAiguillage, BougeAiguillage, varsManager
<1>2. \A u \in Troncons : DepartEnCours(u)' <=> DepartEnCours(u)
  BY DepartsGardes
<1>3. ASSUME NEW u \in Troncons, DepartEnCours(u)
      PROVE  /\ Sortie(u)' = Sortie(u)
             /\ ~capteur'.PS[u] /\ id_aiguillage[u] # 0 => ImageJuste(id_aiguillage[u])'
  <2>1. id_aiguillage[u] # 0 => aig'[id_aiguillage[u]] = aig[id_aiguillage[u]]
    BY <1>3, ReseauAssumption DEF OrdreAiguillage, BougeAiguillage, InvSuivi, InvInductif, TypeOK
  <2>2. Sortie(u)' = Sortie(u)
    BY <2>1, SortieGardee
  <2>3. DepartSuivi(u)
    BY <1>3 DEF InvSuivi, DepartsSuivis
  <2>4. QED BY <1>1, <2>1, <2>2, <2>3 DEF DepartSuivi, ImageJuste
<1>4. QED BY <1>1, <1>2, <1>3, RienNeBouge

LEMMA SuitePasInit ==
    ASSUME Cadence, InvSuivi, InitPosNavette, UNCHANGED varsVoie
    PROVE  Suite'
<1>1. /\ file' = FileInitiale /\ voie' = FileInitiale /\ erreur_log' = erreur_log
      /\ \A u \in Troncons : ~present'[u]
  BY DEF InitPosNavette, varsVoie, InvSuivi, Echantillon
<1>2. ASSUME NEW u \in Troncons PROVE ~DepartEnCours(u)'
  <2>1. ~DepartEnCours(u)
    BY DEF InvSuivi, Echantillon, DepartEnCours, InitPosNavette
  <2>2. QED BY <2>1, DepartsGardes
<1>3. SectionsExactes'
  BY <1>1, <1>2 DEF SectionsExactes, SectionExacte, Restee, EntreeEnCours
<1>4. QED
  BY <1>1, <1>2, <1>3
  DEF Suite, DepartsSuivis, DepartsSepares, PresenceSuivie, PasDeFaussePerte, InvSuivi

LEMMA SuitePasArrivee ==
    ASSUME Cadence, InvSuivi, NEW t \in Troncons, ArriveCapteur(t)
    PROVE  Suite'
<1>1. /\ UNCHANGED <<file, voie, aig, capteur, etape, erreur_log>> /\ etape # "attente"
      /\ ~DepartEnCours(t) /\ ~EntreeEnCours(t) /\ voie[t] # <<>>
      /\ \A u \in Troncons : u # t => present'[u] = present[u]
  BY DEF ArriveCapteur, Arrive, varsManager, InvSuivi, InvInductif, TypeOK
<1>2. \A u \in Troncons : DepartEnCours(u)' <=> DepartEnCours(u)
  BY DepartsGardes
<1>3. \A u \in Troncons : Sortie(u)' = Sortie(u)
  BY <1>1, SortieGardee
<1>4. DepartsSuivis'
  BY <1>1, <1>2, <1>3 DEF InvSuivi, DepartsSuivis, DepartSuivi, ImageJuste, Successeurs
<1>5. DepartsSepares' /\ PasDeFaussePerte'
  BY <1>1, <1>2, <1>3 DEF InvSuivi, DepartsSepares, PasDeFaussePerte
<1>6. PresenceSuivie'
  <2>1. voie[t] = file[t]
    BY <1>1 DEF InvSuivi, SectionsExactes, SectionExacte, Restee
  <2>2. QED BY <1>1, <2>1 DEF InvSuivi, PresenceSuivie
<1>7. SectionsExactes'
  <2>1. SUFFICES ASSUME NEW u \in Troncons PROVE SectionExacte(u)'
    BY DEF SectionsExactes
  <2>2. SectionExacte(u) /\ Restee(u)' = Restee(u)
    BY <1>1, <1>2 DEF InvSuivi, SectionsExactes, Restee
  <2>3. EntreeEnCours(u)' <=> EntreeEnCours(u)
    BY <1>2, <1>3 DEF EntreeEnCours
  <2>4. QED BY <1>1, <1>2, <1>3, <2>2, <2>3 DEF SectionExacte
<1>8. QED BY <1>4, <1>5, <1>6, <1>7 DEF Suite
-----------------------------------------------------------------------------
LEMMA AjoutDerriere ==
    ASSUME NEW S, NEW f \in Seq(S), NEW x \in S, f # <<>>
    PROVE  /\ Tail(Append(f, x)) = Append(Tail(f), x)
           /\ Head(Append(f, x)) = Head(f)
           /\ Append(f, x) # <<>>
           /\ Head(f) \in S /\ Tail(f) \in Seq(S)
<1>1. Len(f) \in Nat \ {0} /\ Head(f) = f[1] /\ Head(f) \in S /\ Tail(f) \in Seq(S)
  OBVIOUS
<1>2. /\ Append(f, x) \in Seq(S) /\ Len(Append(f, x)) = Len(f) + 1
      /\ \A i \in 1..Len(f) : Append(f, x)[i] = f[i]
      /\ Append(f, x)[Len(f) + 1] = x
  OBVIOUS
<1>3. Append(f, x) # <<>> /\ Head(Append(f, x)) = f[1]
  BY <1>1, <1>2
<1>4. Tail(Append(f, x)) = Append(Tail(f), x)
  <2>1. Tail(Append(f, x)) \in Seq(S) /\ Append(Tail(f), x) \in Seq(S)
    BY <1>1, <1>2, <1>3
  <2>2. Len(Tail(Append(f, x))) = Len(f) /\ Len(Append(Tail(f), x)) = Len(f)
    BY <1>1, <1>2, <1>3
  <2>3. ASSUME NEW i \in 1..Len(f)
        PROVE  Tail(Append(f, x))[i] = Append(Tail(f), x)[i]
    <3>1. Tail(Append(f, x))[i] = Append(f, x)[i + 1]
      BY <1>2, <1>3
    <3>2. CASE i = Len(f)
      BY <1>1, <1>2, <3>1, <3>2
    <3>3. CASE i < Len(f)
      BY <1>1, <1>2, <3>1, <3>3
    <3>4. QED BY <1>1, <3>2, <3>3
  <2>4. QED BY <2>1, <2>2, <2>3, SeqEqual
<1>5. QED BY <1>1, <1>3, <1>4

LEMMA SuitePasDepart ==
    ASSUME Cadence, Discipline, InvSuivi, NEW t \in Troncons, QuitteCapteur(t)
    PROVE  Suite'
<1>1. /\ UNCHANGED <<file, aig, capteur, etape, erreur_log>>
      /\ capteur.PS[t] /\ present[t]
      /\ present' = [present EXCEPT ![t] = FALSE]
      /\ Sortie(t) \in Successeurs(t) /\ ~EntreeEnCours(Sortie(t))
      /\ voie' = [voie EXCEPT ![Sortie(t)] = Append(@, Head(voie[t])), ![t] = Tail(@)]
  BY DEF QuitteCapteur, Quitte, varsManager
<1>2. etape # "attente"
  BY <1>1 DEF InvSuivi, Echantillon
<1>3. PICK s \in Troncons : s = Sortie(t) /\ s # t
  BY <1>1, SuccesseurEstTroncon
<1>4. ~DepartEnCours(t) /\ \A u \in Troncons : DepartEnCours(u)' <=> DepartEnCours(u) \/ u = t
  BY DepartNouveau
<1>5. \A u \in Troncons : Sortie(u)' = Sortie(u)
  BY <1>1, SortieGardee
<1>6. file[t] # <<>> /\ file[t] \in Seq(Navettes)
  BY <1>1 DEF InvSuivi, PresenceSuivie, InvInductif, TypeOK
<1>7. DepartsSuivis'
  <2>1. SUFFICES ASSUME NEW u \in Troncons, DepartEnCours(u)' PROVE DepartSuivi(u)'
    BY DEF DepartsSuivis
  <2>2. CASE u = t
    BY <1>1, <1>5, <1>6, <2>2 DEF DepartSuivi, Successeurs, InvSuivi, InvInductif, TypeOK
  <2>3. CASE u # t
    <3>1. DepartSuivi(u)
      BY <1>4, <2>1, <2>3 DEF InvSuivi, DepartsSuivis
    <3>2. QED
      BY <1>1, <1>5, <2>3, <3>1
      DEF DepartSuivi, ImageJuste, Successeurs, InvSuivi, InvInductif, TypeOK
  <2>4. QED BY <2>2, <2>3
<1>8. DepartsSepares'
  BY <1>1, <1>4, <1>5 DEF DepartsSepares, InvSuivi, EntreeEnCours
<1>9. PresenceSuivie' /\ PasDeFaussePerte'
  BY <1>1 DEF PresenceSuivie, PasDeFaussePerte, InvSuivi, InvInductif, TypeOK
<1>10. SectionsExactes'
  <2>1. SUFFICES ASSUME NEW v \in Troncons PROVE SectionExacte(v)'
    BY DEF SectionsExactes
  <2>2. SectionExacte(v)
    BY <1>2 DEF InvSuivi, SectionsExactes
  <2>3. \A u \in Troncons : u # t /\ DepartEnCours(u) => Head(file[u]) \in Navettes
    BY DEF InvSuivi, DepartsSuivis, DepartSuivi, InvInductif, TypeOK
  <2>4. CASE v = t
    <3>1. voie'[v] = Tail(voie[t]) /\ Restee(v) = file[t] /\ Restee(v)' = Tail(file[t])
      BY <1>1, <1>3, <1>4, <2>4 DEF Restee, InvSuivi, InvInductif, TypeOK
    <3>2. ASSUME NEW u \in Troncons, DepartEnCours(u)', Sortie(u)' = v
          PROVE  voie'[v] = Append(Restee(v)', Head(file'[u]))
      <4>1. u # t /\ DepartEnCours(u) /\ Sortie(u) = v
        BY <1>3, <1>4, <1>5, <2>4, <3>2
      <4>2. voie[v] = Append(file[t], Head(file[u]))
        BY <2>2, <3>1, <4>1 DEF SectionExacte
      <4>3. Tail(voie[t]) = Append(Tail(file[t]), Head(file[u]))
        BY <1>6, <2>3, <2>4, <4>1, <4>2, AjoutDerriere
      <4>4. QED BY <1>1, <3>1, <4>3
    <3>3. ASSUME ~EntreeEnCours(v)' PROVE voie'[v] = Restee(v)'
      <4>1. ~EntreeEnCours(v)
        BY <1>4, <1>5, <3>3 DEF EntreeEnCours
      <4>2. QED BY <2>2, <2>4, <3>1, <4>1 DEF SectionExacte
    <3>4. QED BY <3>2, <3>3 DEF SectionExacte
  <2>5. CASE v = s
    <3>1. voie[v] = Restee(v) /\ Restee(v)' = Restee(v)
      BY <1>1, <1>3, <1>4, <2>2, <2>5 DEF SectionExacte, Restee
    <3>2. voie'[v] = Append(Restee(v)', Head(voie[t]))
      BY <1>1, <1>3, <2>5, <3>1 DEF InvSuivi, InvInductif, TypeOK
    <3>3. Head(voie[t]) = Head(file[t])
      <4>1. SectionExacte(t) /\ Restee(t) = file[t]
        BY <1>2, <1>4 DEF InvSuivi, SectionsExactes, Restee
      <4>2. CASE EntreeEnCours(t)
        <5>1. PICK u \in Troncons : DepartEnCours(u) /\ Sortie(u) = t
          BY <4>2 DEF EntreeEnCours
        <5>2. voie[t] = Append(file[t], Head(file[u])) /\ Head(file[u]) \in Navettes
          BY <1>4, <2>3, <4>1, <5>1 DEF SectionExacte
        <5>3. QED BY <1>6, <5>2, AjoutDerriere
      <4>3. QED BY <4>1, <4>2 DEF SectionExacte
    <3>4. ASSUME NEW u \in Troncons, DepartEnCours(u)', Sortie(u)' = v
          PROVE  u = t
      BY <1>1, <1>3, <1>4, <1>5, <2>5, <3>4 DEF EntreeEnCours
    <3>5. EntreeEnCours(v)'
      BY <1>3, <1>4, <1>5, <2>5 DEF EntreeEnCours
    <3>6. QED BY <1>1, <3>2, <3>3, <3>4, <3>5 DEF SectionExacte
  <2>6. CASE v # t /\ v # s
    <3>1. voie'[v] = voie[v] /\ Restee(v)' = Restee(v)
      BY <1>1, <1>3, <1>4, <2>6 DEF Restee, InvSuivi, InvInductif, TypeOK
    <3>2. \A u \in Troncons : (DepartEnCours(u)' /\ Sortie(u)' = v) <=> (DepartEnCours(u) /\ Sortie(u) = v)
      BY <1>3, <1>4, <1>5, <2>6
    <3>3. QED BY <1>1, <2>2, <3>1, <3>2 DEF SectionExacte, EntreeEnCours
  <2>7. QED BY <2>4, <2>5, <2>6
<1>11. QED BY <1>7, <1>8, <1>9, <1>10 DEF Suite

(* The switch as the manager has it leads where the shuttle went.          *)
LEMMA MajExacte ==
    ASSUME InvSuivi, NEW t \in Troncons, DepartEnCours(t), ~capteur.PS[t]
    PROVE  maj(t) = Sortie(t)
<1>1. DepartSuivi(t)
  BY DEF InvSuivi, DepartsSuivis
<1>2. Sortie(t) # 0
  BY <1>1 DEF DepartSuivi, Successeurs
<1>3. CASE id_aiguillage[t] = 0
  BY <1>1, <1>3 DEF maj, Sortie, DepartSuivi
<1>4. CASE id_aiguillage[t] # 0
  BY <1>1, <1>2, <1>4 DEF maj, Sortie, DepartSuivi, ImageJuste
<1>5. QED BY <1>3, <1>4

LEMMA SuitePasFront ==
    ASSUME InvSuivi, TraiteFront, UNCHANGED varsVoie
    PROVE  Suite'
<1>1. PICK t \in Troncons :
          /\ DepartEnCours(t) /\ ~capteur.PS[t]
          /\ t = Minimum(fronts) /\ fronts' = fronts \ {t}
          /\ \A u \in Troncons : DepartEnCours(u)' <=> DepartEnCours(u) /\ u # t
  BY DepartFini
<1>2. DepartSuivi(t) /\ maj(t) = Sortie(t)
  BY <1>1, MajExacte DEF InvSuivi, DepartsSuivis
<1>3. PICK s \in Troncons : s = Sortie(t) /\ s # t /\ s > 0
  BY <1>2, SuccesseurEstTroncon DEF DepartSuivi
<1>4. /\ file' = [file EXCEPT ![s] = Append(@, Head(file[t])), ![t] = Tail(@)]
      /\ UNCHANGED <<voie, present, aig, capteur, etape, erreur_log>> /\ etape = "fronts"
  <2>1. Minimum(fronts) = t /\ maj(Minimum(fronts)) = s
    BY <1>1, <1>2, <1>3
  <2>2. QED BY <1>3, <2>1 DEF TraiteFront, varsVoie, PerdUne
<1>5. \A u \in Troncons : Sortie(u)' = Sortie(u)
  BY <1>4, SortieGardee
<1>6. /\ \A u \in Troncons : file[u] \in Seq(Navettes)
      /\ \A u \in Troncons : DepartEnCours(u) => file[u] # <<>> /\ Head(file[u]) \in Navettes
  <2>1. \A u \in Troncons : file[u] \in Seq(Navettes)
    BY DEF InvSuivi, InvInductif, TypeOK
  <2>2. QED BY <2>1 DEF InvSuivi, DepartsSuivis, DepartSuivi
<1>7. /\ file'[t] = Tail(file[t])
      /\ file'[s] = Append(file[s], Head(file[t]))
      /\ \A u \in Troncons : u # t /\ u # s => file'[u] = file[u]
  BY <1>3, <1>4 DEF InvSuivi, InvInductif, TypeOK
<1>8. ASSUME NEW u \in Troncons, u # t, file[u] # <<>>
      PROVE  file'[u] # <<>> /\ Head(file'[u]) = Head(file[u])
  <2>1. Head(file[t]) \in Navettes
    BY <1>1, <1>6
  <2>2. QED BY <1>6, <1>7, <1>8, <2>1, AjoutDerriere
<1>9. DepartsSuivis'
  <2>1. SUFFICES ASSUME NEW u \in Troncons, DepartEnCours(u)' PROVE DepartSuivi(u)'
    BY DEF DepartsSuivis
  <2>2. u # t /\ DepartSuivi(u)
    BY <1>1, <2>1 DEF InvSuivi, DepartsSuivis
  <2>3. file'[u] # <<>>
    BY <1>8, <2>2 DEF DepartSuivi
  <2>4. QED BY <1>4, <1>5, <2>2, <2>3 DEF DepartSuivi, ImageJuste, Successeurs
<1>10. DepartsSepares' /\ PasDeFaussePerte'
  BY <1>1, <1>4, <1>5 DEF DepartsSepares, PasDeFaussePerte, InvSuivi
<1>11. PresenceSuivie'
  BY <1>2, <1>4, <1>8 DEF PresenceSuivie, InvSuivi, DepartSuivi
<1>12. SectionsExactes'
  <2>1. SUFFICES ASSUME NEW v \in Troncons PROVE SectionExacte(v)'
    BY DEF SectionsExactes
  <2>2. SectionExacte(v)
    BY <1>4 DEF InvSuivi, SectionsExactes
  <2>3. \A u \in Troncons : DepartEnCours(u)' => Head(file'[u]) = Head(file[u])
    BY <1>1, <1>6, <1>8
  <2>4. CASE v # s
    <3>1. Restee(v)' = Restee(v)
      BY <1>1, <1>7, <2>4 DEF Restee
    <3>2. \A u \in Troncons : (DepartEnCours(u)' /\ Sortie(u)' = v) <=> (DepartEnCours(u) /\ Sortie(u) = v)
      BY <1>1, <1>3, <1>5, <2>4
    <3>3. QED BY <1>4, <2>2, <2>3, <3>1, <3>2 DEF SectionExacte, EntreeEnCours
  <2>5. CASE v = s
    <3>1. voie[v] = Append(Restee(v), Head(file[t]))
      BY <1>1, <1>3, <2>2, <2>5 DEF SectionExacte
    <3>2. Restee(v)' = Append(Restee(v), Head(file[t]))
      <4>1. CASE DepartEnCours(v)
        <5>1. Restee(v)' = Tail(file'[s]) /\ Restee(v) = Tail(file[s])
          BY <1>1, <1>3, <2>5, <4>1 DEF Restee
        <5>2. file[s] \in Seq(Navettes) /\ file[s] # <<>> /\ Head(file[t]) \in Navettes
          BY <1>1, <1>6, <2>5, <4>1
        <5>3. QED BY <1>7, <5>1, <5>2, AjoutDerriere
      <4>2. CASE ~DepartEnCours(v)
        BY <1>1, <1>7, <2>5, <4>2 DEF Restee
      <4>3. QED BY <4>1, <4>2
    <3>3. ASSUME NEW u \in Troncons, DepartEnCours(u)', Sortie(u)' = v
          PROVE  FALSE
      BY <1>1, <1>3, <1>5, <2>5, <3>3 DEF InvSuivi, DepartsSepares
    <3>4. QED BY <1>4, <3>1, <3>2, <3>3 DEF SectionExacte
  <2>6. QED BY <2>4, <2>5
<1>13. QED BY <1>9, <1>10, <1>11, <1>12 DEF Suite
-----------------------------------------------------------------------------
LEMMA InvSuiviInit == Init => InvSuivi
<1> SUFFICES ASSUME Init PROVE InvSuivi
  OBVIOUS
<1>1. /\ etape = "attente" /\ fronts = {} /\ erreur_log = <<>> /\ voie = FileInitiale
      /\ \A t \in Troncons : ~present[t] /\ ~capteur.PS[t] /\ ~etat_capteur[t]
  BY DEF Init, InitManager, InitVoie, CapteursAuRepos
<1>2. InvInductif
  BY InvariantInit
<1>3. Echantillon
  BY <1>1 DEF Echantillon
<1>4. \A t \in Troncons : ~DepartEnCours(t)
  BY <1>1 DEF DepartEnCours
<1>5. QED
  BY <1>1, <1>2, <1>3, <1>4
  DEF InvSuivi, DepartsSuivis, DepartsSepares, PresenceSuivie, SectionsExactes,
      PasDeFaussePerte

LEMMA InvSuiviPas ==
    ASSUME Cadence, Discipline, InvSuivi, [Next]_vars
    PROVE  InvSuivi'
<1>1. InvInductif' /\ Echantillon'
  BY InvariantPas, EchantillonPas DEF InvSuivi
<1>2. Suite'
  <2>1. CASE InitPosNavette /\ UNCHANGED varsVoie
    BY <2>1, SuitePasInit
  <2>2. CASE TraiteFront /\ UNCHANGED varsVoie
    BY <2>2, SuitePasFront
  <2>3. CASE UNCHANGED varsVoie /\ (Releve \/ CallbackCapteurs(Image) \/ SpinSansCapteurs)
    BY <2>3, SuitePasSimple
  <2>4. ASSUME NEW c \in TronconsPoste, ShuttleAtPoste(c), UNCHANGED varsVoie PROVE Suite'
    BY <2>4, SuitePasSimple
  <2>5. ASSUME NEW t \in Troncons, ArriveCapteur(t) PROVE Suite'
    BY <2>5, SuitePasArrivee
  <2>6. ASSUME NEW t \in Troncons, QuitteCapteur(t) PROVE Suite'
    BY <2>6, SuitePasDepart
  <2>7. ASSUME NEW a \in Commandes, OrdreAiguillage(a) PROVE Suite'
    BY <2>7, SuitePasOrdre
  <2>8. CASE UNCHANGED vars
    BY <2>8, SuitePasSimple DEF vars
  <2>9. QED
    BY <2>1, <2>2, <2>3, <2>4, <2>5, <2>6, <2>7, <2>8 DEF Next, ManagerNext, EnvNext
<1>3. QED BY <1>1, <1>2 DEF InvSuivi, Suite

LEMMA InvSuiviCorrect == ASSUME Cadence, Discipline PROVE Spec => []InvSuivi
BY InvSuiviInit, InvSuiviPas, PTL DEF Spec
-----------------------------------------------------------------------------
LEMMA ExactImplique == InvSuivi => SuiviExact
<1> SUFFICES ASSUME InvSuivi, etape # "attente", NEW t \in Troncons
             PROVE  voie[t] = FileAttendue(t)
  BY DEF SuiviExact
<1>1. SectionExacte(t) /\ Restee(t) \in Seq(Navettes)
  <2>1. SectionExacte(t)
    BY DEF InvSuivi, SectionsExactes
  <2>2. DepartEnCours(t) => file[t] # <<>>
    BY DEF InvSuivi, DepartsSuivis, DepartSuivi
  <2>3. QED BY <2>1, <2>2 DEF Restee, InvSuivi, InvInductif, TypeOK
<1>2. CASE EntreeEnCours(t)
  <2>1. PICK u \in Troncons : DepartEnCours(u) /\ Sortie(u) = t
    BY <1>2 DEF EntreeEnCours
  <2>2. \A v \in Troncons : DepartEnCours(v) /\ Sortie(v) = t => v = u
    BY <2>1 DEF InvSuivi, DepartsSepares
  <2>3. (CHOOSE v \in Troncons : DepartEnCours(v) /\ Sortie(v) = t) = u
    BY <2>1, <2>2
  <2>4. FileAttendue(t) = Restee(t) \o <<Head(file[u])>>
    BY <1>2, <2>3 DEF FileAttendue, Restee
  <2>5. Head(file[u]) \in Navettes
    BY <2>1 DEF InvSuivi, DepartsSuivis, DepartSuivi, InvInductif, TypeOK
  <2>6. Append(Restee(t), Head(file[u])) = Restee(t) \o <<Head(file[u])>>
    BY <1>1, <2>5, AppendIsConcat
  <2>7. QED BY <1>1, <2>1, <2>4, <2>6 DEF SectionExacte
<1>3. CASE ~EntreeEnCours(t)
  <2>1. FileAttendue(t) = Restee(t) \o <<>>
    BY <1>3 DEF FileAttendue, Restee
  <2>2. QED BY <1>1, <1>3, <2>1 DEF SectionExacte
<1>4. QED BY <1>2, <1>3

(* The queues are the sections, up to the departures not yet treated.      *)
THEOREM SuiviToujoursExact ==
    ASSUME Cadence, Discipline PROVE Spec => []SuiviExact
BY InvSuiviCorrect, ExactImplique, PTL

(* With switches set in time no Msg_Erreur of code 4 is ever published.    *)
THEOREM JamaisDeFaussePerte ==
    ASSUME Cadence, Discipline PROVE Spec => []PasDeFaussePerte
<1>1. InvSuivi => PasDeFaussePerte
  BY DEF InvSuivi
<1>2. QED BY InvSuiviCorrect, <1>1, PTL

(* get_id_shuttle_at_poste names the shuttle that stands there.            *)
THEOREM ServiceToujoursJuste ==
    ASSUME Cadence, Discipline PROVE Spec => ServiceNommeLaNavette
<1>1. ASSUME InvSuivi, NEW c \in TronconsPoste, ShuttleAtPoste(c), present[c]
      PROVE  reponse'.IdShuttle = Head(voie[c])
  <2>1. c \in Troncons /\ etape = "fronts" /\ file[c] # <<>> /\ file[c] \in Seq(Navettes)
    BY <1>1, PosteAssumption DEF ShuttleAtPoste, InvSuivi, PresenceSuivie, InvInductif, TypeOK
  <2>2. reponse'.IdShuttle = Head(file[c])
    BY <1>1, <2>1 DEF ShuttleAtPoste
  <2>3. ~DepartEnCours(c)
    BY <1>1, <2>1 DEF InvSuivi, DepartsSuivis, DepartSuivi
  <2>4. SectionExacte(c) /\ Restee(c) = file[c]
    BY <1>1, <2>1, <2>3 DEF InvSuivi, SectionsExactes, Restee
  <2>5. CASE EntreeEnCours(c)
    <3>1. PICK u \in Troncons : DepartEnCours(u) /\ Sortie(u) = c
      BY <2>5 DEF EntreeEnCours
    <3>2. Head(file[u]) \in Navettes
      BY <1>1, <3>1 DEF InvSuivi, DepartsSuivis, DepartSuivi, InvInductif, TypeOK
    <3>3. voie[c] = Append(file[c], Head(file[u]))
      BY <2>4, <3>1 DEF SectionExacte
    <3>4. QED BY <2>1, <2>2, <3>2, <3>3, AjoutDerriere
  <2>6. QED BY <2>2, <2>4, <2>5 DEF SectionExacte
<1>2. InvSuivi =>
        [\A c \in TronconsPoste :
            ShuttleAtPoste(c) /\ present[c] => reponse'.IdShuttle = Head(voie[c])]_vars
  BY <1>1
<1>3. QED BY InvSuiviCorrect, <1>2, PTL DEF ServiceNommeLaNavette
=============================================================================
