------------------------ MODULE Aiguillages_proofs --------------------------
(***************************************************************************)
(* The switches, from the order of the net to the rail: for every number   *)
(* of switches, of orders and of messages under way, when the net waits    *)
(* until nothing about a switch moves before it orders it again, a switch  *)
(* is unlocked while it moves, locked at rest, where it was last sent, and *)
(* the chain of four programs is PositionAiguillages.                      *)
(***************************************************************************)
EXTENDS OrdresAiguillages, SequenceTheorems, TLAPS

(* A net that orders a switch only when nothing about it is under way.     *)
Repos == Attente = "repos"

(* A loop of the node waits for the stop c of switch a.                    *)
Attend(c, a) == \E i \in DOMAIN pile : pile[i].cote = c /\ pile[i].aig = a

(* A message of topic s about switch a is under way to the command.        *)
Envoye(s, a) == Contains(versCommande, Sujet(s, a))

(* A word of the actuators about switch a is under way to the scene.       *)
EnMot(a) == \E i \in DOMAIN actionneurs : a \in actionneurs[i].RD \cup actionneurs[i].RG

EstOrdre(m, a) == m.type = "ordre" /\ m.aig = a
Demande(a) == \E i \in DOMAIN entree : EstOrdre(entree[i], a)

(* The image shows switch a where it is.                                   *)
Juste(image, a) == \A c \in Cotes : image[c][a] <=> (aig[a] = c)

ImagesJustes(i, a) ==
    \A j \in DOMAIN entree :
        j >= i /\ entree[j].type = "capteur" => Juste(entree[j].image, a)

(* An image that shows the stop asked for is no older than the arrival     *)
(* there, whether the node has it already or it is under way.              *)
AigSuivi(a) == Aig[dernier[a]][a] => aig[a] = dernier[a] /\ ImagesJustes(1, a)

ImagesSuivies(a) ==
    \A i \in DOMAIN entree :
        entree[i].type = "capteur" /\ entree[i].image[dernier[a]][a] => ImagesJustes(i, a)

(* Before its order is treated, nothing about the switch moves.            *)
EnPlace(a) ==
    /\ \A c \in Cotes : ~Attend(c, a)
    /\ \A s \in Cotes \cup {"Dev", "Ver"} : ~Envoye(s, a)
    /\ ~EnMot(a)
    /\ aig[a] = cible[a]
    /\ a \in mot.RD => cible[a] = "D"
    /\ a \in mot.RG => cible[a] = "G"
    /\ ~Dx[a]
    /\ Juste(Aig, a)
    /\ ImagesJustes(1, a)

AvantOrdre(a) == Demande(a) => EnPlace(a)

(* One order at a time, and for the side last asked.                       *)
DemandesSuivies(a) ==
    \A i \in DOMAIN entree : EstOrdre(entree[i], a) =>
        /\ entree[i].cote = dernier[a]
        /\ \A j \in DOMAIN entree : EstOrdre(entree[j], a) => j = i

(* Loops and messages are about the side last asked for; an unlock comes   *)
(* before the move, a lock after it.                                       *)
MessagesSuivis(a) ==
    /\ \A c \in Cotes : Attend(c, a) \/ Envoye(c, a) => c = dernier[a]
    /\ Envoye("Dev", a) => Attend(dernier[a], a) /\ aig[a] \notin {dernier[a], "M"}
    /\ Envoye("Ver", a) => aig[a] = dernier[a]

(* The words do not send the switch elsewhere.                             *)
MotsSuivis(a) ==
    /\ \A i \in DOMAIN actionneurs :
         /\ a \in actionneurs[i].RD => dernier[a] = "D"
         /\ a \in actionneurs[i].RG => dernier[a] = "G"
    /\ a \in mot.RD => "D" \in {dernier[a], cible[a]}
    /\ a \in mot.RG => "G" \in {dernier[a], cible[a]}
    /\ a \notin mot.RD \cap mot.RG
    /\ cible[a] # dernier[a] => aig[a] = cible[a]

(* Who still has to move or to lock the switch.                            *)
VerrouSuivi(a) ==
    /\ Dx[a] => Attend(dernier[a], a) \/ Envoye("Ver", a)
    /\ aig[a] # dernier[a] => Attend(dernier[a], a) \/ Demande(a)
    /\ aig[a] # dernier[a] /\ Attend(dernier[a], a) =>
         Envoye("Dev", a) \/ (Dx[a] /\ ~Vx[a])

Suivi(a) ==
    /\ AigSuivi(a)
    /\ ImagesSuivies(a)
    /\ AvantOrdre(a)
    /\ DemandesSuivies(a)
    /\ MessagesSuivis(a)
    /\ MotsSuivis(a)
    /\ VerrouSuivi(a)

InvAiguillages == TypeOK /\ \A a \in Aiguillages : Suivi(a)
-----------------------------------------------------------------------------
(* The elements of a sequence after each operation the programs use.       *)
LEMMA ElementsFile ==
    ASSUME NEW S, NEW s \in Seq(S), s # <<>>
    PROVE  /\ Head(s) \in S /\ Head(s) = s[1] /\ 1 \in DOMAIN s
           /\ Tail(s) \in Seq(S)
           /\ Len(Tail(s)) = Len(s) - 1
           /\ \A k \in DOMAIN Tail(s) : k + 1 \in DOMAIN s /\ Tail(s)[k] = s[k + 1]
           /\ \A k \in DOMAIN s : k # 1 => k - 1 \in DOMAIN Tail(s) /\ Tail(s)[k - 1] = s[k]
  OBVIOUS

LEMMA ElementsAjout ==
    ASSUME NEW S, NEW s \in Seq(S), NEW e \in S
    PROVE  /\ Append(s, e) \in Seq(S)
           /\ Len(Append(s, e)) = Len(s) + 1
           /\ Len(s) \in Nat
           /\ DOMAIN Append(s, e) = DOMAIN s \cup {Len(s) + 1}
           /\ \A k \in DOMAIN s : Append(s, e)[k] = s[k]
           /\ Append(s, e)[Len(s) + 1] = e
  OBVIOUS

LEMMA ElementsEmpile ==
    ASSUME NEW S, NEW s \in Seq(S), NEW e \in S, NEW r, r = <<e>> \o s
    PROVE  /\ r \in Seq(S)
           /\ 1 \in DOMAIN r /\ r[1] = e
           /\ \A k \in DOMAIN s : k + 1 \in DOMAIN r /\ r[k + 1] = s[k]
           /\ \A k \in DOMAIN r : k # 1 => k - 1 \in DOMAIN s /\ r[k] = s[k - 1]
  OBVIOUS

LEMMA ElementsSuite ==
    ASSUME NEW S, NEW s \in Seq(S), NEW t \in Seq(S), NEW r, r = s \o t
    PROVE  \A x : Contains(r, x) <=> Contains(s, x) \/ Contains(t, x)
<1>1. /\ Len(s) \in Nat /\ Len(t) \in Nat /\ Len(r) = Len(s) + Len(t)
      /\ \A k \in 1..(Len(s) + Len(t)) : r[k] = IF k <= Len(s) THEN s[k] ELSE t[k - Len(s)]
  OBVIOUS
<1>2. \A j \in 1..Len(t) : j + Len(s) \in 1..Len(r) /\ r[j + Len(s)] = t[j]
  BY <1>1
<1>4. ASSUME NEW k \in 1..Len(r)
      PROVE  Contains(s, r[k]) \/ Contains(t, r[k])
  <2>1. CASE k <= Len(s)
    BY <1>1, <2>1 DEF Contains
  <2>2. CASE k > Len(s)
    <3>1. k - Len(s) \in 1..Len(t) /\ r[k] = t[k - Len(s)]
      BY <1>1, <2>2
    <3>2. QED  BY <3>1 DEF Contains
  <2>3. QED  BY <1>1, <2>1, <2>2
<1>5. ASSUME NEW j \in 1..Len(s)
      PROVE  Contains(r, s[j])
  <2>1. j \in 1..Len(r) /\ r[j] = s[j]
    BY <1>1
  <2>2. QED  BY <2>1 DEF Contains
<1>6. ASSUME NEW j \in 1..Len(t)
      PROVE  Contains(r, t[j])
  <2>1. j + Len(s) \in 1..Len(r) /\ r[j + Len(s)] = t[j]
    BY <1>2
  <2>2. QED  BY <2>1 DEF Contains
<1>7. QED
  <2>1. ASSUME NEW x, Contains(r, x)  PROVE Contains(s, x) \/ Contains(t, x)
    BY <1>4, <2>1 DEF Contains
  <2>2. ASSUME NEW x, Contains(s, x)  PROVE Contains(r, x)
    <3>1. PICK j \in 1..Len(s) : s[j] = x
      BY <2>2 DEF Contains
    <3>2. QED  BY <1>5, <3>1
  <2>3. ASSUME NEW x, Contains(t, x)  PROVE Contains(r, x)
    <3>1. PICK j \in 1..Len(t) : t[j] = x
      BY <2>3 DEF Contains
    <3>2. QED  BY <1>6, <3>1
  <2>4. QED  BY <2>1, <2>2, <2>3, Zenon

LEMMA ElementsRetrait ==
    ASSUME NEW S, NEW s \in Seq(S), NEW i \in DOMAIN s
    PROVE  /\ RemoveAt(s, i) \in Seq(S)
           /\ \A x : Contains(RemoveAt(s, i), x) => Contains(s, x)
           /\ \A x : Contains(s, x) /\ x # s[i] => Contains(RemoveAt(s, i), x)
<1> DEFINE u == SubSeq(s, 1, i - 1)
           v == SubSeq(s, i + 1, Len(s))
           r == RemoveAt(s, i)
<1>1. /\ i \in 1..Len(s) /\ Len(s) \in Nat /\ DOMAIN s = 1..Len(s)
      /\ \A k \in 1..Len(s) : s[k] \in S
  OBVIOUS
<1>2. /\ u \in Seq(S) /\ v \in Seq(S)
      /\ Len(u) = i - 1 /\ Len(v) = Len(s) - i
      /\ \A k \in 1..(i - 1) : u[k] = s[k]
      /\ \A k \in 1..(Len(s) - i) : v[k] = s[k + i]
  <2>1. \A k \in 1..(i - 1) : s[k] \in S
    BY <1>1
  <2>2. \A k \in (i + 1)..Len(s) : s[k] \in S
    BY <1>1
  <2>3. i \in Int /\ i - 1 \in Int /\ i + 1 \in Int /\ Len(s) \in Int /\ 1 \in Int
    BY <1>1
  <2>4. /\ u \in Seq(S) /\ Len(u) = IF 1 <= i - 1 THEN (i - 1) - 1 + 1 ELSE 0
        /\ \A k \in 1..((i - 1) - 1 + 1) : u[k] = s[1 + k - 1]
    BY <2>1, <2>3, SubSeqProperties
  <2>5. /\ v \in Seq(S) /\ Len(v) = IF i + 1 <= Len(s) THEN Len(s) - (i + 1) + 1 ELSE 0
        /\ \A k \in 1..(Len(s) - (i + 1) + 1) : v[k] = s[(i + 1) + k - 1]
    BY <2>2, <2>3, SubSeqProperties
  <2> HIDE DEF u, v
  <2>6. Len(u) = i - 1 /\ Len(v) = Len(s) - i
    BY <1>1, <2>4, <2>5
  <2>7. ASSUME NEW k \in 1..(i - 1)  PROVE u[k] = s[k]
    BY <1>1, <2>4
  <2>8. ASSUME NEW k \in 1..(Len(s) - i)  PROVE v[k] = s[k + i]
    <3>1. k \in 1..(Len(s) - (i + 1) + 1) /\ (i + 1) + k - 1 = k + i
      BY <1>1
    <3>2. QED  BY <2>5, <3>1
  <2>9. QED  BY <2>4, <2>5, <2>6, <2>7, <2>8
<1>3. r = u \o v
  BY DEF RemoveAt
<1> HIDE DEF u, v, r
<1>4. /\ r \in Seq(S)
      /\ DOMAIN r = 1..(Len(s) - 1)
      /\ \A k \in 1..(Len(s) - 1) : r[k] = IF k <= i - 1 THEN u[k] ELSE v[k - (i - 1)]
  <2>1. /\ r \in Seq(S) /\ Len(r) = Len(u) + Len(v)
        /\ \A k \in 1..(Len(u) + Len(v)) :
             r[k] = IF k <= Len(u) THEN u[k] ELSE v[k - Len(u)]
    BY <1>2, <1>3, ConcatProperties
  <2>2. Len(u) + Len(v) = Len(s) - 1 /\ Len(u) = i - 1
    BY <1>1, <1>2
  <2>3. DOMAIN r = 1..Len(r)
    BY <2>1
  <2>4. QED  BY <2>1, <2>2, <2>3
<1>5. \A k \in 1..(Len(s) - 1) : r[k] = IF k < i THEN s[k] ELSE s[k + 1]
  <2>1. ASSUME NEW k \in 1..(Len(s) - 1), k >= i
        PROVE  r[k] = s[k + 1]
    <3>1. k - (i - 1) \in 1..(Len(s) - i) /\ (k - (i - 1)) + i = k + 1
      BY <1>1, <2>1
    <3>2. r[k] = v[k - (i - 1)]
      BY <1>1, <1>4, <2>1
    <3>3. v[k - (i - 1)] = s[(k - (i - 1)) + i]
      BY <1>2, <3>1
    <3>4. QED  BY <3>1, <3>2, <3>3
  <2>2. QED  BY <1>1, <1>2, <1>4, <2>1
<1>6. ASSUME NEW k \in DOMAIN r
      PROVE  \E j \in DOMAIN s : j # i /\ r[k] = s[j]
  <2>1. CASE k < i
    BY <1>1, <1>4, <1>5, <2>1
  <2>2. CASE k >= i
    <3>1. k + 1 \in DOMAIN s /\ k + 1 # i /\ r[k] = s[k + 1]
      BY <1>1, <1>4, <1>5, <2>2
    <3>2. QED  BY <3>1
  <2>3. QED  BY <1>1, <1>4, <2>1, <2>2
<1>7. ASSUME NEW j \in DOMAIN s, j # i
      PROVE  \E k \in DOMAIN r : r[k] = s[j]
  <2>1. CASE j < i
    BY <1>1, <1>4, <1>5, <2>1
  <2>2. CASE j > i
    <3>1. j - 1 \in DOMAIN r /\ r[j - 1] = s[j]
      BY <1>1, <1>4, <1>5, <2>2
    <3>2. QED  BY <3>1
  <2>3. QED  BY <1>1, <1>7, <2>1, <2>2
<1>8. DOMAIN r = 1..Len(r)
  BY <1>4
<1>9. /\ r \in Seq(S)
      /\ \A x : Contains(r, x) => Contains(s, x)
      /\ \A x : Contains(s, x) /\ x # s[i] => Contains(r, x)
  BY <1>1, <1>4, <1>6, <1>7, <1>8 DEF Contains
<1>10. QED  BY ONLY <1>9, Zenon DEF r
-----------------------------------------------------------------------------
LEMMA MessagesTypes ==
    /\ \A m \in MessagesNoeud :
         \/ /\ m.type = "ordre"
            /\ m.cote \in Cotes /\ m.aig \in Aiguillages
         \/ /\ m.type = "capteur"
            /\ m.image \in [Cotes -> [Aiguillages -> BOOLEAN]]
    /\ \A c \in Cotes, a \in Aiguillages : Ordre(c, a) \in MessagesNoeud
    /\ \A i \in [Cotes -> [Aiguillages -> BOOLEAN]] : Capteur(i) \in MessagesNoeud
<1>1. ASSUME NEW m \in MessagesNoeud
      PROVE  \/ m.type = "ordre" /\ m.cote \in Cotes /\ m.aig \in Aiguillages
             \/ m.type = "capteur" /\ m.image \in [Cotes -> [Aiguillages -> BOOLEAN]]
  <2>1. CASE \E c \in Cotes, a \in Aiguillages : m = Ordre(c, a)
    BY <2>1 DEF Ordre
  <2>2. CASE \E i \in [Cotes -> [Aiguillages -> BOOLEAN]] : m = Capteur(i)
    BY <2>2 DEF Capteur
  <2>3. QED  BY <2>1, <2>2 DEF MessagesNoeud
<1>2. QED  BY <1>1 DEF MessagesNoeud

Boucles == [cote : Cotes, aig : Aiguillages, spin : BOOLEAN]
Messages == [sujet : Cotes \cup {"Dev", "Ver"}, aig : Aiguillages]

(* Only the mark of spinOnce changes.                                      *)
LEMMA ElementsSpin ==
    ASSUME NEW s \in Seq(Boucles), s # <<>>, NEW b \in BOOLEAN, NEW r,
           r = [s EXCEPT ![1].spin = b]
    PROVE  /\ r \in Seq(Boucles)
           /\ DOMAIN r = DOMAIN s
           /\ \A i \in DOMAIN s : r[i].cote = s[i].cote /\ r[i].aig = s[i].aig
<1>1. 1 \in DOMAIN s /\ DOMAIN s = 1..Len(s) /\ Len(s) \in Nat
  OBVIOUS
<1>2. s \in [1..Len(s) -> Boucles]
  OBVIOUS
<1>3. r = [s EXCEPT ![1] = [s[1] EXCEPT !.spin = b]]
  OBVIOUS
<1>4. /\ [s[1] EXCEPT !.spin = b] \in Boucles
      /\ [s[1] EXCEPT !.spin = b].cote = s[1].cote
      /\ [s[1] EXCEPT !.spin = b].aig = s[1].aig
  BY <1>1, <1>2 DEF Boucles
<1>5. r \in [1..Len(s) -> Boucles]
  BY <1>1, <1>2, <1>3, <1>4
<1>6. r \in Seq(Boucles)
  BY <1>1, <1>5
<1>7. QED
  BY <1>1, <1>2, <1>3, <1>4, <1>5, <1>6

LEMMA TypeInit == Init => TypeOK
  BY AiguillageAssumption, AttenteAssumption
  DEF Init, InitNoeud, InitActionneurs, TypeOK, Mots, SansMot, Cotes

LEMMA TypePasNoeud ==
    ASSUME TypeOK, NoeudNext, UNCHANGED varsActionneurs, Suite
    PROVE  TypeOK'
<1> USE DEF TypeOK, varsActionneurs, Suite
<1>0. UNCHANGED <<actionneurs, mot, cible, aig, dernier, ordres, Vx, Dx>>
  OBVIOUS
<1>1. CASE SwitchSensorCallback
  <2>1. /\ entree # <<>>
        /\ Head(entree) \in MessagesNoeud /\ Head(entree).type = "capteur"
        /\ Tail(entree) \in Seq(MessagesNoeud) /\ Len(Tail(entree)) = Len(entree) - 1
    BY <1>1, ElementsFile DEF SwitchSensorCallback
  <2>2. Head(entree).image \in [Cotes -> [Aiguillages -> BOOLEAN]]
    BY <2>1, MessagesTypes
  <2>3. lot' \in 0..Len(entree')
    BY <1>1, <2>1 DEF SwitchSensorCallback
  <2>4. QED  BY <1>0, <1>1, <2>1, <2>2, <2>3 DEF SwitchSensorCallback
<1>2. CASE CoteCallback
  <2>1. /\ entree # <<>>
        /\ Head(entree) \in MessagesNoeud /\ Head(entree).type = "ordre"
        /\ Tail(entree) \in Seq(MessagesNoeud) /\ Len(Tail(entree)) = Len(entree) - 1
    BY <1>2, ElementsFile DEF CoteCallback
  <2>2. PICK c \in Cotes, x \in Aiguillages : c = Head(entree).cote /\ x = Head(entree).aig
    BY <2>1, MessagesTypes
  <2>3. lot' \in 0..Len(entree')
    BY <1>2, <2>1 DEF CoteCallback
  <2>4. /\ <<Boucle(c, x)>> \in Seq(Boucles)
        /\ <<Sujet("Dev", x), Sujet(c, x)>> \in Seq(Messages)
    BY <2>2 DEF Boucle, Sujet, Boucles, Messages
  <2>5. /\ <<Boucle(c, x)>> \o pile \in Seq(Boucles)
        /\ versCommande \o <<Sujet("Dev", x), Sujet(c, x)>> \in Seq(Messages)
    BY <2>4 DEF Boucles, Messages
  <2>6. pile' \in Seq(Boucles) /\ versCommande' \in Seq(Messages)
    BY <1>2, <2>2, <2>5 DEF CoteCallback, Publie, Boucles, Messages
  <2>7. QED
    BY <1>0, <1>2, <2>1, <2>3, <2>6 DEF CoteCallback, Boucles, Messages
<1>3. CASE SpinOnce
  <2>1. pile' \in Seq(Boucles)
    <3>1. CASE UNCHANGED pile
      BY <3>1 DEF Boucles
    <3>2. CASE pile # <<>> /\ pile' = [pile EXCEPT ![1].spin = TRUE]
      <4>1. pile \in Seq(Boucles)
        BY DEF Boucles
      <4>2. QED  BY <3>2, <4>1, ElementsSpin
    <3>3. QED  BY <1>3, <3>1, <3>2 DEF SpinOnce
  <2>2. lot' \in 0..Len(entree')
    BY <1>3 DEF SpinOnce
  <2>3. QED  BY <1>0, <1>3, <2>1, <2>2 DEF SpinOnce, Boucles
<1>4. ASSUME pile # <<>>
      PROVE  /\ Renvoi(Head(pile)) \in Seq(Messages)
             /\ Head(pile).aig \in Aiguillages
             /\ Tail(pile) \in Seq(Boucles)
             /\ [pile EXCEPT ![1].spin = FALSE] \in Seq(Boucles)
  <2>0. pile \in Seq(Boucles)
    BY DEF Boucles
  <2>1. Head(pile) \in Boucles /\ Tail(pile) \in Seq(Boucles)
    BY <1>4, <2>0, ElementsFile
  <2>2. [pile EXCEPT ![1].spin = FALSE] \in Seq(Boucles)
    BY <1>4, <2>0, ElementsSpin
  <2>3. Renvoi(Head(pile)) \in Seq(Messages)
    <3>1. Sujet(Head(pile).cote, Head(pile).aig) \in Messages
      BY <2>1 DEF Sujet, Messages, Boucles
    <3>2. <<Sujet(Head(pile).cote, Head(pile).aig)>> \in Seq(Messages)
      BY <3>1
    <3>3. QED  BY <3>2 DEF Renvoi
  <2>4. QED  BY <2>1, <2>2, <2>3 DEF Boucles
<1>5. CASE TourAVide
  <2>1. versCommande' \in Seq(Messages)
    BY <1>4, <1>5 DEF TourAVide, Publie, Messages
  <2>2. QED  BY <1>0, <1>5, <2>1 DEF TourAVide, Messages
<1>6. CASE FinDeTour
  <2>1. pile # <<>>
    BY <1>6 DEF FinDeTour
  <2>2. <<Sujet("Ver", Head(pile).aig)>> \in Seq(Messages)
    BY <1>4, <2>1 DEF Sujet, Messages
  <2>3. Renvoi(Head(pile)) \o <<Sujet("Ver", Head(pile).aig)>> \in Seq(Messages)
    BY <1>4, <2>1, <2>2
  <2>4. versCommande' \in Seq(Messages) /\ pile' \in Seq(Boucles)
    <3>0. versCommande \in Seq(Messages)
      BY DEF Messages
    <3>1. CASE /\ versCommande' = versCommande \o (Renvoi(Head(pile)) \o <<Sujet("Ver", Head(pile).aig)>>)
                /\ pile' = Tail(pile)
      <4>1. versCommande' \in Seq(Messages)
        BY ONLY <2>3, <3>0, <3>1
      <4>2. QED  BY <1>4, <2>1, <3>1, <4>1
    <3>2. CASE /\ versCommande' = versCommande \o Renvoi(Head(pile))
                /\ pile' = [pile EXCEPT ![1].spin = FALSE]
      <4>1. versCommande' \in Seq(Messages)
        BY ONLY <1>4, <2>1, <3>0, <3>2
      <4>2. QED  BY <1>4, <2>1, <3>2, <4>1
    <3>3. QED  BY <1>6, <3>1, <3>2 DEF FinDeTour, Publie
  <2>5. QED  BY <1>0, <1>6, <2>4 DEF FinDeTour, Messages, Boucles
<1>7. QED  BY <1>1, <1>2, <1>3, <1>5, <1>6 DEF NoeudNext

LEMMA TypePasScene ==
    ASSUME TypeOK, Suite,
           \/ CommandeNext
           \/ StateSwitchCallBack
           \/ SceneNext
    PROVE  TypeOK'
<1> USE DEF TypeOK, Suite
<1>1. ASSUME NEW i \in DOMAIN versCommande, NEW sujets, Recoit(i, sujets)
      PROVE  versCommande' \in Seq(Messages) /\ versCommande[i] \in Messages
  <2>1. versCommande \in Seq(Messages)
    BY DEF Messages
  <2>2. versCommande' = RemoveAt(versCommande, i)
    BY <1>1 DEF Recoit
  <2>3. versCommande[i] \in Messages
    BY <2>1
  <2>4. RemoveAt(versCommande, i) \in Seq(Messages)
    BY <2>1, ElementsRetrait
  <2>5. QED  BY <2>2, <2>3, <2>4
<1>2. ASSUME NEW i \in DOMAIN versCommande, DeverouilleAiguillagesCallback(i)
      PROVE  TypeOK'
  BY <1>1, <1>2 DEF DeverouilleAiguillagesCallback, Recoit, Messages
<1>3. ASSUME NEW i \in DOMAIN versCommande, VerouilleAiguillagesCallback(i)
      PROVE  TypeOK'
  BY <1>1, <1>3 DEF VerouilleAiguillagesCallback, Recoit, Messages
<1>4. ASSUME NEW i \in DOMAIN versCommande, AiguillagesCallback(i)
      PROVE  TypeOK'
  <2>1. versCommande' \in Seq(Messages) /\ versCommande[i] \in Messages
    BY <1>1, <1>4 DEF AiguillagesCallback
  <2>2. Mot(versCommande[i].sujet, versCommande[i].aig) \in Mots
    BY <2>1 DEF Mot, Mots, Messages
  <2>3. actionneurs' \in Seq(Mots)
    BY <1>4, <2>2 DEF AiguillagesCallback
  <2>4. QED  BY <1>4, <2>1, <2>3 DEF AiguillagesCallback, Recoit, Messages
<1>5. CASE StateSwitchCallBack
  <2>1. Head(actionneurs) \in Mots /\ Tail(actionneurs) \in Seq(Mots)
    BY <1>5, ElementsFile DEF StateSwitchCallBack
  <2>2. QED  BY <1>5, <2>1 DEF StateSwitchCallBack, varsNoeud
<1>6. CASE PasScene
  BY <1>6 DEF PasScene, varsNoeud, Cotes
<1>7. ASSUME NEW a \in Aiguillages, Bouge(a)
      PROVE  TypeOK'
  BY <1>7 DEF Bouge, varsNoeud
<1>8. CASE EmetCapteur
  <2>1. ImageScene \in [Cotes -> [Aiguillages -> BOOLEAN]]
    BY DEF ImageScene
  <2>2. Capteur(ImageScene) \in MessagesNoeud
    BY <2>1, MessagesTypes
  <2>3. entree' \in Seq(MessagesNoeud) /\ lot' \in 0..Len(entree')
    BY <1>8, <2>2, ElementsAjout DEF EmetCapteur
  <2>4. QED  BY <1>8, <2>3 DEF EmetCapteur, varsActionneurs
<1>9. QED
  BY <1>2, <1>3, <1>4, <1>5, <1>6, <1>7, <1>8 DEF CommandeNext, SceneNext

LEMMA TypePas == TypeOK /\ [Next]_vars => TypeOK'
<1> SUFFICES ASSUME TypeOK, [Next]_vars  PROVE TypeOK'
  OBVIOUS
<1>1. ASSUME NEW a \in Aiguillages, NEW c \in Cotes, Commande(c, a)
      PROVE  TypeOK'
  <2>1. Ordre(c, a) \in MessagesNoeud
    BY MessagesTypes
  <2>2. entree' \in Seq(MessagesNoeud) /\ lot' \in 0..Len(entree')
    BY <1>1, <2>1, ElementsAjout DEF Commande, TypeOK
  <2>3. QED  BY <1>1, <2>2 DEF Commande, TypeOK, varsActionneurs
<1>2. CASE UNCHANGED vars
  BY <1>2 DEF TypeOK, vars, varsNoeud, varsActionneurs
<1>3. QED
  BY <1>1, <1>2, TypePasNoeud, TypePasScene DEF Next
-----------------------------------------------------------------------------
(* What each change of a sequence does to the predicates on switch a.      *)
LEMMA EntreeInchangee ==
    ASSUME NEW a \in Aiguillages, UNCHANGED entree, aig'[a] = aig[a]
    PROVE  /\ Demande(a)' <=> Demande(a)
           /\ \A i : ImagesJustes(i, a)' <=> ImagesJustes(i, a)
           /\ dernier'[a] = dernier[a] /\ ImagesSuivies(a) => ImagesSuivies(a)'
           /\ dernier'[a] = dernier[a] /\ DemandesSuivies(a) => DemandesSuivies(a)'
  BY DEF Demande, EstOrdre, ImagesJustes, Juste, ImagesSuivies, DemandesSuivies

LEMMA EntreeDefile ==
    ASSUME TypeOK, NEW a \in Aiguillages, entree # <<>>, entree' = Tail(entree),
           UNCHANGED <<aig, dernier>>
    PROVE  /\ Demande(a)' => Demande(a)
           /\ Demande(a) /\ ~EstOrdre(entree[1], a) => Demande(a)'
           /\ DemandesSuivies(a) /\ EstOrdre(entree[1], a) => ~Demande(a)'
           /\ ImagesJustes(1, a) => ImagesJustes(1, a)'
           /\ ImagesSuivies(a) => ImagesSuivies(a)'
           /\ DemandesSuivies(a) => DemandesSuivies(a)'
<1>1. /\ \A k \in DOMAIN entree' : k + 1 \in DOMAIN entree /\ entree'[k] = entree[k + 1]
      /\ \A k \in DOMAIN entree : k # 1 => k - 1 \in DOMAIN entree' /\ entree'[k - 1] = entree[k]
      /\ 1 \in DOMAIN entree
  BY ElementsFile DEF TypeOK
<1>2. DOMAIN entree \subseteq Nat \ {0} /\ DOMAIN entree' \subseteq Nat \ {0}
  <2>1. entree' \in Seq(MessagesNoeud)
    BY ElementsFile DEF TypeOK
  <2>2. QED  BY <2>1 DEF TypeOK
<1>3. ASSUME NEW i \in Nat, ImagesJustes(i + 1, a)
      PROVE  ImagesJustes(i, a)'
  BY <1>1, <1>2, <1>3 DEF ImagesJustes, Juste
<1>4. ImagesJustes(1, a) => ImagesJustes(1, a)'
  BY <1>1, <1>2 DEF ImagesJustes, Juste
<1>5. ImagesSuivies(a) => ImagesSuivies(a)'
  BY <1>1, <1>2, <1>3 DEF ImagesSuivies
<1>6. Demande(a)' => Demande(a)
  BY <1>1 DEF Demande, EstOrdre
<1>7. Demande(a) /\ ~EstOrdre(entree[1], a) => Demande(a)'
  <2>1. SUFFICES ASSUME NEW k \in DOMAIN entree, EstOrdre(entree[k], a), k # 1
                 PROVE  Demande(a)'
    BY DEF Demande
  <2>2. k - 1 \in DOMAIN entree' /\ EstOrdre(entree'[k - 1], a)
    BY <1>1, <2>1
  <2>3. QED  BY <2>2 DEF Demande, EstOrdre
<1>8. DemandesSuivies(a) /\ EstOrdre(entree[1], a) => ~Demande(a)'
  <2>1. SUFFICES ASSUME DemandesSuivies(a), EstOrdre(entree[1], a),
                        NEW k \in DOMAIN entree', EstOrdre(entree'[k], a)
                 PROVE  FALSE
    BY DEF Demande, EstOrdre
  <2>2. k + 1 \in DOMAIN entree /\ EstOrdre(entree[k + 1], a) /\ k + 1 # 1
    BY <1>1, <1>2, <2>1
  <2>3. QED  BY <1>1, <2>1, <2>2 DEF DemandesSuivies
<1>9. DemandesSuivies(a) => DemandesSuivies(a)'
  <2>1. SUFFICES ASSUME DemandesSuivies(a),
                        NEW k \in DOMAIN entree', EstOrdre(entree'[k], a)
                 PROVE  /\ entree'[k].cote = dernier[a]
                        /\ \A j \in DOMAIN entree' : EstOrdre(entree'[j], a) => j = k
    BY DEF DemandesSuivies, EstOrdre
  <2>2. k + 1 \in DOMAIN entree /\ EstOrdre(entree[k + 1], a) /\ entree'[k] = entree[k + 1]
    BY <1>1, <2>1
  <2>3. ASSUME NEW j \in DOMAIN entree', EstOrdre(entree'[j], a)
        PROVE  j = k
    <3>1. j + 1 \in DOMAIN entree /\ EstOrdre(entree[j + 1], a)
      BY <1>1, <2>3
    <3>2. j + 1 = k + 1
      BY <2>1, <2>2, <3>1 DEF DemandesSuivies
    <3>3. QED  BY <1>2, <3>2
  <2>4. QED  BY <2>1, <2>2, <2>3 DEF DemandesSuivies
<1>10. QED  BY <1>4, <1>5, <1>6, <1>7, <1>8, <1>9

LEMMA EntreeRecoit ==
    ASSUME TypeOK, NEW a \in Aiguillages, NEW m \in MessagesNoeud,
           entree' = Append(entree, m), aig'[a] = aig[a],
           m.type = "capteur" => Juste(m.image, a)
    PROVE  /\ Demande(a)' <=> Demande(a) \/ EstOrdre(m, a)
           /\ ImagesJustes(1, a) => ImagesJustes(1, a)'
           /\ ImagesSuivies(a) /\ dernier'[a] = dernier[a] => ImagesSuivies(a)'
           /\ DemandesSuivies(a) /\ dernier'[a] = dernier[a] /\ ~EstOrdre(m, a)
                => DemandesSuivies(a)'
<1>1. PICK n : n = Len(entree) + 1
  OBVIOUS
<1>2. /\ n \in Nat \ {0}
      /\ DOMAIN entree' = DOMAIN entree \cup {n}
      /\ \A k \in DOMAIN entree : entree'[k] = entree[k]
      /\ entree'[n] = m
      /\ DOMAIN entree = 1..(n - 1)
  BY <1>1, ElementsAjout DEF TypeOK
<1>3. Demande(a)' <=> Demande(a) \/ EstOrdre(m, a)
  BY <1>2 DEF Demande, EstOrdre
<1>4. ASSUME NEW i, ImagesJustes(i, a)  PROVE ImagesJustes(i, a)'
  BY <1>2, <1>4 DEF ImagesJustes, Juste
<1>5. ImagesJustes(n, a)'
  BY <1>2 DEF ImagesJustes, Juste
<1>6. ImagesSuivies(a) /\ dernier'[a] = dernier[a] => ImagesSuivies(a)'
  BY <1>2, <1>4, <1>5 DEF ImagesSuivies
<1>7. DemandesSuivies(a) /\ dernier'[a] = dernier[a] /\ ~EstOrdre(m, a) => DemandesSuivies(a)'
  BY <1>2 DEF DemandesSuivies, EstOrdre
<1>8. QED  BY <1>3, <1>4, <1>6, <1>7

LEMMA PileInchangee ==
    ASSUME NEW a \in Aiguillages, UNCHANGED pile
    PROVE  \A c \in Cotes : Attend(c, a)' <=> Attend(c, a)
  BY DEF Attend

LEMMA EnvoisInchanges ==
    ASSUME NEW a \in Aiguillages, UNCHANGED versCommande
    PROVE  \A s : Envoye(s, a)' <=> Envoye(s, a)
  BY DEF Envoye

LEMMA EnvoisPublies ==
    ASSUME TypeOK, NEW a \in Aiguillages, NEW messages \in Seq(Messages), Publie(messages)
    PROVE  \A s : Envoye(s, a)' <=> Envoye(s, a) \/ Contains(messages, Sujet(s, a))
<1>1. versCommande \in Seq(Messages) /\ versCommande' = versCommande \o messages
  BY DEF TypeOK, Messages, Publie
<1>2. \A x : Contains(versCommande', x) <=> Contains(versCommande, x) \/ Contains(messages, x)
  BY <1>1, ElementsSuite
<1>3. QED
  BY <1>2 DEF Envoye, Sujet

(* The command takes one message: what else is under way stays.            *)
LEMMA EnvoisRecus ==
    ASSUME TypeOK, NEW a \in Aiguillages, NEW i \in DOMAIN versCommande,
           versCommande' = RemoveAt(versCommande, i),
           NEW t, NEW x, t = versCommande[i].sujet, x = versCommande[i].aig
    PROVE  /\ x \in Aiguillages
           /\ Envoye(t, x)
           /\ \A s : Envoye(s, a)' => Envoye(s, a)
           /\ \A s : Envoye(s, a) /\ (s # t \/ a # x) => Envoye(s, a)'
<1>1. versCommande \in Seq(Messages) /\ i \in 1..Len(versCommande)
  BY DEF TypeOK, Messages
<1>2. versCommande[i] \in Messages
  BY <1>1
<1>3. x \in Aiguillages /\ versCommande[i] = Sujet(t, x)
  BY <1>2 DEF Messages, Sujet
<1>4. Envoye(t, x)
  BY <1>1, <1>3 DEF Envoye, Contains
<1>5. /\ \A y : Contains(versCommande', y) => Contains(versCommande, y)
      /\ \A y : Contains(versCommande, y) /\ y # versCommande[i] => Contains(versCommande', y)
  BY <1>1, ElementsRetrait
<1>6. \A s : Sujet(s, a) = Sujet(t, x) => s = t /\ a = x
  BY DEF Sujet
<1>7. QED
  BY <1>3, <1>4, <1>5, <1>6 DEF Envoye, Sujet

LEMMA PileEmpilee ==
    ASSUME TypeOK, NEW a \in Aiguillages, NEW c \in Cotes, NEW x \in Aiguillages,
           pile' = <<Boucle(c, x)>> \o pile
    PROVE  \A k \in Cotes : Attend(k, a)' <=> Attend(k, a) \/ (k = c /\ a = x)
<1>1. pile \in Seq(Boucles) /\ Boucle(c, x) \in Boucles
  BY DEF TypeOK, Boucles, Boucle
<1>2. /\ 1 \in DOMAIN pile' /\ pile'[1] = Boucle(c, x)
      /\ \A k \in DOMAIN pile : k + 1 \in DOMAIN pile' /\ pile'[k + 1] = pile[k]
      /\ \A k \in DOMAIN pile' : k # 1 => k - 1 \in DOMAIN pile /\ pile'[k] = pile[k - 1]
  BY <1>1, ElementsEmpile
<1>3. Boucle(c, x).cote = c /\ Boucle(c, x).aig = x
  BY DEF Boucle
<1>4. ASSUME NEW k \in Cotes, Attend(k, a)'
      PROVE  Attend(k, a) \/ (k = c /\ a = x)
  <2>1. PICK i \in DOMAIN pile' : pile'[i].cote = k /\ pile'[i].aig = a
    BY <1>4 DEF Attend
  <2>2. CASE i = 1
    BY <1>2, <1>3, <2>1, <2>2
  <2>3. CASE i # 1
    <3>1. i - 1 \in DOMAIN pile /\ pile[i - 1].cote = k /\ pile[i - 1].aig = a
      BY <1>2, <2>1, <2>3
    <3>2. QED  BY <3>1 DEF Attend
  <2>4. QED  BY <2>2, <2>3
<1>5. ASSUME NEW k \in Cotes, Attend(k, a)
      PROVE  Attend(k, a)'
  <2>1. PICK i \in DOMAIN pile : pile[i].cote = k /\ pile[i].aig = a
    BY <1>5 DEF Attend
  <2>2. i + 1 \in DOMAIN pile' /\ pile'[i + 1].cote = k /\ pile'[i + 1].aig = a
    BY <1>2, <2>1
  <2>3. QED  BY <2>2 DEF Attend
<1>6. ASSUME a = x  PROVE Attend(c, a)'
  BY <1>2, <1>3, <1>6 DEF Attend
<1>7. QED
  BY <1>4, <1>5, <1>6

LEMMA PileMarquee ==
    ASSUME TypeOK, NEW a \in Aiguillages, pile # <<>>, NEW b \in BOOLEAN,
           pile' = [pile EXCEPT ![1].spin = b]
    PROVE  \A k \in Cotes : Attend(k, a)' <=> Attend(k, a)
<1>1. pile \in Seq(Boucles)
  BY DEF TypeOK, Boucles
<1>2. /\ DOMAIN pile' = DOMAIN pile
      /\ \A i \in DOMAIN pile : pile'[i].cote = pile[i].cote /\ pile'[i].aig = pile[i].aig
  BY <1>1, ElementsSpin
<1>3. QED
  BY <1>2 DEF Attend

LEMMA PileDepilee ==
    ASSUME TypeOK, NEW a \in Aiguillages, pile # <<>>, pile' = Tail(pile)
    PROVE  /\ \A k \in Cotes : Attend(k, a)' => Attend(k, a)
           /\ Head(pile).aig # a => \A k \in Cotes : Attend(k, a) => Attend(k, a)'
           /\ Attend(Head(pile).cote, Head(pile).aig)
           /\ Head(pile).cote \in Cotes /\ Head(pile).aig \in Aiguillages
<1>1. pile \in Seq(Boucles)
  BY DEF TypeOK, Boucles
<1>2. /\ Head(pile) \in Boucles /\ Head(pile) = pile[1] /\ 1 \in DOMAIN pile
      /\ \A k \in DOMAIN pile' : k + 1 \in DOMAIN pile /\ pile'[k] = pile[k + 1]
      /\ \A k \in DOMAIN pile : k # 1 => k - 1 \in DOMAIN pile' /\ pile'[k - 1] = pile[k]
  BY <1>1, ElementsFile
<1>3. ASSUME NEW k \in Cotes, Attend(k, a)'
      PROVE  Attend(k, a)
  <2>1. PICK i \in DOMAIN pile' : pile'[i].cote = k /\ pile'[i].aig = a
    BY <1>3 DEF Attend
  <2>2. i + 1 \in DOMAIN pile /\ pile[i + 1].cote = k /\ pile[i + 1].aig = a
    BY <1>2, <2>1
  <2>3. QED  BY <2>2 DEF Attend
<1>4. ASSUME Head(pile).aig # a, NEW k \in Cotes, Attend(k, a)
      PROVE  Attend(k, a)'
  <2>1. PICK i \in DOMAIN pile : pile[i].cote = k /\ pile[i].aig = a
    BY <1>4 DEF Attend
  <2>2. i - 1 \in DOMAIN pile' /\ pile'[i - 1].cote = k /\ pile'[i - 1].aig = a
    BY <1>2, <1>4, <2>1
  <2>3. QED  BY <2>2 DEF Attend
<1>5. /\ Attend(Head(pile).cote, Head(pile).aig)
      /\ Head(pile).cote \in Cotes /\ Head(pile).aig \in Aiguillages
  BY <1>2 DEF Attend, Boucles
<1>6. QED
  BY <1>3, <1>4, <1>5
-----------------------------------------------------------------------------
(* The invariant holds at the start, and every step keeps it.              *)
LEMMA SuiviInit ==
    ASSUME Init, NEW a \in Aiguillages
    PROVE  Suivi(a)
<1>1. /\ entree = <<>> /\ pile = <<>> /\ versCommande = <<>> /\ actionneurs = <<>>
      /\ ~Dx[a] /\ mot = SansMot
      /\ aig[a] = dernier[a] /\ cible[a] = dernier[a]
  BY DEF Init, InitNoeud, InitActionneurs
<1>2. ~Demande(a) /\ \A c : ~Attend(c, a) /\ ~Envoye(c, a)
  BY <1>1 DEF Demande, Attend, Envoye, Contains
<1>3. AigSuivi(a) /\ ImagesSuivies(a) /\ DemandesSuivies(a)
  BY <1>1 DEF AigSuivi, ImagesSuivies, ImagesJustes, DemandesSuivies
<1>4. MessagesSuivis(a) /\ MotsSuivis(a) /\ VerrouSuivi(a) /\ AvantOrdre(a)
  BY <1>1, <1>2 DEF MessagesSuivis, MotsSuivis, VerrouSuivi, AvantOrdre, SansMot
<1>5. QED  BY <1>3, <1>4 DEF Suivi

LEMMA SuiviSwitchSensorCallback ==
    ASSUME InvAiguillages, NEW a \in Aiguillages,
           SwitchSensorCallback, UNCHANGED varsActionneurs, Suite
    PROVE  Suivi(a)'
<1>1. /\ UNCHANGED <<pile, versCommande, Vx, Dx, actionneurs, mot, cible, aig, dernier>>
      /\ entree' = Tail(entree) /\ Aig' = Head(entree).image
  BY DEF SwitchSensorCallback, varsActionneurs, Suite
<1>2. /\ TypeOK /\ Suivi(a) /\ dernier[a] \in Cotes
      /\ entree # <<>> /\ Head(entree) = entree[1] /\ 1 \in DOMAIN entree
      /\ entree[1].type = "capteur"
  BY ElementsFile DEF InvAiguillages, TypeOK, SwitchSensorCallback
<1>3. /\ Demande(a)' <=> Demande(a)
      /\ ImagesJustes(1, a) => ImagesJustes(1, a)'
      /\ ImagesSuivies(a)' /\ DemandesSuivies(a)'
  BY <1>1, <1>2, EntreeDefile DEF Suivi, EstOrdre
<1>4. ImagesJustes(1, a) => Juste(Aig', a) /\ Juste(Aig, a)'
  BY <1>1, <1>2 DEF ImagesJustes, Juste
<1>5. AigSuivi(a)'
  <2>1. SUFFICES ASSUME Aig'[dernier[a]][a]
                 PROVE  aig[a] = dernier[a] /\ ImagesJustes(1, a)'
    BY <1>1 DEF AigSuivi
  <2>2. ImagesJustes(1, a)
    BY <1>1, <1>2, <2>1 DEF Suivi, ImagesSuivies
  <2>3. QED  BY <1>2, <1>3, <1>4, <2>1, <2>2 DEF Juste
<1>6. EnPlace(a) => EnPlace(a)'
  BY <1>1, <1>3, <1>4, PileInchangee, EnvoisInchanges DEF EnPlace, EnMot
<1>7. MessagesSuivis(a)' /\ VerrouSuivi(a)'
  BY <1>1, <1>2, <1>3, PileInchangee, EnvoisInchanges
  DEF Suivi, MessagesSuivis, VerrouSuivi
<1>8. MotsSuivis(a)'
  BY <1>1, <1>2 DEF Suivi, MotsSuivis
<1>9. QED
  BY <1>2, <1>3, <1>5, <1>6, <1>7, <1>8 DEF Suivi, AvantOrdre

LEMMA SuiviSpinOnce ==
    ASSUME InvAiguillages, NEW a \in Aiguillages,
           SpinOnce, UNCHANGED varsActionneurs, Suite
    PROVE  Suivi(a)'
<1>1. /\ UNCHANGED <<entree, Aig, versCommande, Vx, Dx, actionneurs, mot, cible, aig, dernier>>
      /\ TypeOK /\ Suivi(a) /\ dernier[a] \in Cotes
  BY DEF InvAiguillages, TypeOK, SpinOnce, varsActionneurs, Suite
<1>2. \A c \in Cotes : Attend(c, a)' <=> Attend(c, a)
  BY <1>1, PileInchangee, PileMarquee DEF SpinOnce
<1>3. QED
  BY <1>1, <1>2, EntreeInchangee, EnvoisInchanges
  DEF Suivi, AigSuivi, AvantOrdre, EnPlace, EnMot, MessagesSuivis, VerrouSuivi, MotsSuivis, Juste

LEMMA SuiviCoteCallback ==
    ASSUME InvAiguillages, NEW a \in Aiguillages,
           CoteCallback, UNCHANGED varsActionneurs, Suite
    PROVE  Suivi(a)'
<1>1. /\ UNCHANGED <<Aig, Vx, Dx, actionneurs, mot, cible, aig, dernier>>
      /\ entree' = Tail(entree)
  BY DEF CoteCallback, varsActionneurs, Suite
<1>2. /\ TypeOK /\ Suivi(a) /\ dernier[a] \in Cotes
      /\ entree # <<>> /\ Head(entree) = entree[1] /\ 1 \in DOMAIN entree
      /\ entree[1].type = "ordre" /\ entree[1] \in MessagesNoeud
  BY ElementsFile DEF InvAiguillages, TypeOK, CoteCallback
<1>3. PICK c \in Cotes, x \in Aiguillages : entree[1].cote = c /\ entree[1].aig = x
  BY <1>2, MessagesTypes
<1>4. /\ ImagesJustes(1, a) => ImagesJustes(1, a)'
      /\ ImagesSuivies(a)' /\ DemandesSuivies(a)'
      /\ Demande(a)' => Demande(a)
  BY <1>1, <1>2, EntreeDefile DEF Suivi
<1>5. CASE UNCHANGED <<pile, versCommande>> /\ x # a
  <2>1. Demande(a)' <=> Demande(a)
    BY <1>1, <1>2, <1>3, <1>5, EntreeDefile DEF EstOrdre
  <2>2. QED
    BY <1>1, <1>2, <1>4, <1>5, <2>1, PileInchangee, EnvoisInchanges
    DEF Suivi, AigSuivi, AvantOrdre, EnPlace, EnMot, MessagesSuivis, VerrouSuivi, MotsSuivis, Juste
<1>6. /\ <<Sujet("Dev", x), Sujet(c, x)>> \in Seq(Messages)
      /\ \A s : Contains(<<Sujet("Dev", x), Sujet(c, x)>>, Sujet(s, a))
                  <=> x = a /\ s \in {"Dev", c}
  <2>1. Sujet("Dev", x) \in Messages /\ Sujet(c, x) \in Messages
    BY DEF Sujet, Messages
  <2>2. \A y, z, w : Contains(<<y, z>>, w) <=> w \in {y, z}
    BY DEF Contains
  <2>3. QED  BY <2>1, <2>2 DEF Sujet
<1>7. CASE /\ pile' = <<Boucle(c, x)>> \o pile
           /\ Publie(<<Sujet("Dev", x), Sujet(c, x)>>)
           /\ x # a
  <2>1. Demande(a)' <=> Demande(a)
    BY <1>1, <1>2, <1>3, <1>7, EntreeDefile DEF EstOrdre
  <2>2. /\ \A k \in Cotes : Attend(k, a)' <=> Attend(k, a)
        /\ \A s : Envoye(s, a)' <=> Envoye(s, a)
    BY <1>2, <1>6, <1>7, PileEmpilee, EnvoisPublies
  <2>3. QED
    BY <1>1, <1>2, <1>4, <2>1, <2>2
    DEF Suivi, AigSuivi, AvantOrdre, EnPlace, EnMot, MessagesSuivis, VerrouSuivi, MotsSuivis, Juste
<1>8. x = a => /\ c = dernier[a] /\ EnPlace(a) /\ ~Demande(a)'
  <2>1. x = a => EstOrdre(entree[1], a)
    BY <1>2, <1>3 DEF EstOrdre
  <2>2. x = a => Demande(a)
    BY <1>2, <2>1 DEF Demande
  <2>3. QED
    BY <1>1, <1>2, <1>3, <2>1, <2>2, EntreeDefile
    DEF Suivi, DemandesSuivies, AvantOrdre
<1>9. CASE UNCHANGED <<pile, versCommande>> /\ x = a /\ Aig[c][a]
  <2>1. aig[a] = dernier[a]
    BY <1>2, <1>8, <1>9 DEF Suivi, AigSuivi
  <2>2. QED
    BY <1>1, <1>2, <1>4, <1>8, <1>9, <2>1, PileInchangee, EnvoisInchanges
    DEF Suivi, AigSuivi, AvantOrdre, MessagesSuivis, VerrouSuivi, MotsSuivis, Juste
<1>10. CASE /\ pile' = <<Boucle(c, x)>> \o pile
            /\ Publie(<<Sujet("Dev", x), Sujet(c, x)>>)
            /\ x = a /\ ~Aig[c][a]
  <2>1. /\ \A k \in Cotes : Attend(k, a)' <=> k = c
        /\ \A s \in Cotes \cup {"Dev", "Ver"} : Envoye(s, a)' <=> s \in {"Dev", c}
    BY <1>2, <1>6, <1>8, <1>10, PileEmpilee, EnvoisPublies DEF EnPlace
  <2>2. aig[a] # dernier[a] /\ aig[a] = cible[a] /\ cible[a] \in Cotes
    BY <1>2, <1>8, <1>10 DEF EnPlace, Juste, TypeOK
  <2>3. AigSuivi(a)'
    BY <1>1, <1>8, <1>10 DEF AigSuivi
  <2>4. MessagesSuivis(a)' /\ VerrouSuivi(a)'
    <3>1. Attend(dernier[a], a)' /\ Envoye("Dev", a)' /\ ~Envoye("Ver", a)'
      BY <1>1, <1>8, <1>10, <2>1 DEF Cotes
    <3>2. \A k \in Cotes : Attend(k, a)' \/ Envoye(k, a)' => k = dernier[a]
      BY <1>8, <1>10, <2>1 DEF Cotes
    <3>3. aig[a] # "M"
      BY <2>2 DEF Cotes
    <3>4. MessagesSuivis(a)'
      BY <1>1, <2>2, <3>1, <3>2, <3>3 DEF MessagesSuivis
    <3>5. ~Dx[a]
      BY <1>8, <1>10 DEF EnPlace
    <3>6. VerrouSuivi(a)'
      BY <1>1, <3>1, <3>5 DEF VerrouSuivi
    <3>7. QED  BY <3>4, <3>6
  <2>5. MotsSuivis(a)'
    BY <1>1, <1>2 DEF Suivi, MotsSuivis
  <2>6. QED
    BY <1>4, <1>8, <1>10, <2>3, <2>4, <2>5 DEF Suivi, AvantOrdre
<1>11. \/ UNCHANGED <<pile, versCommande>> /\ Aig[c][x]
       \/ /\ pile' = <<Boucle(c, x)>> \o pile
          /\ Publie(<<Sujet("Dev", x), Sujet(c, x)>>)
          /\ ~Aig[c][x]
  BY <1>2, <1>3 DEF CoteCallback
<1>12. QED
  BY <1>5, <1>7, <1>9, <1>10, <1>11

(* The node sends the order again: only for the side its loop waits for.   *)
LEMMA EnvoisRenvoyes ==
    ASSUME InvAiguillages, pile # <<>>
    PROVE  /\ Head(pile).cote = dernier[Head(pile).aig]
           /\ Head(pile).cote \in Cotes /\ Head(pile).aig \in Aiguillages
           /\ Attend(Head(pile).cote, Head(pile).aig)
           /\ Renvoi(Head(pile)) \in Seq(Messages)
           /\ \A s, a : Contains(Renvoi(Head(pile)), Sujet(s, a))
                          => a = Head(pile).aig /\ s = dernier[a]
<1>1. Head(pile) = pile[1] /\ 1 \in DOMAIN pile /\ Head(pile) \in Boucles
  BY ElementsFile DEF InvAiguillages, TypeOK, Boucles
<1>2. PICK c \in Cotes, x \in Aiguillages : c = Head(pile).cote /\ x = Head(pile).aig
  BY <1>1 DEF Boucles
<1>3. Attend(c, x)
  BY <1>1, <1>2 DEF Attend
<1>4. c = dernier[x]
  BY <1>3 DEF InvAiguillages, Suivi, MessagesSuivis
<1>5. Renvoi(Head(pile)) \in {<<>>, <<Sujet(c, x)>>}
  BY <1>2 DEF Renvoi
<1>6. Sujet(c, x) \in Messages
  BY DEF Sujet, Messages
<1>7. Renvoi(Head(pile)) \in Seq(Messages)
  <2>1. <<>> \in Seq(Messages) /\ <<Sujet(c, x)>> \in Seq(Messages)
    BY <1>6
  <2>2. QED  BY <1>5, <2>1
<1>8. ASSUME NEW s, NEW a, Contains(Renvoi(Head(pile)), Sujet(s, a))
      PROVE  a = x /\ s = c
  <2>1. \A y, w : (Contains(<<y>>, w) => w = y) /\ ~Contains(<<>>, w)
    BY DEF Contains
  <2>2. Sujet(s, a) = Sujet(c, x)
    BY <1>5, <1>8, <2>1
  <2>3. QED  BY <2>2 DEF Sujet
<1>9. QED
  BY <1>2, <1>3, <1>4, <1>7, <1>8

LEMMA SuiviTourAVide ==
    ASSUME InvAiguillages, NEW a \in Aiguillages,
           TourAVide, UNCHANGED varsActionneurs, Suite
    PROVE  Suivi(a)'
<1>1. /\ UNCHANGED <<entree, Aig, pile, Vx, Dx, actionneurs, mot, cible, aig, dernier>>
      /\ TypeOK /\ Suivi(a) /\ dernier[a] \in Cotes /\ pile # <<>>
      /\ Publie(Renvoi(Head(pile)))
  BY DEF InvAiguillages, TypeOK, TourAVide, varsActionneurs, Suite
<1>2. \A s : Envoye(s, a)' <=> Envoye(s, a) \/ Contains(Renvoi(Head(pile)), Sujet(s, a))
  BY <1>1, EnvoisRenvoyes, EnvoisPublies
<1>3. /\ \A s : Envoye(s, a) => Envoye(s, a)'
      /\ \A s : Envoye(s, a)' /\ ~Envoye(s, a) => s = dernier[a] /\ Attend(s, a)
  BY <1>1, <1>2, EnvoisRenvoyes
<1>4. ASSUME \A c \in Cotes : ~Attend(c, a)
      PROVE  \A s : Envoye(s, a)' <=> Envoye(s, a)
  BY <1>1, <1>3, <1>4
<1>5. QED
  BY <1>1, <1>3, <1>4, EntreeInchangee, PileInchangee
  DEF Suivi, AigSuivi, AvantOrdre, EnPlace, EnMot, MessagesSuivis, VerrouSuivi, MotsSuivis, Juste, Cotes

LEMMA SuiviFinDeTour ==
    ASSUME InvAiguillages, NEW a \in Aiguillages,
           FinDeTour, UNCHANGED varsActionneurs, Suite
    PROVE  Suivi(a)'
<1>1. /\ UNCHANGED <<entree, Aig, Vx, Dx, actionneurs, mot, cible, aig, dernier>>
      /\ TypeOK /\ Suivi(a) /\ dernier[a] \in Cotes /\ pile # <<>>
  BY DEF InvAiguillages, TypeOK, FinDeTour, varsActionneurs, Suite
<1>2. PICK c \in Cotes, x \in Aiguillages, m \in Seq(Messages) :
        /\ c = Head(pile).cote /\ x = Head(pile).aig /\ m = Renvoi(Head(pile))
        /\ c = dernier[x] /\ Attend(c, x)
        /\ \A s, b : Contains(m, Sujet(s, b)) => b = x /\ s = c
  BY <1>1, EnvoisRenvoyes
<1>3. CASE ~Aig[c][x]
  <2>1. Publie(m) /\ pile' = [pile EXCEPT ![1].spin = FALSE]
    BY <1>2, <1>3 DEF FinDeTour
  <2>2. \A k \in Cotes : Attend(k, a)' <=> Attend(k, a)
    BY <1>1, <2>1, PileMarquee
  <2>3. /\ \A s : Envoye(s, a) => Envoye(s, a)'
        /\ \A s : Envoye(s, a)' /\ ~Envoye(s, a) => s = dernier[a] /\ Attend(s, a)
    BY <1>1, <1>2, <2>1, EnvoisPublies
  <2>4. ASSUME \A k \in Cotes : ~Attend(k, a)
        PROVE  \A s : Envoye(s, a)' <=> Envoye(s, a)
    BY <1>1, <2>3, <2>4
  <2>5. QED
    BY <1>1, <2>2, <2>3, <2>4, EntreeInchangee
    DEF Suivi, AigSuivi, AvantOrdre, EnPlace, EnMot, MessagesSuivis, VerrouSuivi, MotsSuivis, Juste, Cotes
<1>4. CASE Aig[c][x]
  <2>1. Publie(m \o <<Sujet("Ver", x)>>) /\ pile' = Tail(pile)
    BY <1>2, <1>4 DEF FinDeTour
  <2>2. /\ m \o <<Sujet("Ver", x)>> \in Seq(Messages)
        /\ \A s, b : Contains(m \o <<Sujet("Ver", x)>>, Sujet(s, b))
                       => b = x /\ s \in {c, "Ver"}
        /\ Contains(m \o <<Sujet("Ver", x)>>, Sujet("Ver", x))
    <3>1. Sujet("Ver", x) \in Messages
      BY DEF Sujet, Messages
    <3>2. <<Sujet("Ver", x)>> \in Seq(Messages)
      BY <3>1
    <3>3. \A y : Contains(m \o <<Sujet("Ver", x)>>, y)
                   <=> Contains(m, y) \/ Contains(<<Sujet("Ver", x)>>, y)
      BY <3>2, ElementsSuite
    <3>4. \A y, z : Contains(<<y>>, z) <=> z = y
      BY DEF Contains
    <3>5. \A s, b : Sujet(s, b) = Sujet("Ver", x) => s = "Ver" /\ b = x
      BY DEF Sujet
    <3>6. m \o <<Sujet("Ver", x)>> \in Seq(Messages)
      BY <3>2
    <3>7. QED  BY <1>2, <3>3, <3>4, <3>5, <3>6
  <2>3. /\ \A s : Envoye(s, a) => Envoye(s, a)'
        /\ \A s : Envoye(s, a)' /\ ~Envoye(s, a) => a = x /\ s \in {c, "Ver"}
        /\ a = x => Envoye("Ver", a)'
    BY <1>1, <2>1, <2>2, EnvoisPublies
  <2>4. /\ \A k \in Cotes : Attend(k, a)' => Attend(k, a)
        /\ x # a => \A k \in Cotes : Attend(k, a) => Attend(k, a)'
    BY <1>1, <1>2, <2>1, PileDepilee
  <2>5. CASE x # a
    <3>1. /\ \A k \in Cotes : Attend(k, a)' <=> Attend(k, a)
          /\ \A s : Envoye(s, a)' <=> Envoye(s, a)
      BY <2>3, <2>4, <2>5
    <3>2. QED
      BY <1>1, <3>1, EntreeInchangee
      DEF Suivi, AigSuivi, AvantOrdre, EnPlace, EnMot, MessagesSuivis, VerrouSuivi, MotsSuivis, Juste
  <2>6. CASE x = a
    <3>1. aig[a] = dernier[a]
      BY <1>1, <1>2, <1>4, <2>6 DEF Suivi, AigSuivi
    <3>2. ~Demande(a) /\ ~Demande(a)'
      BY <1>1, <1>2, <2>6, EntreeInchangee DEF Suivi, AvantOrdre, EnPlace
    <3>3. ~Envoye("Dev", a) /\ ~Envoye("Dev", a)'
      BY <1>1, <2>3, <3>1 DEF Suivi, MessagesSuivis, Cotes
    <3>4. MessagesSuivis(a)'
      BY <1>1, <1>2, <2>3, <2>4, <2>6, <3>1, <3>3 DEF Suivi, MessagesSuivis, Cotes
    <3>5. VerrouSuivi(a)' /\ MotsSuivis(a)'
      BY <1>1, <2>3, <2>6, <3>1 DEF Suivi, VerrouSuivi, MotsSuivis
    <3>6. QED
      BY <1>1, <3>2, <3>4, <3>5, EntreeInchangee DEF Suivi, AigSuivi, AvantOrdre
  <2>7. QED  BY <2>5, <2>6
<1>5. QED  BY <1>3, <1>4

LEMMA SuiviDeverouille ==
    ASSUME InvAiguillages, NEW a \in Aiguillages, NEW i \in DOMAIN versCommande,
           DeverouilleAiguillagesCallback(i), Suite
    PROVE  Suivi(a)'
<1>1. /\ UNCHANGED <<entree, pile, Aig, actionneurs, mot, cible, aig, dernier>>
      /\ versCommande' = RemoveAt(versCommande, i)
      /\ TypeOK /\ Suivi(a) /\ dernier[a] \in Cotes
  BY DEF InvAiguillages, TypeOK, DeverouilleAiguillagesCallback, Recoit, Suite
<1>2. PICK x : x = versCommande[i].aig /\ versCommande[i].sujet = "Dev"
  BY DEF DeverouilleAiguillagesCallback, Recoit
<1>3. /\ x \in Aiguillages /\ Envoye("Dev", x)
      /\ \A s : Envoye(s, a)' => Envoye(s, a)
      /\ \A s : Envoye(s, a) /\ (s # "Dev" \/ a # x) => Envoye(s, a)'
  BY <1>1, <1>2, EnvoisRecus
<1>4. CASE x # a
  <2>1. \A s : Envoye(s, a)' <=> Envoye(s, a)
    BY <1>3, <1>4
  <2>2. Dx'[a] = Dx[a] /\ Vx'[a] = Vx[a]
    BY <1>1, <1>2, <1>4 DEF TypeOK, DeverouilleAiguillagesCallback
  <2>3. QED
    BY <1>1, <2>1, <2>2, EntreeInchangee, PileInchangee
    DEF Suivi, AigSuivi, AvantOrdre, EnPlace, EnMot, MessagesSuivis, VerrouSuivi, MotsSuivis, Juste
<1>5. CASE x = a
  <2>1. Dx'[a] /\ ~Vx'[a] /\ Attend(dernier[a], a)
    <3>1. Dx'[a] = TRUE /\ Vx'[a] = FALSE
      BY <1>1, <1>2, <1>5 DEF TypeOK, DeverouilleAiguillagesCallback
    <3>2. Attend(dernier[a], a)
      BY <1>1, <1>3, <1>5 DEF Suivi, MessagesSuivis
    <3>3. QED  BY <3>1, <3>2
  <2>2. ~Demande(a) /\ ~Demande(a)'
    BY <1>1, <2>1, EntreeInchangee DEF Suivi, AvantOrdre, EnPlace
  <2>3. QED
    BY <1>1, <1>3, <2>1, <2>2, EntreeInchangee, PileInchangee
    DEF Suivi, AigSuivi, AvantOrdre, MessagesSuivis, VerrouSuivi, MotsSuivis
<1>6. QED  BY <1>4, <1>5

LEMMA SuiviVerouille ==
    ASSUME InvAiguillages, NEW a \in Aiguillages, NEW i \in DOMAIN versCommande,
           VerouilleAiguillagesCallback(i), Suite
    PROVE  Suivi(a)'
<1>1. /\ UNCHANGED <<entree, pile, Aig, actionneurs, mot, cible, aig, dernier>>
      /\ versCommande' = RemoveAt(versCommande, i)
      /\ TypeOK /\ Suivi(a) /\ dernier[a] \in Cotes
  BY DEF InvAiguillages, TypeOK, VerouilleAiguillagesCallback, Recoit, Suite
<1>2. PICK x : x = versCommande[i].aig /\ versCommande[i].sujet = "Ver"
  BY DEF VerouilleAiguillagesCallback, Recoit
<1>3. /\ x \in Aiguillages /\ Envoye("Ver", x)
      /\ \A s : Envoye(s, a)' => Envoye(s, a)
      /\ \A s : Envoye(s, a) /\ (s # "Ver" \/ a # x) => Envoye(s, a)'
  BY <1>1, <1>2, EnvoisRecus
<1>4. CASE x # a
  <2>1. \A s : Envoye(s, a)' <=> Envoye(s, a)
    BY <1>3, <1>4
  <2>2. Dx'[a] = Dx[a] /\ Vx'[a] = Vx[a]
    BY <1>1, <1>2, <1>4 DEF TypeOK, VerouilleAiguillagesCallback
  <2>3. QED
    BY <1>1, <2>1, <2>2, EntreeInchangee, PileInchangee
    DEF Suivi, AigSuivi, AvantOrdre, EnPlace, EnMot, MessagesSuivis, VerrouSuivi, MotsSuivis, Juste
<1>5. CASE x = a
  <2>1. ~Dx'[a] /\ aig[a] = dernier[a]
    <3>1. Dx'[a] = FALSE
      BY <1>1, <1>2, <1>5 DEF TypeOK, VerouilleAiguillagesCallback
    <3>2. aig[a] = dernier[a]
      BY <1>1, <1>3, <1>5 DEF Suivi, MessagesSuivis
    <3>3. QED  BY <3>1, <3>2
  <2>2. ~Demande(a) /\ ~Demande(a)'
    BY <1>1, <1>3, <1>5, EntreeInchangee DEF Suivi, AvantOrdre, EnPlace
  <2>3. QED
    BY <1>1, <1>3, <2>1, <2>2, EntreeInchangee, PileInchangee
    DEF Suivi, AigSuivi, AvantOrdre, MessagesSuivis, VerrouSuivi, MotsSuivis
<1>6. QED  BY <1>4, <1>5

LEMMA SuiviAiguillagesCallback ==
    ASSUME InvAiguillages, NEW a \in Aiguillages, NEW i \in DOMAIN versCommande,
           AiguillagesCallback(i), Suite
    PROVE  Suivi(a)'
<1>1. /\ UNCHANGED <<entree, pile, Aig, Vx, Dx, mot, cible, aig, dernier>>
      /\ versCommande' = RemoveAt(versCommande, i)
      /\ actionneurs' = Append(actionneurs, Mot(versCommande[i].sujet, versCommande[i].aig))
      /\ TypeOK /\ Suivi(a) /\ dernier[a] \in Cotes
  BY DEF InvAiguillages, TypeOK, AiguillagesCallback, Recoit, Suite
<1>2. PICK c, x : c \in Cotes /\ c = versCommande[i].sujet /\ x = versCommande[i].aig
  BY DEF AiguillagesCallback, Recoit
<1>3. /\ c \in Cotes /\ x \in Aiguillages /\ Envoye(c, x)
      /\ \A s : Envoye(s, a)' => Envoye(s, a)
      /\ \A s : Envoye(s, a) /\ (s # c \/ a # x) => Envoye(s, a)'
  BY <1>1, <1>2, EnvoisRecus
<1>4. PICK m \in Mots :
        /\ actionneurs' = Append(actionneurs, m)
        /\ a \in m.RD => c = "D" /\ x = a
        /\ a \in m.RG => c = "G" /\ x = a
  <2>1. Mot(c, x) \in Mots
    BY <1>3 DEF Mot, Mots
  <2>2. actionneurs' = Append(actionneurs, Mot(c, x))
    BY <1>1, <1>2
  <2>3. (a \in Mot(c, x).RD => c = "D" /\ x = a) /\ (a \in Mot(c, x).RG => c = "G" /\ x = a)
    BY DEF Mot
  <2>4. QED  BY <2>1, <2>2, <2>3
<1>5. /\ DOMAIN actionneurs' = DOMAIN actionneurs \cup {Len(actionneurs) + 1}
      /\ \A k \in DOMAIN actionneurs : actionneurs'[k] = actionneurs[k]
      /\ actionneurs'[Len(actionneurs) + 1] = m
  BY <1>1, <1>4, ElementsAjout DEF TypeOK
<1>6. x = a => c = dernier[a]
  BY <1>1, <1>3 DEF Suivi, MessagesSuivis
<1>7. MotsSuivis(a)'
  BY <1>1, <1>4, <1>5, <1>6 DEF Suivi, MotsSuivis
<1>8. EnPlace(a) => EnPlace(a)'
  <2>1. EnPlace(a) => x # a
    BY <1>3 DEF EnPlace
  <2>2. x # a => (EnMot(a)' <=> EnMot(a))
    BY <1>4, <1>5 DEF EnMot
  <2>3. QED
    BY <1>1, <1>3, <2>1, <2>2, EntreeInchangee, PileInchangee DEF EnPlace, Juste
<1>9. MessagesSuivis(a)' /\ VerrouSuivi(a)'
  <2>1. (Envoye("Dev", a)' <=> Envoye("Dev", a)) /\ (Envoye("Ver", a)' <=> Envoye("Ver", a))
    BY <1>3 DEF Cotes
  <2>2. QED
    BY <1>1, <1>3, <2>1, EntreeInchangee, PileInchangee DEF Suivi, MessagesSuivis, VerrouSuivi
<1>10. QED
  BY <1>1, <1>7, <1>8, <1>9, EntreeInchangee DEF Suivi, AigSuivi, AvantOrdre

LEMMA SuiviStateSwitchCallBack ==
    ASSUME InvAiguillages, NEW a \in Aiguillages, StateSwitchCallBack, Suite
    PROVE  Suivi(a)'
<1>1. /\ UNCHANGED <<entree, pile, Aig, versCommande, Vx, Dx, cible, aig, dernier>>
      /\ mot' = Head(actionneurs) /\ actionneurs' = Tail(actionneurs)
      /\ TypeOK /\ Suivi(a) /\ dernier[a] \in Cotes
  BY DEF InvAiguillages, TypeOK, StateSwitchCallBack, varsNoeud, Suite
<1>2. /\ mot' = actionneurs[1] /\ 1 \in DOMAIN actionneurs
      /\ \A k \in DOMAIN actionneurs' : k + 1 \in DOMAIN actionneurs /\ actionneurs'[k] = actionneurs[k + 1]
  BY <1>1, ElementsFile DEF StateSwitchCallBack, TypeOK
<1>3. MotsSuivis(a)'
  BY <1>1, <1>2 DEF Suivi, MotsSuivis
<1>4. EnPlace(a) => EnPlace(a)'
  <2>1. (EnMot(a)' => EnMot(a)) /\ (~EnMot(a) => a \notin mot'.RD /\ a \notin mot'.RG)
    BY <1>2 DEF EnMot
  <2>2. QED
    BY <1>1, <2>1, EntreeInchangee, PileInchangee, EnvoisInchanges DEF EnPlace, Juste
<1>5. QED
  BY <1>1, <1>3, <1>4, EntreeInchangee, PileInchangee, EnvoisInchanges
  DEF Suivi, AigSuivi, AvantOrdre, MessagesSuivis, VerrouSuivi

LEMMA SuiviPasScene ==
    ASSUME InvAiguillages, NEW a \in Aiguillages, PasScene, Suite
    PROVE  Suivi(a)'
<1>1. /\ UNCHANGED <<entree, pile, Aig, versCommande, Vx, Dx, actionneurs, mot, aig, dernier>>
      /\ cible'[a] = IF a \in mot.RD THEN "D" ELSE IF a \in mot.RG THEN "G" ELSE cible[a]
      /\ TypeOK /\ Suivi(a) /\ dernier[a] \in Cotes
  BY DEF InvAiguillages, TypeOK, PasScene, varsNoeud, Suite
<1>2. MotsSuivis(a)'
  BY <1>1 DEF Suivi, MotsSuivis
<1>3. EnPlace(a) => EnPlace(a)'
  BY <1>1, EntreeInchangee, PileInchangee, EnvoisInchanges DEF EnPlace, EnMot, Juste
<1>4. QED
  BY <1>1, <1>2, <1>3, EntreeInchangee, PileInchangee, EnvoisInchanges
  DEF Suivi, AigSuivi, AvantOrdre, MessagesSuivis, VerrouSuivi

(* A switch that leaves its stop or reaches the other one was unlocked for *)
(* that, and goes to the side last asked for.                              *)
LEMMA BougeVers ==
    ASSUME InvAiguillages, NEW a \in Aiguillages, Bouge(a)
    PROVE  /\ cible[a] = dernier[a] /\ aig[a] # dernier[a]
           /\ \A s : ~Envoye(s, a)
           /\ Attend(dernier[a], a) /\ Dx[a] /\ ~Vx[a]
           /\ ~Demande(a)
<1>1. /\ Suivi(a) /\ TypeOK /\ aig[a] # cible[a]
      /\ \A i \in DOMAIN versCommande : versCommande[i].aig # a
  BY DEF InvAiguillages, Bouge
<1>2. ASSUME NEW s  PROVE ~Envoye(s, a)
  BY <1>1 DEF Envoye, Contains, Sujet, TypeOK
<1>3. cible[a] = dernier[a]
  BY <1>1 DEF Suivi, MotsSuivis
<1>4. ~Demande(a)
  BY <1>1 DEF Suivi, AvantOrdre, EnPlace
<1>5. QED
  BY <1>1, <1>2, <1>3, <1>4 DEF Suivi, VerrouSuivi

LEMMA SuiviBouge ==
    ASSUME InvAiguillages, NEW a \in Aiguillages, NEW b \in Aiguillages, Bouge(b), Suite
    PROVE  Suivi(a)'
<1>1. /\ UNCHANGED <<entree, pile, Aig, versCommande, Vx, Dx, actionneurs, mot, cible, dernier>>
      /\ TypeOK /\ Suivi(a) /\ dernier[a] \in Cotes
  BY DEF InvAiguillages, TypeOK, Bouge, varsNoeud, Suite
<1>2. CASE a # b
  <2>1. aig'[a] = aig[a]
    BY <1>2 DEF Bouge
  <2>2. QED
    BY <1>1, <2>1, EntreeInchangee, PileInchangee, EnvoisInchanges
    DEF Suivi, AigSuivi, AvantOrdre, EnPlace, EnMot, MessagesSuivis, VerrouSuivi, MotsSuivis, Juste
<1>3. CASE a = b
  <2>1. /\ cible[a] = dernier[a] /\ aig[a] # dernier[a]
        /\ \A s : ~Envoye(s, a)
        /\ Attend(dernier[a], a) /\ Dx[a] /\ ~Vx[a]
        /\ ~Demande(a)
    BY <1>3, BougeVers
  <2>2. ~Demande(a)'
    BY <1>1, <2>1 DEF Demande, EstOrdre
  <2>3. AigSuivi(a)'
    BY <1>1, <2>1 DEF Suivi, AigSuivi
  <2>4. ImagesSuivies(a)'
    <3>1. SUFFICES ASSUME NEW i \in DOMAIN entree, entree[i].type = "capteur",
                          entree[i].image[dernier[a]][a]
                   PROVE  FALSE
      BY <1>1 DEF ImagesSuivies
    <3>2. ImagesJustes(i, a)
      BY <1>1, <3>1 DEF Suivi, ImagesSuivies
    <3>3. i \in Nat
      BY <1>1 DEF TypeOK
    <3>4. Juste(entree[i].image, a)
      BY <3>1, <3>2, <3>3 DEF ImagesJustes
    <3>5. QED  BY <1>1, <2>1, <3>1, <3>4 DEF Juste
  <2>5. DemandesSuivies(a)'
    BY <1>1 DEF Suivi, DemandesSuivies
  <2>6. MessagesSuivis(a)' /\ VerrouSuivi(a)' /\ MotsSuivis(a)'
    BY <1>1, <2>1, PileInchangee, EnvoisInchanges
    DEF Suivi, MessagesSuivis, VerrouSuivi, MotsSuivis
  <2>7. QED
    BY <2>2, <2>3, <2>4, <2>5, <2>6 DEF Suivi, AvantOrdre
<1>4. QED  BY <1>2, <1>3

LEMMA SuiviEmetCapteur ==
    ASSUME InvAiguillages, NEW a \in Aiguillages, EmetCapteur, Suite
    PROVE  Suivi(a)'
<1>1. /\ UNCHANGED <<pile, Aig, versCommande, Vx, Dx, actionneurs, mot, cible, aig, dernier>>
      /\ entree' = Append(entree, Capteur(ImageScene))
      /\ TypeOK /\ Suivi(a) /\ dernier[a] \in Cotes
  BY DEF InvAiguillages, TypeOK, EmetCapteur, varsActionneurs, Suite
<1>2. /\ Capteur(ImageScene) \in MessagesNoeud
      /\ Juste(Capteur(ImageScene).image, a)
      /\ ~EstOrdre(Capteur(ImageScene), a)
  <2>1. ImageScene \in [Cotes -> [Aiguillages -> BOOLEAN]]
    BY DEF ImageScene
  <2>2. Juste(ImageScene, a)
    BY DEF ImageScene, Juste
  <2>3. QED  BY <2>1, <2>2, MessagesTypes DEF Capteur, EstOrdre
<1>3. /\ Demande(a)' <=> Demande(a)
      /\ ImagesJustes(1, a) => ImagesJustes(1, a)'
      /\ ImagesSuivies(a)' /\ DemandesSuivies(a)'
  BY <1>1, <1>2, EntreeRecoit DEF Suivi
<1>4. QED
  BY <1>1, <1>3, PileInchangee, EnvoisInchanges
  DEF Suivi, AigSuivi, AvantOrdre, EnPlace, EnMot, MessagesSuivis, VerrouSuivi, MotsSuivis, Juste

(* Nothing about the switch is under way.                                  *)
LEMMA RienEnCours ==
    ASSUME TypeOK, NEW a \in Aiguillages
    PROVE  EnCours(a) <=>
             \/ Demande(a)
             \/ \E c \in Cotes : Attend(c, a)
             \/ \E s \in Cotes \cup {"Dev", "Ver"} : Envoye(s, a)
             \/ EnMot(a)
<1>1. ASSUME NEW i \in DOMAIN versCommande, versCommande[i].aig = a
      PROVE  \E s \in Cotes \cup {"Dev", "Ver"} : Envoye(s, a)
  <2>0. versCommande \in Seq(Messages)
    BY DEF TypeOK, Messages
  <2>1. versCommande[i] \in Messages /\ i \in 1..Len(versCommande)
    BY <2>0
  <2>2. PICK s \in Cotes \cup {"Dev", "Ver"} : versCommande[i] = Sujet(s, a)
    BY <1>1, <2>1 DEF Messages, Sujet
  <2>3. QED  BY <2>1, <2>2 DEF Envoye, Contains
<1>2. ASSUME NEW s, Envoye(s, a)
      PROVE  \E i \in DOMAIN versCommande : versCommande[i].aig = a
  <2>1. PICK i \in 1..Len(versCommande) : versCommande[i] = Sujet(s, a)
    BY <1>2 DEF Envoye, Contains
  <2>2. i \in DOMAIN versCommande /\ versCommande[i].aig = a
    BY <2>1 DEF Sujet, TypeOK
  <2>3. QED  BY <2>2
<1>3. ASSUME NEW i \in DOMAIN pile, pile[i].aig = a
      PROVE  \E c \in Cotes : Attend(c, a)
  <2>0. pile \in Seq(Boucles)
    BY DEF TypeOK, Boucles
  <2>1. pile[i].cote \in Cotes
    <3>1. pile[i] \in Boucles
      BY <2>0
    <3>2. QED  BY <3>1 DEF Boucles
  <2>2. QED  BY <1>3, <2>1 DEF Attend
<1>4. QED
  BY <1>1, <1>2, <1>3 DEF EnCours, EnVol, Demande, EstOrdre, Attend, EnMot

LEMMA SuiviCommande ==
    ASSUME Repos, InvAiguillages, NEW a \in Aiguillages,
           NEW b \in Aiguillages, NEW c \in Cotes, Commande(c, b)
    PROVE  Suivi(a)'
<1>1. /\ UNCHANGED <<pile, Aig, versCommande, Vx, Dx, actionneurs, mot, cible, aig>>
      /\ entree' = Append(entree, Ordre(c, b))
      /\ dernier' = [dernier EXCEPT ![b] = c]
      /\ TypeOK /\ Suivi(a) /\ dernier[a] \in Cotes
  BY DEF InvAiguillages, TypeOK, Commande, varsActionneurs
<1>2. /\ Ordre(c, b) \in MessagesNoeud /\ Ordre(c, b).type # "capteur"
      /\ EstOrdre(Ordre(c, b), a) <=> a = b
      /\ Ordre(c, b).cote = c
  BY MessagesTypes DEF Ordre, EstOrdre
<1>3. /\ Demande(a)' <=> Demande(a) \/ a = b
      /\ ImagesJustes(1, a) => ImagesJustes(1, a)'
      /\ ImagesSuivies(a) /\ dernier'[a] = dernier[a] => ImagesSuivies(a)'
      /\ DemandesSuivies(a) /\ dernier'[a] = dernier[a] /\ a # b => DemandesSuivies(a)'
  BY <1>1, <1>2, EntreeRecoit
<1>4. CASE a # b
  <2>1. dernier'[a] = dernier[a]
    BY <1>1, <1>4 DEF TypeOK
  <2>2. QED
    BY <1>1, <1>3, <1>4, <2>1, PileInchangee, EnvoisInchanges
    DEF Suivi, AigSuivi, AvantOrdre, EnPlace, EnMot, MessagesSuivis, VerrouSuivi, MotsSuivis, Juste
<1>5. CASE a = b
  <2>1. aig[a] = dernier[a] /\ Juste(Aig, a) /\ ~EnCours(a)
    BY <1>5 DEF Commande, Peut, Repos, NoeudSait, Juste
  <2>2. /\ ~Demande(a) /\ \A k \in Cotes : ~Attend(k, a)
        /\ \A s \in Cotes \cup {"Dev", "Ver"} : ~Envoye(s, a)
        /\ ~EnMot(a)
    BY <1>1, <2>1, RienEnCours
  <2>3. dernier'[a] = c
    BY <1>1, <1>5 DEF TypeOK
  <2>4. ImagesJustes(1, a)
    BY <1>1, <2>1 DEF Suivi, AigSuivi, Juste
  <2>5. cible[a] = aig[a]
    BY <1>1, <2>1 DEF Suivi, MotsSuivis
  <2>6. ~Dx[a]
    BY <1>1, <2>2 DEF Suivi, VerrouSuivi
  <2>7. EnPlace(a)
    BY <1>1, <2>1, <2>2, <2>4, <2>5, <2>6 DEF EnPlace, Suivi, MotsSuivis
  <2>8. EnPlace(a)'
    BY <1>1, <1>3, <2>7, PileInchangee, EnvoisInchanges DEF EnPlace, EnMot, Juste
  <2>9. AigSuivi(a)'
    BY <1>1, <1>3, <2>3, <2>4, <2>7 DEF AigSuivi, EnPlace, Juste
  <2>10. ImagesSuivies(a)'
    <3>1. SUFFICES ASSUME NEW i \in DOMAIN entree'
                   PROVE  ImagesJustes(i, a)'
      BY DEF ImagesSuivies
    <3>2. DOMAIN entree' \subseteq Nat \ {0}
      BY <1>1, <1>2, ElementsAjout DEF TypeOK
    <3>3. ImagesJustes(1, a)'
      BY <1>3, <2>4
    <3>4. QED
      BY <3>1, <3>2, <3>3 DEF ImagesJustes
  <2>11. DemandesSuivies(a)'
    <3>1. /\ DOMAIN entree' = DOMAIN entree \cup {Len(entree) + 1}
          /\ \A k \in DOMAIN entree : entree'[k] = entree[k]
          /\ entree'[Len(entree) + 1] = Ordre(c, b)
      BY <1>1, <1>2, ElementsAjout DEF TypeOK
    <3>2. \A k \in DOMAIN entree' : EstOrdre(entree'[k], a) => k = Len(entree) + 1
      BY <2>2, <3>1 DEF Demande
    <3>3. QED
      BY <1>2, <2>3, <3>1, <3>2 DEF DemandesSuivies
  <2>12. MessagesSuivis(a)'
    BY <1>1, <2>2, PileInchangee, EnvoisInchanges DEF MessagesSuivis
  <2>13. MotsSuivis(a)'
    BY <1>1, <2>1, <2>2, <2>3, <2>5 DEF Suivi, MotsSuivis, EnMot
  <2>14. VerrouSuivi(a)'
    BY <1>1, <1>3, <1>5, <2>2, <2>6, <2>3, PileInchangee DEF VerrouSuivi
  <2>15. QED
    BY <2>8, <2>9, <2>10, <2>11, <2>12, <2>13, <2>14 DEF Suivi, AvantOrdre
<1>6. QED  BY <1>4, <1>5

LEMMA SuiviInchange ==
    ASSUME InvAiguillages, NEW a \in Aiguillages, UNCHANGED vars
    PROVE  Suivi(a)'
<1>1. /\ UNCHANGED <<entree, pile, Aig, versCommande, Vx, Dx, actionneurs, mot, cible, aig, dernier>>
      /\ Suivi(a) /\ dernier[a] \in Cotes
  BY DEF InvAiguillages, TypeOK, vars, varsNoeud, varsActionneurs
<1>2. QED
  BY <1>1, EntreeInchangee, PileInchangee, EnvoisInchanges
  DEF Suivi, AigSuivi, AvantOrdre, EnPlace, EnMot, MessagesSuivis, VerrouSuivi, MotsSuivis, Juste
LEMMA SuiviPas ==
    ASSUME Repos, InvAiguillages, [Next]_vars, NEW a \in Aiguillages
    PROVE  Suivi(a)'
<1>1. ASSUME NEW b \in Aiguillages, NEW c \in Cotes, Commande(c, b)
      PROVE  Suivi(a)'
  BY <1>1, SuiviCommande
<1>2. CASE NoeudNext /\ UNCHANGED varsActionneurs /\ Suite
  BY <1>2, SuiviSwitchSensorCallback, SuiviCoteCallback, SuiviSpinOnce,
     SuiviTourAVide, SuiviFinDeTour DEF NoeudNext
<1>3. CASE CommandeNext /\ Suite
  BY <1>3, SuiviDeverouille, SuiviVerouille, SuiviAiguillagesCallback DEF CommandeNext
<1>4. CASE StateSwitchCallBack /\ Suite
  BY <1>4, SuiviStateSwitchCallBack
<1>5. CASE SceneNext /\ Suite
  BY <1>5, SuiviPasScene, SuiviBouge, SuiviEmetCapteur DEF SceneNext
<1>6. CASE UNCHANGED vars
  BY <1>6, SuiviInchange
<1>7. QED
  BY <1>1, <1>2, <1>3, <1>4, <1>5, <1>6 DEF Next

(* The state keeps its types, whatever the net waits for.                  *)
THEOREM TypesAiguillages == Spec => []TypeOK
  BY TypeInit, TypePas, PTL DEF Spec

(* What each process knows or still has to do about a switch is consistent *)
(* with where the switch is and was last sent, in every state.             *)
THEOREM AiguillagesSuivis ==
    ASSUME Repos
    PROVE  Spec => []InvAiguillages
<1>1. Init => InvAiguillages
  BY TypeInit, SuiviInit DEF InvAiguillages
<1>2. InvAiguillages /\ [Next]_vars => InvAiguillages'
  <2>1. SUFFICES ASSUME InvAiguillages, [Next]_vars  PROVE InvAiguillages'
    OBVIOUS
  <2>2. TypeOK'
    BY <2>1, TypePas DEF InvAiguillages
  <2>3. \A a \in Aiguillages : Suivi(a)'
    BY <2>1, SuiviPas
  <2>4. QED  BY <2>2, <2>3 DEF InvAiguillages
<1>3. QED
  BY <1>1, <1>2, PTL DEF Spec

(* The command believes a switch unlocked all the while it moves: unlock   *)
(* and move leave on two connections, and the switch does not move before  *)
(* both have arrived (main_aiguillage, commande.cpp).                      *)
THEOREM ToujoursDeverrouille ==
    ASSUME Repos
    PROVE  Spec => []BougeDeverrouille
<1>1. InvAiguillages => BougeDeverrouille
  <2>1. SUFFICES ASSUME InvAiguillages, NEW a \in Aiguillages, aig[a] = "M"
                 PROVE  Dx[a] /\ ~Vx[a]
    BY DEF BougeDeverrouille
  <2>2. Suivi(a) /\ dernier[a] # "M" /\ cible[a] # "M"
    BY <2>1 DEF InvAiguillages, TypeOK, Cotes
  <2>3. ~Demande(a) /\ ~Envoye("Dev", a)
    BY <2>1, <2>2 DEF Suivi, AvantOrdre, EnPlace, MessagesSuivis
  <2>4. QED  BY <2>1, <2>2, <2>3 DEF Suivi, VerrouSuivi
<1>2. QED  BY <1>1, AiguillagesSuivis, PTL

(* Every move ends with the lock: once nothing about a switch is under way *)
(* the command does not believe it unlocked.                               *)
THEOREM ToujoursVerrouille ==
    ASSUME Repos
    PROVE  Spec => []VerrouilleAuRepos
<1>1. InvAiguillages => VerrouilleAuRepos
  <2>1. SUFFICES ASSUME InvAiguillages, NEW a \in Aiguillages, ~EnCours(a)
                 PROVE  ~Dx[a]
    BY DEF VerrouilleAuRepos
  <2>2. ~Envoye("Ver", a) /\ ~Attend(dernier[a], a) /\ Suivi(a)
    BY <2>1, RienEnCours DEF InvAiguillages, TypeOK
  <2>3. QED  BY <2>2 DEF Suivi, VerrouSuivi
<1>2. QED  BY <1>1, AiguillagesSuivis, PTL

(* The switch at rest is on the side of the last order, whatever words the *)
(* scene missed and whatever the node believed at its start.               *)
THEOREM ToujoursDernierOrdre ==
    ASSUME Repos
    PROVE  Spec => []DernierOrdre
<1>1. InvAiguillages => DernierOrdre
  <2>1. SUFFICES ASSUME InvAiguillages, NEW a \in Aiguillages, ~EnCours(a)
                 PROVE  aig[a] = dernier[a]
    BY DEF DernierOrdre
  <2>2. ~Demande(a) /\ ~Attend(dernier[a], a) /\ Suivi(a)
    BY <2>1, RienEnCours DEF InvAiguillages, TypeOK
  <2>3. QED  BY <2>2 DEF Suivi, VerrouSuivi
<1>2. QED  BY <1>1, AiguillagesSuivis, PTL

(* The four programs together do what the net needs of a switch: it leaves *)
(* its stop only for the side last asked, and stays there.  This is the    *)
(* safety part of ImplementePosition.                                      *)
PositionSure == Position!Init /\ [][Position!Next]_<<dernier, aig>>

LEMMA PositionPas ==
    ASSUME Repos, InvAiguillages, [Next]_vars
    PROVE  [Position!Next]_<<dernier, aig>>
<1>1. ASSUME NEW a \in Aiguillages, NEW c \in Cotes, Commande(c, a)
      PROVE  Position!Demande(a)
  BY <1>1 DEF Commande, Peut, Repos, Position!Demande, varsActionneurs, Cotes
<1>2. ASSUME NEW a \in Aiguillages, Bouge(a), Suite
      PROVE  Position!Quitte(a) \/ Position!Atteint(a)
  <2>1. cible[a] = dernier[a] /\ aig[a] # dernier[a] /\ UNCHANGED dernier
    BY <1>2, BougeVers DEF Suite
  <2>2. CASE aig[a] = "M"
    BY <1>2, <2>1, <2>2 DEF Bouge, Position!Atteint
  <2>3. CASE aig[a] # "M"
    BY <1>2, <2>1, <2>3 DEF Bouge, Position!Quitte
  <2>4. QED  BY <2>2, <2>3
<1>3. CASE NoeudNext /\ UNCHANGED varsActionneurs /\ Suite
  BY <1>3 DEF varsActionneurs, Suite
<1>4. ASSUME CommandeNext, Suite
      PROVE  UNCHANGED <<dernier, aig>>
  BY <1>4 DEF CommandeNext, Suite, DeverouilleAiguillagesCallback,
              VerouilleAiguillagesCallback, AiguillagesCallback
<1>5. CASE StateSwitchCallBack /\ Suite
  BY <1>5 DEF StateSwitchCallBack, Suite
<1>6. CASE PasScene /\ Suite
  BY <1>6 DEF PasScene, Suite
<1>7. CASE EmetCapteur /\ Suite
  BY <1>7 DEF EmetCapteur, varsActionneurs, Suite
<1>8. CASE UNCHANGED vars
  BY <1>8 DEF vars, varsActionneurs
<1>9. QED
  BY <1>1, <1>2, <1>3, <1>4, <1>5, <1>6, <1>7, <1>8
  DEF Next, SceneNext, Position!Next

THEOREM OrdresImplementePosition ==
    ASSUME Repos
    PROVE  Spec => PositionSure
<1>1. Init => Position!Init
  BY DEF Init, InitActionneurs, Position!Init
<1>2. InvAiguillages /\ [Next]_vars => [Position!Next]_<<dernier, aig>>
  BY PositionPas
<1>3. QED
  BY <1>1, <1>2, AiguillagesSuivis, PTL DEF Spec, PositionSure
=============================================================================
