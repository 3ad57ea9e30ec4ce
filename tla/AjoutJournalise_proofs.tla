----------------------- MODULE AjoutJournalise_proofs -----------------------
(***************************************************************************)
(* The products added by the net and by the menu, and the log they are     *)
(* told to: the types, however the threads of commande_locale interleave,  *)
(* and that no line of the log is lost when two messages never ask for the *)
(* time in the same step of the simulation, for every number of products,  *)
(* of posts and of additions; and, as long as the net and the menu do not  *)
(* add at the same time (Un), that a product overwritten by addProduct is  *)
(* reported to the log and its robot told to stop, and that the marks of a *)
(* post follow the products put there.                                     *)
(***************************************************************************)
EXTENDS AjoutJournalise, SequenceTheorems, FiniteSetTheorems, TLAPS

(* How often x occurs, when an element is added or taken at the end.       *)
LEMMA NombreNat ==
    ASSUME NEW S, NEW s \in Seq(S), NEW x
    PROVE  /\ IsFiniteSet({i \in DOMAIN s : s[i] = x})
           /\ Nombre(s, x) \in Nat
<1>1. IsFiniteSet(1..Len(s)) /\ DOMAIN s = 1..Len(s)
  BY FS_Interval
<1>2. {i \in DOMAIN s : s[i] = x} \subseteq 1..Len(s)
  BY <1>1
<1>3. IsFiniteSet({i \in DOMAIN s : s[i] = x})
  BY <1>1, <1>2, FS_Subset
<1>4. QED
  BY <1>3, FS_CardinalityType DEF Nombre

LEMMA NombreVide ==
    ASSUME NEW x
    PROVE  Nombre(<<>>, x) = 0
<1>1. {i \in DOMAIN <<>> : <<>>[i] = x} = {}
  OBVIOUS
<1>2. QED
  BY <1>1, FS_EmptySet DEF Nombre

LEMMA NombreAjout ==
    ASSUME NEW S, NEW s \in Seq(S), NEW e \in S, NEW x
    PROVE  Nombre(Append(s, e), x) = Nombre(s, x) + (IF e = x THEN 1 ELSE 0)
<1> DEFINE A == {i \in DOMAIN s : s[i] = x}
           r == Append(s, e)
           B == {i \in DOMAIN r : r[i] = x}
<1>1. /\ Len(s) \in Nat /\ DOMAIN s = 1..Len(s)
      /\ DOMAIN r = 1..(Len(s) + 1)
      /\ \A i \in 1..Len(s) : r[i] = s[i]
      /\ r[Len(s) + 1] = e
  OBVIOUS
<1>2. IsFiniteSet(A)
  BY NombreNat
<1>3. Nombre(s, x) = Cardinality(A) /\ Nombre(r, x) = Cardinality(B) /\ Cardinality(A) \in Nat
  BY NombreNat DEF Nombre
<1>4. CASE e = x
  <2>1. B = A \cup {Len(s) + 1} /\ Len(s) + 1 \notin A
    BY <1>1, <1>4
  <2>2. Cardinality(B) = Cardinality(A) + 1
    BY <1>2, <2>1, FS_AddElement
  <2>3. QED  BY <1>3, <1>4, <2>2
<1>5. CASE e # x
  <2>1. B = A
    BY <1>1, <1>5
  <2>2. Nombre(r, x) = Nombre(s, x)
    BY ONLY <1>3, <2>1
  <2>3. Nombre(s, x) \in Nat
    BY NombreNat
  <2>4. QED  BY <1>5, <2>2, <2>3
<1>6. QED  BY <1>4, <1>5

LEMMA EgalAjout ==
    ASSUME NEW S, NEW s \in Seq(S), NEW f \in Seq(S), NEW e \in S,
           Len(s) = Len(f) + 1, \A i \in 1..Len(f) : s[i] = f[i], s[Len(f) + 1] = e
    PROVE  s = Append(f, e)
<1>1. /\ Append(f, e) \in Seq(S) /\ Len(Append(f, e)) = Len(f) + 1
      /\ \A i \in 1..Len(f) : Append(f, e)[i] = f[i]
      /\ Append(f, e)[Len(f) + 1] = e
  BY AppendProperties
<1>2. \A i \in 1..Len(s) : s[i] = Append(f, e)[i]
  <2> TAKE i \in 1..Len(s)
  <2>1. i \in 1..Len(f) \/ i = Len(f) + 1
    OBVIOUS
  <2>2. QED  BY <1>1, <2>1
<1>3. QED  BY <1>1, <1>2, SeqEqual

LEMMA FrontEtLast ==
    ASSUME NEW S, NEW s \in Seq(S), s # <<>>
    PROVE  /\ Last(s) \in S /\ Front(s) \in Seq(S)
           /\ Len(Front(s)) = Len(s) - 1
           /\ Last(s) = s[Len(s)] /\ Len(s) \in DOMAIN s
           /\ \A i \in DOMAIN Front(s) : i \in DOMAIN s /\ Front(s)[i] = s[i]
           /\ s = Append(Front(s), Last(s))
<1>1. /\ Len(s) \in Nat \ {0} /\ DOMAIN s = 1..Len(s)
      /\ \A i \in 1..Len(s) : s[i] \in S
  OBVIOUS
<1>2. PICK f \in Seq(S), e \in S :
         /\ f = Front(s) /\ e = Last(s) /\ e = s[Len(s)]
         /\ Len(f) = Len(s) - 1 /\ DOMAIN f = 1..(Len(s) - 1)
         /\ \A i \in 1..(Len(s) - 1) : f[i] = s[i]
  <2>1. /\ Front(s) \in Seq(S) /\ Len(Front(s)) = Len(s) - 1
        /\ DOMAIN Front(s) = 1..(Len(s) - 1)
        /\ \A i \in 1..(Len(s) - 1) : Front(s)[i] = s[i]
    BY <1>1 DEF Front
  <2>2. Last(s) = s[Len(s)] /\ Last(s) \in S
    BY <1>1 DEF Last
  <2>3. QED  BY <2>1, <2>2
<1>3. s = Append(f, e)
  <2>1. Len(s) = Len(f) + 1 /\ Len(f) = Len(s) - 1
    BY <1>1, <1>2
  <2>2. s[Len(f) + 1] = e /\ \A i \in 1..Len(f) : s[i] = f[i]
    BY <1>2, <2>1
  <2>3. QED  BY <2>1, <2>2, EgalAjout
<1>4. /\ Len(s) \in DOMAIN s
      /\ \A i \in DOMAIN f : i \in DOMAIN s /\ f[i] = s[i]
  BY <1>1, <1>2
<1>5. QED
  BY <1>1, <1>2, <1>3, <1>4

LEMMA NombreFront ==
    ASSUME NEW S, NEW s \in Seq(S), s # <<>>, NEW x
    PROVE  /\ Nombre(s, x) = Nombre(Front(s), x) + (IF Last(s) = x THEN 1 ELSE 0)
           /\ Nombre(Front(s), x) \in Nat
<1>1. PICK f \in Seq(S), e \in S : f = Front(s) /\ e = Last(s) /\ s = Append(f, e)
  BY FrontEtLast
<1>2. Nombre(Append(f, e), x) = Nombre(f, x) + (IF e = x THEN 1 ELSE 0)
  BY NombreAjout
<1>3. QED  BY <1>1, <1>2, NombreNat
-----------------------------------------------------------------------------
(* The log: what its queues and its nested callbacks hold.                 *)
Ajouts == {<<>>} \cup {<<NouveauProduit(q)>> : q \in Produits}
Sorties == {<<>>} \cup {<<Sortie(q)>> : q \in Produits}

JournalTypes ==
    /\ fileAjout \in Ajouts /\ fileEvac \in Sorties
    /\ pile \in Seq(Lignes) /\ monFlux \in Seq(Lignes)
    /\ repSim_getTime \in BOOLEAN
    /\ demandesTemps \in Nat /\ reponsesTemps \in Nat
    /\ publies \in [Lignes -> Nat]

(* At most one answer of the simulator is on its way or not yet used: the  *)
(* one flag of the log manager is never raised twice for two answers.      *)
UneReponse == Cadence => reponsesTemps = 0 \/ (reponsesTemps = 1 /\ ~repSim_getTime)

InvJournal == JournalTypes /\ UneReponse /\ (Cadence => JournalExact)
-----------------------------------------------------------------------------
(* The additions: a call that has asked its question, or given its order,  *)
(* has written the message that it shares with the others.                 *)
Suivis ==
    {a \in AppelType :
        /\ a.etape # "question" => msgSim_getColor \in Postes
        /\ a.etape \in {"demandeChange", "attendChange"} => msgSim_changeColor \in Codes}

TypesScene ==
    /\ demandesCouleur \in Seq(Postes) /\ reponsesCouleur \in Seq(Produits \cup {0})
    /\ demandesChange \in Seq(Codes) /\ reponsesChange \in Nat
    /\ poste \in [Postes -> Produits \cup {0}]

TypesPont ==
    /\ fils \in [Fils -> Seq(Suivis)]
    /\ valueSim_getColor \in Produits \cup {0}
    /\ requete \in Codes \cup {Rien}

TypesCommande ==
    /\ requetePush \in Codes \cup {Rien}
    /\ menu \in {"choix", "produit", "push", "spin"}
    /\ cmd \in {"libre", "attend", "journal"}
    /\ reste \in Seq(Codes) /\ (cmd # "libre" => reste # <<>>)
    /\ produit_a_ajouter \in Seq(Codes)
    /\ M \in [Codes -> Nat]

(* The command is blocked while its request is not treated or its call not *)
(* over: there is one of them at most, in one of the stacks.               *)
Services(s) == {i \in DOMAIN s : s[i].origine = "service"}

UnService ==
    /\ requete # Rien => cmd = "attend" /\ \A t \in Fils : Services(fils[t]) = {}
    /\ \A t \in Fils : \A i \in Services(fils[t]) :
         /\ cmd = "attend" /\ Services(fils[t]) = {i}
         /\ \A u \in Fils \ {t} : Services(fils[u]) = {}

InvTypes == TypesScene /\ TypesPont /\ TypesCommande

InvAjouts == InvTypes /\ UnService /\ InvJournal

-----------------------------------------------------------------------------
LEMMA NombreUn ==
    ASSUME NEW e, NEW x
    PROVE  Nombre(<<e>>, x) = IF e = x THEN 1 ELSE 0
<1>1. CASE e = x
  <2>1. {i \in DOMAIN <<e>> : <<e>>[i] = x} = {1}
    BY <1>1
  <2>2. QED  BY <1>1, <2>1, FS_Singleton DEF Nombre
<1>2. CASE e # x
  <2>1. {i \in DOMAIN <<e>> : <<e>>[i] = x} = {}
    BY <1>2
  <2>2. QED  BY <1>2, <2>1, FS_EmptySet DEF Nombre
<1>3. QED  BY <1>1, <1>2

LEMMA UneCase ==
    ASSUME NEW S, NEW e \in S
    PROVE  /\ Head(<<e>>) = e /\ Tail(<<e>>) = <<>> /\ <<e>> # <<>>
           /\ <<e>> \in Seq(S) /\ <<>> \in Seq(S)
OBVIOUS

(* The lines: a product added, or a product that has left.                 *)
LEMMA LesLignes ==
    /\ \A q \in Produits : NouveauProduit(q) \in Lignes /\ Sortie(q) \in Lignes
    /\ \A q \in Produits : NouveauProduit(q)[1] = "NouveauProduit" /\ Sortie(q)[1] = "Sortie"
    /\ <<>> \in Ajouts /\ \A q \in Produits : <<NouveauProduit(q)>> \in Ajouts
    /\ <<>> \in Sorties /\ \A q \in Produits : <<Sortie(q)>> \in Sorties
BY DEF Lignes, NouveauProduit, Sortie, Ajouts, Sorties

(* A queue of one message.                                                 *)
LEMMA FileDUn ==
    ASSUME JournalTypes
    PROVE  /\ fileAjout # <<>> => /\ Head(fileAjout) \in Lignes
                                  /\ fileAjout = <<Head(fileAjout)>>
           /\ fileEvac # <<>> => /\ Head(fileEvac) \in Lignes
                                 /\ fileEvac = <<Head(fileEvac)>>
<1>1. ASSUME NEW q \in Produits
      PROVE  /\ Head(<<NouveauProduit(q)>>) = NouveauProduit(q)
             /\ Head(<<Sortie(q)>>) = Sortie(q)
             /\ NouveauProduit(q) \in Lignes /\ Sortie(q) \in Lignes
  BY LesLignes, UneCase
<1>2. ASSUME fileAjout # <<>>
      PROVE  Head(fileAjout) \in Lignes /\ fileAjout = <<Head(fileAjout)>>
  <2>1. PICK q \in Produits : fileAjout = <<NouveauProduit(q)>>
    BY <1>2 DEF JournalTypes, Ajouts
  <2>2. QED  BY <1>1, <2>1
<1>3. ASSUME fileEvac # <<>>
      PROVE  Head(fileEvac) \in Lignes /\ fileEvac = <<Head(fileEvac)>>
  <2>1. PICK q \in Produits : fileEvac = <<Sortie(q)>>
    BY <1>3 DEF JournalTypes, Sorties
  <2>2. QED  BY <1>1, <2>1
<1>4. QED  BY <1>2, <1>3

(* What is published and what is written are numbers of lines.             *)
LEMMA Comptes ==
    ASSUME JournalTypes, NEW l \in Lignes
    PROVE  /\ publies[l] \in Nat
           /\ Nombre(monFlux, l) \in Nat /\ Nombre(pile, l) \in Nat
           /\ Nombre(fileAjout, l) \in Nat /\ Nombre(fileEvac, l) \in Nat
<1>1. fileAjout \in Seq(Lignes) /\ fileEvac \in Seq(Lignes)
  BY FileDUn, UneCase
<1>2. QED  BY <1>1, NombreNat DEF JournalTypes

LEMMA InvJournalInitial == Init => InvJournal
<1> SUFFICES ASSUME Init PROVE InvJournal
  OBVIOUS
<1> USE DEF Init, InitJournal
<1>1. JournalTypes /\ UneReponse
  <2>1. fileAjout \in Ajouts /\ fileEvac \in Sorties
    BY LesLignes
  <2>2. publies \in [Lignes -> Nat]
    OBVIOUS
  <2>3. pile \in Seq(Lignes) /\ monFlux \in Seq(Lignes)
    OBVIOUS
  <2>4. demandesTemps = 0 /\ reponsesTemps = 0 /\ repSim_getTime = FALSE
    OBVIOUS
  <2>5. demandesTemps \in Nat /\ reponsesTemps \in Nat
    BY ONLY <2>4
  <2>6. repSim_getTime \in BOOLEAN
    BY ONLY <2>4
  <2>7. JournalTypes
    BY ONLY <2>1, <2>2, <2>3, <2>5, <2>6 DEF JournalTypes
  <2>8. UneReponse
    BY ONLY <2>4 DEF UneReponse
  <2>9. QED  BY <2>7, <2>8
<1>2. JournalExact
  <2>1. \A l \in Lignes : publies[l] = 0 /\ Nombre(<<>>, l) = 0
    BY NombreVide
  <2>2. QED  BY <2>1 DEF JournalExact
<1>3. QED  BY <1>1, <1>2 DEF InvJournal

(* A message is published: its topic had room when the queues are empty.   *)
LEMMA PubliePreserve ==
    ASSUME InvJournal, NEW q \in Produits, NEW l \in {NouveauProduit(q), Sortie(q)},
           Publie(l)
    PROVE  InvJournal'
<1>1. l \in Lignes /\ (l[1] = "Sortie" <=> l = Sortie(q)) /\ (l[1] # "Sortie" => l = NouveauProduit(q))
  BY LesLignes DEF NouveauProduit, Sortie
<1>2. publies' = [publies EXCEPT ![l] = @ + 1]
  BY DEF Publie
<1>3. \/ fileEvac' = <<l>> /\ l = Sortie(q) /\ fileAjout' = fileAjout
      \/ fileAjout' = <<l>> /\ l = NouveauProduit(q) /\ fileEvac' = fileEvac
  BY <1>1 DEF Publie, Recoit
<1>4. UNCHANGED <<pile, repSim_getTime, demandesTemps, reponsesTemps, monFlux>>
  BY DEF Publie
<1>5. JournalTypes'
  BY <1>1, <1>2, <1>3, <1>4, LesLignes DEF InvJournal, JournalTypes
<1>6. UneReponse'
  BY <1>4 DEF InvJournal, UneReponse
<1>7. ASSUME Cadence PROVE JournalExact'
  <2>1. fileAjout = <<>> /\ fileEvac = <<>> /\ JournalExact
    BY <1>7 DEF Publie, InvJournal
  <2>2. ASSUME NEW m \in Lignes
        PROVE  publies'[m] = Nombre(monFlux', m) + Nombre(pile', m)
                             + Nombre(fileAjout', m) + Nombre(fileEvac', m)
    <3>1. publies'[m] = publies[m] + (IF l = m THEN 1 ELSE 0)
      BY <1>1, <1>2 DEF InvJournal, JournalTypes
    <3>2. publies[m] = Nombre(monFlux, m) + Nombre(pile, m) + Nombre(<<>>, m) + Nombre(<<>>, m)
      BY <2>1 DEF JournalExact
    <3>3. Nombre(<<>>, m) = 0 /\ Nombre(<<l>>, m) = IF l = m THEN 1 ELSE 0
      BY NombreVide, NombreUn
    <3>4. \/ fileAjout' = <<>> /\ fileEvac' = <<l>>
          \/ fileAjout' = <<l>> /\ fileEvac' = <<>>
      BY <1>3, <2>1
    <3>5. monFlux' = monFlux /\ pile' = pile
      BY <1>4
    <3>6. Nombre(monFlux, m) \in Nat /\ Nombre(pile, m) \in Nat
      BY Comptes DEF InvJournal
    <3>7. QED  BY <3>1, <3>2, <3>3, <3>4, <3>5, <3>6
  <2>3. Len(pile') <= demandesTemps' + reponsesTemps' + (IF repSim_getTime' THEN 1 ELSE 0)
    BY <1>4, <2>1 DEF JournalExact
  <2>4. QED  BY <2>2, <2>3 DEF JournalExact
<1>8. QED  BY <1>5, <1>6, <1>7 DEF InvJournal

(* A callback takes the message l of its topic, and asks for the time.     *)
LEMMA CallbackPreserve ==
    ASSUME InvJournal, NEW l \in Lignes,
           pile' = Append(pile, l), demandesTemps' = demandesTemps + 1,
           \/ fileAjout = <<l>> /\ fileAjout' = <<>> /\ fileEvac' = fileEvac
           \/ fileEvac = <<l>> /\ fileEvac' = <<>> /\ fileAjout' = fileAjout,
           UNCHANGED <<repSim_getTime, reponsesTemps, monFlux, publies>>
    PROVE  InvJournal'
<1>1. JournalTypes'
  <2>1. fileAjout' \in Ajouts /\ fileEvac' \in Sorties
    BY LesLignes DEF InvJournal, JournalTypes
  <2>2. pile' \in Seq(Lignes) /\ demandesTemps' \in Nat
    BY DEF InvJournal, JournalTypes
  <2>3. QED  BY <2>1, <2>2 DEF InvJournal, JournalTypes
<1>2. UneReponse'
  BY DEF InvJournal, UneReponse
<1>3. ASSUME Cadence PROVE JournalExact'
  <2>1. JournalExact
    BY <1>3 DEF InvJournal
  <2>2. ASSUME NEW m \in Lignes
        PROVE  publies'[m] = Nombre(monFlux', m) + Nombre(pile', m)
                             + Nombre(fileAjout', m) + Nombre(fileEvac', m)
    <3>1. publies[m] = Nombre(monFlux, m) + Nombre(pile, m)
                       + Nombre(fileAjout, m) + Nombre(fileEvac, m)
      BY <2>1 DEF JournalExact
    <3>2. Nombre(<<>>, m) = 0 /\ Nombre(<<l>>, m) = IF l = m THEN 1 ELSE 0
      BY NombreVide, NombreUn
    <3>3. Nombre(pile', m) = Nombre(pile, m) + (IF l = m THEN 1 ELSE 0)
      BY NombreAjout DEF InvJournal, JournalTypes
    <3>4. /\ Nombre(monFlux, m) \in Nat /\ Nombre(pile, m) \in Nat
          /\ Nombre(fileAjout, m) \in Nat /\ Nombre(fileEvac, m) \in Nat
      BY Comptes DEF InvJournal
    <3>5. publies' = publies /\ monFlux' = monFlux
      OBVIOUS
    <3>6. CASE fileAjout = <<l>> /\ fileAjout' = <<>> /\ fileEvac' = fileEvac
      BY <3>1, <3>2, <3>3, <3>4, <3>5, <3>6
    <3>7. CASE fileEvac = <<l>> /\ fileEvac' = <<>> /\ fileAjout' = fileAjout
      BY <3>1, <3>2, <3>3, <3>4, <3>5, <3>7
    <3>8. QED  BY <3>6, <3>7
  <2>3. Len(pile') <= demandesTemps' + reponsesTemps' + (IF repSim_getTime' THEN 1 ELSE 0)
    <3>1. Len(pile') = Len(pile) + 1 /\ Len(pile) \in Nat
      BY DEF InvJournal, JournalTypes
    <3>2. Len(pile) <= demandesTemps + reponsesTemps + (IF repSim_getTime THEN 1 ELSE 0)
      BY <2>1 DEF JournalExact
    <3>3. QED  BY <3>1, <3>2 DEF InvJournal, JournalTypes
  <2>4. QED  BY <2>2, <2>3 DEF JournalExact
<1>4. QED  BY <1>1, <1>2, <1>3 DEF InvJournal

(* The time arrives: the flag was down.                                    *)
LEMMA TempsArrive ==
    ASSUME InvJournal, getTimeCallback, UNCHANGED publies
    PROVE  InvJournal'
<1> USE DEF getTimeCallback
<1>1. JournalTypes'
  BY DEF InvJournal, JournalTypes
<1>2. UneReponse'
  BY DEF InvJournal, UneReponse, JournalTypes
<1>3. ASSUME Cadence PROVE JournalExact'
  <2>1. JournalExact /\ ~repSim_getTime /\ reponsesTemps = 1
    BY <1>3 DEF InvJournal, JournalTypes, UneReponse
  <2>2. Len(pile') <= demandesTemps' + reponsesTemps' + (IF repSim_getTime' THEN 1 ELSE 0)
    <3>1. Len(pile) \in Nat /\ demandesTemps \in Nat
      BY DEF InvJournal, JournalTypes
    <3>2. QED  BY <2>1, <3>1 DEF JournalExact
  <2>3. QED  BY <2>1, <2>2 DEF JournalExact
<1>4. QED  BY <1>1, <1>2, <1>3 DEF InvJournal

(* The innermost callback writes its line.                                 *)
LEMMA EcritPreserve ==
    ASSUME InvJournal, EcritLigne, UNCHANGED publies
    PROVE  InvJournal'
<1> USE DEF EcritLigne
<1>1. /\ Last(pile) \in Lignes /\ Front(pile) \in Seq(Lignes)
      /\ Len(pile') = Len(pile) - 1 /\ Len(pile) \in Nat
  <2>1. pile \in Seq(Lignes) /\ pile # <<>> /\ pile' = Front(pile)
    BY DEF InvJournal, JournalTypes
  <2>2. /\ Last(pile) \in Lignes /\ Front(pile) \in Seq(Lignes)
        /\ Len(Front(pile)) = Len(pile) - 1
    BY <2>1, FrontEtLast
  <2>3. QED  BY <2>1, <2>2
<1>2. JournalTypes'
  <2>1. pile' \in Seq(Lignes) /\ monFlux' \in Seq(Lignes)
    BY <1>1 DEF InvJournal, JournalTypes
  <2>2. repSim_getTime' \in BOOLEAN
    OBVIOUS
  <2>3. QED  BY <2>1, <2>2 DEF InvJournal, JournalTypes
<1>3. UneReponse'
  BY DEF InvJournal, UneReponse
<1>4. ASSUME Cadence PROVE JournalExact'
  <2>1. JournalExact
    BY <1>4 DEF InvJournal
  <2>2. ASSUME NEW m \in Lignes
        PROVE  publies'[m] = Nombre(monFlux', m) + Nombre(pile', m)
                             + Nombre(fileAjout', m) + Nombre(fileEvac', m)
    <3>1. publies[m] = Nombre(monFlux, m) + Nombre(pile, m)
                       + Nombre(fileAjout, m) + Nombre(fileEvac, m)
      BY <2>1 DEF JournalExact
    <3>2. Nombre(monFlux', m) = Nombre(monFlux, m) + (IF Last(pile) = m THEN 1 ELSE 0)
      BY <1>1, NombreAjout DEF InvJournal, JournalTypes
    <3>3. /\ Nombre(pile, m) = Nombre(pile', m) + (IF Last(pile) = m THEN 1 ELSE 0)
          /\ Nombre(pile', m) \in Nat
      BY NombreFront DEF InvJournal, JournalTypes
    <3>4. /\ Nombre(monFlux, m) \in Nat
          /\ Nombre(fileAjout, m) \in Nat /\ Nombre(fileEvac, m) \in Nat
      BY Comptes DEF InvJournal
    <3>5. publies' = publies /\ fileAjout' = fileAjout /\ fileEvac' = fileEvac
      OBVIOUS
    <3>6. QED  BY <3>1, <3>2, <3>3, <3>4, <3>5
  <2>3. Len(pile') <= demandesTemps' + reponsesTemps' + (IF repSim_getTime' THEN 1 ELSE 0)
    <3>1. Len(pile) <= demandesTemps + reponsesTemps + (IF repSim_getTime THEN 1 ELSE 0)
      BY <2>1 DEF JournalExact
    <3>2. QED  BY <1>1, <3>1 DEF InvJournal, JournalTypes
  <2>4. QED  BY <2>2, <2>3 DEF JournalExact
<1>5. QED  BY <1>2, <1>3, <1>4 DEF InvJournal

LEMMA RepondPreserve ==
    ASSUME InvJournal, RepondTemps, UNCHANGED publies
    PROVE  InvJournal'
<1> USE DEF RepondTemps
<1>1. JournalTypes'
  BY DEF InvJournal, JournalTypes
<1>2. UneReponse'
  BY DEF InvJournal, UneReponse
<1>3. ASSUME Cadence PROVE JournalExact'
  <2>1. JournalExact
    BY <1>3 DEF InvJournal
  <2>2. Len(pile') <= demandesTemps' + reponsesTemps' + (IF repSim_getTime' THEN 1 ELSE 0)
    <3>1. Len(pile) \in Nat /\ demandesTemps \in Nat /\ reponsesTemps \in Nat
      BY DEF InvJournal, JournalTypes
    <3>2. QED  BY <2>1, <3>1 DEF JournalExact
  <2>3. QED  BY <2>1, <2>2 DEF JournalExact
<1>4. QED  BY <1>1, <1>2, <1>3 DEF InvJournal

LEMMA LogPreserve ==
    ASSUME InvJournal, LogManager \/ RepondTemps, UNCHANGED publies
    PROVE  InvJournal'
<1>1. CASE NewProductCallback
  <2>1. PICK l \in Lignes : fileAjout = <<l>> /\ l = Head(fileAjout)
    BY <1>1, FileDUn DEF NewProductCallback, InvJournal
  <2>2. QED  BY <1>1, <2>1, CallbackPreserve DEF NewProductCallback
<1>2. CASE ProduitEvacCallback
  <2>1. PICK l \in Lignes : fileEvac = <<l>> /\ l = Head(fileEvac)
    BY <1>2, FileDUn DEF ProduitEvacCallback, InvJournal
  <2>2. QED  BY <1>2, <2>1, CallbackPreserve DEF ProduitEvacCallback
<1>3. QED
  BY <1>1, <1>2, TempsArrive, EcritPreserve, RepondPreserve DEF LogManager

LEMMA JournalIntact ==
    ASSUME InvJournal, UNCHANGED <<varsJournal, publies>>
    PROVE  InvJournal'
BY DEF InvJournal, JournalTypes, UneReponse, JournalExact, varsJournal

(* What a step does to the log: it publishes a line, or it is a step of    *)
(* the log manager, or nothing.                                            *)
LEMMA PasDuJournal ==
    ASSUME [Next]_vars, InvTypes
    PROVE  \/ \E q \in Produits : Publie(NouveauProduit(q)) \/ Publie(Sortie(q))
           \/ (LogManager \/ RepondTemps) /\ UNCHANGED publies
           \/ UNCHANGED <<varsJournal, publies>>
<1>1. ASSUME NEW c \in Codes, MenuAjoute(c[1], c[2])
      PROVE  \E q \in Produits : Publie(NouveauProduit(q))
  BY <1>1 DEF MenuAjoute, Codes
<1>2. ASSUME NEW c \in Codes, Evacue(c)
      PROVE  \E q \in Produits : Publie(Sortie(q))
  BY <1>2 DEF Evacue, Codes
<1>3. ASSUME AjouterProduitSuite
      PROVE  \E q \in Produits : Publie(NouveauProduit(q))
  <2>1. Head(reste) \in Codes
    BY <1>3 DEF AjouterProduitSuite, InvTypes, TypesCommande
  <2>2. Head(reste)[2] \in Produits
    BY <2>1 DEF Codes
  <2>3. QED  BY <1>3, <2>2 DEF AjouterProduitSuite
<1>4. ASSUME NEW t \in Fils, Etape(t) \/ Callback(t) \/ FinAjout(t)
      PROVE  UNCHANGED <<varsJournal, publies>>
  BY <1>4 DEF Etape, Callback, FinAjout, varsCommande
<1>5. ASSUME MenuTour \/ SceneRepond \/ AjouterProduit \/ ProductAddPushBack \/ MarqueProduits
      PROVE  UNCHANGED <<varsJournal, publies>>
  BY <1>5 DEF MenuTour, SceneRepond, AjouterProduit, ProductAddPushBack, MarqueProduits,
              varsCommande
<1>6. ASSUME Log \/ LogTemps
      PROVE  (LogManager \/ RepondTemps) /\ UNCHANGED publies
  BY <1>6 DEF Log, LogTemps, varsCommande
<1>7. ASSUME UNCHANGED vars
      PROVE  UNCHANGED <<varsJournal, publies>>
  BY <1>7 DEF vars, varsCommande
<1>8. QED
  BY <1>1, <1>2, <1>3, <1>4, <1>5, <1>6, <1>7 DEF Next, Commande

-----------------------------------------------------------------------------
LEMMA SeqPlus ==
    ASSUME NEW S, NEW T, S \subseteq T, NEW s \in Seq(S)
    PROVE  s \in Seq(T)
OBVIOUS

LEMMA CodePaire ==
    ASSUME NEW c \in Codes
    PROVE  c[1] \in Postes /\ c[2] \in Produits /\ c = <<c[1], c[2]>>
BY DEF Codes

LEMMA TeteEtReste ==
    ASSUME NEW S, NEW s \in Seq(S), s # <<>>
    PROVE  Head(s) \in S /\ Tail(s) \in Seq(S)
OBVIOUS

(* The messages shared by the calls, once written, stay written.           *)
EcritsRestent ==
    /\ msgSim_getColor \in Postes => msgSim_getColor' \in Postes
    /\ msgSim_changeColor \in Codes => msgSim_changeColor' \in Codes

LEMMA SuivisCroissent ==
    ASSUME EcritsRestent
    PROVE  \A s : s \in Seq(Suivis) => s \in Seq(Suivis')
<1>1. Suivis \subseteq Suivis'
  BY DEF Suivis, EcritsRestent
<1>2. QED  BY <1>1, SeqPlus

LEMMA FilsIntacts ==
    ASSUME TypesPont, EcritsRestent, fils' = fils
    PROVE  fils' \in [Fils -> Seq(Suivis')]
<1>1. fils \in [Fils -> Seq(Suivis)]
  BY DEF TypesPont
<1>2. QED  BY <1>1, SuivisCroissent

LEMMA FilsChange ==
    ASSUME TypesPont, EcritsRestent, NEW t \in Fils, NEW s,
           fils' = [fils EXCEPT ![t] = s], s \in Seq(Suivis')
    PROVE  fils' \in [Fils -> Seq(Suivis')]
<1>1. fils \in [Fils -> Seq(Suivis)]
  BY DEF TypesPont
<1>2. \A u \in Fils : fils[u] \in Seq(Suivis')
  BY <1>1, SuivisCroissent
<1>3. QED  BY <1>1, <1>2

(* The call that thread t is running.                                      *)
LEMMA AppelDe ==
    ASSUME TypesPont, NEW t \in Fils, fils[t] # <<>>
    PROVE  Last(fils[t]) \in Suivis /\ Front(fils[t]) \in Seq(Suivis)
<1>1. fils[t] \in Seq(Suivis)
  BY DEF TypesPont
<1>2. QED  BY <1>1, FrontEtLast

LEMMA PasseTypes ==
    ASSUME TypesPont, EcritsRestent, NEW t \in Fils, NEW e \in Etapes, fils[t] # <<>>,
           Passe(t, e),
           e # "question" => msgSim_getColor' \in Postes,
           e \in {"demandeChange", "attendChange"} => msgSim_changeColor' \in Codes
    PROVE  fils' \in [Fils -> Seq(Suivis')]
<1>1. PICK a \in Suivis, f \in Seq(Suivis) : a = Last(fils[t]) /\ f = Front(fils[t])
  BY AppelDe
<1>2. PICK b : b = [a EXCEPT !.etape = e]
  OBVIOUS
<1>3. b \in AppelType /\ b.etape = e
  BY <1>2 DEF Suivis, AppelType
<1>4. b \in Suivis'
  BY <1>3 DEF Suivis
<1>5. f \in Seq(Suivis')
  BY SuivisCroissent
<1>6. PICK s : s = Append(f, b)
  OBVIOUS
<1>7. s \in Seq(Suivis')
  BY <1>4, <1>5, <1>6
<1>8. fils' = [fils EXCEPT ![t] = s]
  BY <1>1, <1>2, <1>6 DEF Passe
<1>9. QED  BY <1>7, <1>8, FilsChange

LEMMA EntreTypes ==
    ASSUME TypesPont, EcritsRestent, NEW t \in Fils, NEW c \in Codes,
           NEW o \in {"menu", "service"}, Entre(t, Appel(c[1], c[2], o))
    PROVE  fils' \in [Fils -> Seq(Suivis')]
<1>1. PICK a : a = Appel(c[1], c[2], o)
  OBVIOUS
<1>2. a \in AppelType /\ a.etape = "question"
  BY <1>1, CodePaire DEF Appel, AppelType, Etapes
<1>3. a \in Suivis'
  BY <1>2 DEF Suivis
<1>4. fils[t] \in Seq(Suivis')
  BY SuivisCroissent DEF TypesPont
<1>5. PICK s : s = Append(fils[t], a)
  OBVIOUS
<1>6. s \in Seq(Suivis')
  BY <1>3, <1>4, <1>5
<1>7. fils' = [fils EXCEPT ![t] = s]
  BY <1>1, <1>5 DEF Entre
<1>8. QED  BY <1>6, <1>7, FilsChange

LEMMA InvTypesInitial == Init => InvTypes
<1> SUFFICES ASSUME Init PROVE InvTypes
  OBVIOUS
<1>1. TypesScene
  BY DEF Init, InitScene, TypesScene
<1>2. TypesPont
  BY DEF Init, InitPont, TypesPont
<1>3. TypesCommande
  BY AjoutJournaliseAssumption DEF Init, TypesCommande, Codes
<1>4. QED  BY <1>1, <1>2, <1>3 DEF InvTypes

LEMMA JournalSuit ==
    ASSUME [Next]_vars, InvAjouts
    PROVE  InvJournal'
<1>1. ASSUME NEW q \in Produits, Publie(NouveauProduit(q)) \/ Publie(Sortie(q))
      PROVE  InvJournal'
  BY <1>1, PubliePreserve DEF InvAjouts
<1>2. QED
  BY <1>1, PasDuJournal, LogPreserve, JournalIntact DEF InvAjouts
-----------------------------------------------------------------------------
(* The steps of addProduct. *)
LEMMA EtapeTypes ==
    ASSUME InvTypes, NEW t \in Fils, Etape(t)
    PROVE  InvTypes'
<1> USE DEF InvTypes, Dans
<1>0. /\ fils[t] # <<>> => Last(fils[t]) \in Suivis
      /\ UNCHANGED <<reponsesCouleur, reponsesChange, poste, requete, valueSim_getColor>>
      /\ fils[t] # <<>>
      /\ TypesCommande'
  <2>1. fils[t] # <<>> => Last(fils[t]) \in Suivis
    BY AppelDe
  <2>2. /\ UNCHANGED <<reponsesCouleur, reponsesChange, poste, requete, valueSim_getColor>>
        /\ fils[t] # <<>>
    BY DEF Etape, AddProductEtape, Question, DemandeCouleur, CouleurArrivee, Lire,
           OrdreChange, DemandeChange, varsScene
  <2>3. TypesCommande'
    BY DEF Etape, varsCommande, TypesCommande
  <2>4. QED  BY <2>1, <2>2, <2>3
<1>1. CASE Question(t)
  <2>1. Last(fils[t]).poste \in Postes /\ msgSim_getColor' = Last(fils[t]).poste
    BY <1>0, <1>1 DEF Question, Suivis, AppelType
  <2>2. EcritsRestent /\ Passe(t, "demandeCouleur")
    BY <1>1, <2>1 DEF Question, EcritsRestent
  <2>3. fils' \in [Fils -> Seq(Suivis')]
    BY <1>0, <2>1, <2>2, PasseTypes DEF Etapes
  <2>4. TypesScene'
    BY <1>1 DEF Question, varsScene, TypesScene
  <2>5. QED  BY <1>0, <2>3, <2>4 DEF TypesPont
<1>2. CASE DemandeCouleur(t)
  <2>1. msgSim_getColor \in Postes
    BY <1>0, <1>2 DEF DemandeCouleur, Suivis
  <2>2. EcritsRestent /\ Passe(t, "attendCouleur") /\ msgSim_getColor' = msgSim_getColor
    BY <1>2 DEF DemandeCouleur, EcritsRestent
  <2>3. fils' \in [Fils -> Seq(Suivis')]
    BY <1>0, <2>1, <2>2, PasseTypes DEF Etapes, Attentes
  <2>4. TypesScene'
    BY <1>2, <2>1 DEF DemandeCouleur, TypesScene
  <2>5. QED  BY <1>0, <2>3, <2>4 DEF TypesPont
<1>3. CASE CouleurArrivee(t)
  <2>1. msgSim_getColor \in Postes
    BY <1>0, <1>3 DEF CouleurArrivee, Suivis
  <2>2. EcritsRestent /\ Passe(t, "lire") /\ msgSim_getColor' = msgSim_getColor
    BY <1>3 DEF CouleurArrivee, EcritsRestent
  <2>3. fils' \in [Fils -> Seq(Suivis')]
    BY <1>0, <2>1, <2>2, PasseTypes DEF Etapes
  <2>4. TypesScene'
    BY <1>3 DEF CouleurArrivee, varsScene, TypesScene
  <2>5. QED  BY <1>0, <2>3, <2>4 DEF TypesPont
<1>4. CASE Lire(t)
  <2>1. msgSim_getColor \in Postes
    BY <1>0, <1>4 DEF Lire, Suivis
  <2>2. EcritsRestent /\ Passe(t, "ordre") /\ msgSim_getColor' = msgSim_getColor
    BY <1>4 DEF Lire, EcritsRestent
  <2>3. fils' \in [Fils -> Seq(Suivis')]
    BY <1>0, <2>1, <2>2, PasseTypes DEF Etapes
  <2>4. TypesScene'
    BY <1>4 DEF Lire, varsScene, TypesScene
  <2>5. QED  BY <1>0, <2>3, <2>4 DEF TypesPont
<1>5. CASE OrdreChange(t)
  <2>1. msgSim_getColor \in Postes
    BY <1>0, <1>5 DEF OrdreChange, Suivis
  <2>2. msgSim_changeColor' \in Codes
    BY <1>0, <1>5 DEF OrdreChange, Suivis, AppelType, Codes
  <2>3. EcritsRestent /\ Passe(t, "demandeChange") /\ msgSim_getColor' = msgSim_getColor
    BY <1>5, <2>2 DEF OrdreChange, EcritsRestent
  <2>4. fils' \in [Fils -> Seq(Suivis')]
    BY <1>0, <2>1, <2>2, <2>3, PasseTypes DEF Etapes
  <2>5. TypesScene'
    BY <1>5 DEF OrdreChange, varsScene, TypesScene
  <2>6. QED  BY <1>0, <2>4, <2>5 DEF TypesPont
<1>6. CASE DemandeChange(t)
  <2>1. msgSim_getColor \in Postes /\ msgSim_changeColor \in Codes
    BY <1>0, <1>6 DEF DemandeChange, Suivis
  <2>2. /\ EcritsRestent /\ Passe(t, "attendChange")
        /\ UNCHANGED <<msgSim_getColor, msgSim_changeColor>>
    BY <1>6 DEF DemandeChange, EcritsRestent
  <2>3. fils' \in [Fils -> Seq(Suivis')]
    BY <1>0, <2>1, <2>2, PasseTypes DEF Etapes, Attentes
  <2>4. TypesScene'
    BY <1>6, <2>1 DEF DemandeChange, TypesScene
  <2>5. QED  BY <1>0, <2>3, <2>4 DEF TypesPont
<1>7. QED
  BY <1>1, <1>2, <1>3, <1>4, <1>5, <1>6 DEF Etape, AddProductEtape

LEMMA CallbackTypes ==
    ASSUME InvTypes, NEW t \in Fils, Callback(t)
    PROVE  InvTypes'
<1> USE DEF InvTypes
<1>1. TypesCommande'
  BY DEF Callback, varsCommande, TypesCommande
<1>2. CASE simGetColorCallback
  <2>1. EcritsRestent /\ fils' = fils /\ requete' = requete
    BY <1>2 DEF simGetColorCallback, EcritsRestent
  <2>2. fils' \in [Fils -> Seq(Suivis')]
    BY <2>1, FilsIntacts
  <2>3. /\ Head(reponsesCouleur) \in Produits \cup {0}
        /\ Tail(reponsesCouleur) \in Seq(Produits \cup {0})
    BY <1>2, TeteEtReste DEF simGetColorCallback, TypesScene
  <2>4. TypesScene' /\ valueSim_getColor' \in Produits \cup {0}
    BY <1>2, <2>3 DEF simGetColorCallback, TypesScene
  <2>5. QED  BY <1>1, <2>1, <2>2, <2>4 DEF TypesPont
<1>3. CASE simChangeColorCallback
  <2>1. EcritsRestent /\ fils' = fils /\ UNCHANGED <<requete, valueSim_getColor>>
    BY <1>3 DEF simChangeColorCallback, EcritsRestent
  <2>2. fils' \in [Fils -> Seq(Suivis')]
    BY <2>1, FilsIntacts
  <2>3. TypesScene'
    BY <1>3 DEF simChangeColorCallback, TypesScene
  <2>4. QED  BY <1>1, <2>1, <2>2, <2>3 DEF TypesPont
<1>4. CASE AddProduct(t)
  <2>1. requete \in Codes /\ requete' = Rien
    BY <1>4 DEF AddProduct, TypesPont
  <2>2. EcritsRestent /\ valueSim_getColor' = valueSim_getColor
    BY <1>4 DEF AddProduct, EcritsRestent
  <2>3. fils' \in [Fils -> Seq(Suivis')]
    BY <1>4, <2>1, <2>2, EntreTypes DEF AddProduct
  <2>4. TypesScene'
    BY <1>4 DEF AddProduct, varsScene, TypesScene
  <2>5. QED  BY <1>1, <2>1, <2>2, <2>3, <2>4 DEF TypesPont
<1>5. QED  BY <1>2, <1>3, <1>4 DEF Callback

(* addProduct returns: the command goes on to the log with a product still *)
(* to add, or the menu asks for its code to be kept.                       *)
LEMMA FinAjoutTypes ==
    ASSUME InvTypes, NEW t \in Fils, FinAjout(t),
           Last(fils[t]).origine # "menu" => reste # <<>>
    PROVE  InvTypes'
<1> USE DEF InvTypes
<1>1. PICK a \in Suivis, f \in Seq(Suivis) :
         a = Last(fils[t]) /\ f = Front(fils[t])
  BY AppelDe DEF FinAjout, ChangeArrive, Dans
<1>2. /\ EcritsRestent /\ UNCHANGED <<requete, valueSim_getColor>>
      /\ fils' = [fils EXCEPT ![t] = f]
  BY <1>1 DEF FinAjout, ChangeArrive, EcritsRestent
<1>3. f \in Seq(Suivis')
  BY <1>2, SuivisCroissent
<1>4. fils' \in [Fils -> Seq(Suivis')]
  BY <1>2, <1>3, FilsChange
<1>5. TypesScene'
  BY DEF FinAjout, ChangeArrive, varsScene, TypesScene
<1>6. TypesCommande'
  <2>1. <<a.poste, a.produit>> \in Codes
    BY DEF Suivis, AppelType, Codes
  <2>2. UNCHANGED <<reste, produit_a_ajouter, M>>
    BY DEF FinAjout
  <2>3. CASE a.origine = "menu"
    <3>1. menu' = "push" /\ requetePush' = <<a.poste, a.produit>> /\ cmd' = cmd
      BY <1>1, <2>3 DEF FinAjout
    <3>2. QED  BY <2>1, <2>2, <3>1 DEF TypesCommande
  <2>4. CASE a.origine # "menu"
    <3>1. menu' = menu /\ requetePush' = requetePush /\ cmd' = "journal" /\ reste # <<>>
      BY <1>1, <2>4 DEF FinAjout
    <3>2. QED  BY <2>2, <3>1 DEF TypesCommande
  <2>5. QED  BY <2>3, <2>4
<1>7. QED  BY <1>2, <1>4, <1>5, <1>6 DEF TypesPont
-----------------------------------------------------------------------------
LEMMA ServicesAjout ==
    ASSUME NEW S, NEW s \in Seq(S), NEW e \in S
    PROVE  /\ e.origine # "service" => Services(Append(s, e)) = Services(s)
           /\ e.origine = "service" => Services(Append(s, e)) = Services(s) \cup {Len(s) + 1}
<1>1. PICK r : r = Append(s, e)
  OBVIOUS
<1>2. /\ Len(s) \in Nat /\ DOMAIN s = 1..Len(s)
      /\ DOMAIN r = 1..(Len(s) + 1)
      /\ \A i \in 1..Len(s) : r[i] = s[i]
      /\ r[Len(s) + 1] = e
  BY <1>1
<1>3. e.origine # "service" => Services(r) = Services(s)
  BY <1>2 DEF Services
<1>4. e.origine = "service" => Services(r) = Services(s) \cup {Len(s) + 1}
  BY <1>2 DEF Services
<1>5. QED  BY <1>1, <1>3, <1>4

LEMMA ServicesFront ==
    ASSUME NEW S, NEW s \in Seq(S), s # <<>>
    PROVE  /\ Last(s).origine # "service" => Services(Front(s)) = Services(s)
           /\ Last(s).origine = "service" =>
                Len(s) \in Services(s) /\ Services(Front(s)) = Services(s) \ {Len(s)}
<1>1. PICK f \in Seq(S), e \in S :
         f = Front(s) /\ e = Last(s) /\ s = Append(f, e) /\ Len(s) = Len(f) + 1
  BY FrontEtLast
<1>2. \A i \in Services(f) : i # Len(f) + 1
  BY DEF Services
<1>3. /\ e.origine # "service" => Services(s) = Services(f)
      /\ e.origine = "service" => Services(s) = Services(f) \cup {Len(f) + 1}
  BY <1>1, ServicesAjout
<1>4. QED  BY <1>1, <1>2, <1>3

LEMMA ServicesIntacts ==
    ASSUME UnService, UNCHANGED <<requete, cmd>>,
           \A t \in Fils : Services(fils'[t]) = Services(fils[t])
    PROVE  UnService'
<1>1. requete' # Rien => cmd' = "attend" /\ \A t \in Fils : Services(fils'[t]) = {}
  BY DEF UnService
<1>2. \A t \in Fils : \A i \in Services(fils'[t]) :
         /\ cmd' = "attend" /\ Services(fils'[t]) = {i}
         /\ \A u \in Fils \ {t} : Services(fils'[u]) = {}
  BY DEF UnService
<1>3. QED  BY <1>1, <1>2 DEF UnService

LEMMA PasseServices ==
    ASSUME TypesPont, NEW t \in Fils, NEW e, fils[t] # <<>>, Passe(t, e)
    PROVE  \A u \in Fils : Services(fils'[u]) = Services(fils[u])
<1>1. PICK a \in Suivis, f \in Seq(Suivis) :
         a = Last(fils[t]) /\ f = Front(fils[t]) /\ fils[t] = Append(f, a)
  <2>1. fils[t] \in Seq(Suivis)
    BY DEF TypesPont
  <2>2. /\ Last(fils[t]) \in Suivis /\ Front(fils[t]) \in Seq(Suivis)
        /\ fils[t] = Append(Front(fils[t]), Last(fils[t]))
    BY <2>1, FrontEtLast
  <2>3. QED  BY <2>2
<1>2. PICK b : b = [a EXCEPT !.etape = e]
  OBVIOUS
<1>3. b.origine = a.origine
  BY <1>2 DEF Suivis, AppelType
<1>4. PICK T : T = Suivis \cup {b}
  OBVIOUS
<1>5. f \in Seq(T) /\ a \in T /\ b \in T
  BY <1>4, SeqPlus
<1>6. Services(Append(f, b)) = Services(Append(f, a))
  <2>1. /\ b.origine # "service" => Services(Append(f, b)) = Services(f)
        /\ b.origine = "service" => Services(Append(f, b)) = Services(f) \cup {Len(f) + 1}
    BY <1>5, ServicesAjout
  <2>2. /\ a.origine # "service" => Services(Append(f, a)) = Services(f)
        /\ a.origine = "service" => Services(Append(f, a)) = Services(f) \cup {Len(f) + 1}
    BY <1>5, ServicesAjout
  <2>3. QED  BY <1>3, <2>1, <2>2
<1>7. fils' = [fils EXCEPT ![t] = Append(f, b)]
  BY <1>1, <1>2 DEF Passe
<1>8. fils'[t] = Append(f, b) /\ \A u \in Fils \ {t} : fils'[u] = fils[u]
  BY <1>7 DEF TypesPont
<1>9. QED  BY <1>1, <1>6, <1>8

LEMMA EntreServices ==
    ASSUME TypesPont, NEW t \in Fils, NEW c \in Codes, NEW o \in {"menu", "service"},
           Entre(t, Appel(c[1], c[2], o))
    PROVE  /\ \A u \in Fils \ {t} : Services(fils'[u]) = Services(fils[u])
           /\ o = "menu" => Services(fils'[t]) = Services(fils[t])
           /\ o = "service" => \E i : Services(fils'[t]) = Services(fils[t]) \cup {i}
<1>1. PICK a : a = Appel(c[1], c[2], o)
  OBVIOUS
<1>2. a \in AppelType /\ a.origine = o
  BY <1>1, CodePaire DEF Appel, AppelType, Etapes
<1>3. fils[t] \in Seq(AppelType)
  <2>1. fils[t] \in Seq(Suivis) /\ Suivis \subseteq AppelType
    BY DEF TypesPont, Suivis
  <2>2. QED  BY <2>1, SeqPlus
<1>4. /\ fils'[t] = Append(fils[t], a)
      /\ \A u \in Fils \ {t} : fils'[u] = fils[u]
  BY <1>1 DEF Entre, TypesPont
<1>5. /\ o # "service" => Services(Append(fils[t], a)) = Services(fils[t])
      /\ o = "service" => Services(Append(fils[t], a)) = Services(fils[t]) \cup {Len(fils[t]) + 1}
  BY <1>2, <1>3, ServicesAjout
<1>6. QED  BY <1>4, <1>5

(* A call that returns leaves its stack; that of the service was alone.    *)
LEMMA SortServices ==
    ASSUME TypesPont, UnService, NEW t \in Fils, FinAjout(t)
    PROVE  UnService' /\ (Last(fils[t]).origine # "menu" => cmd = "attend")
<1>1. fils[t] # <<>>
  BY DEF FinAjout, ChangeArrive, Dans
<1>2. fils[t] \in Seq(Suivis)
  BY DEF TypesPont
<1>3. PICK a \in Suivis : a = Last(fils[t])
  BY <1>1, AppelDe
<1>4. a.origine \in {"menu", "service"}
  BY DEF Suivis, AppelType
<1>5. fils'[t] = Front(fils[t]) /\ \A u \in Fils \ {t} : fils'[u] = fils[u]
  BY DEF FinAjout, ChangeArrive, TypesPont
<1>6. requete' = requete
  BY DEF FinAjout, ChangeArrive
<1>7. /\ a.origine # "service" => Services(fils'[t]) = Services(fils[t])
      /\ a.origine = "service" =>
           /\ Len(fils[t]) \in Services(fils[t])
           /\ Services(fils'[t]) = Services(fils[t]) \ {Len(fils[t])}
  BY <1>1, <1>2, <1>3, <1>5, ServicesFront
<1>8. CASE a.origine = "menu"
  <2>1. cmd' = cmd
    BY <1>3, <1>8 DEF FinAjout
  <2>2. \A u \in Fils : Services(fils'[u]) = Services(fils[u])
    BY <1>5, <1>7, <1>8
  <2>3. QED  BY <1>3, <1>6, <1>8, <2>1, <2>2, ServicesIntacts
<1>9. CASE a.origine = "service"
  <2>1. PICK i : i = Len(fils[t]) /\ i \in Services(fils[t])
    BY <1>7, <1>9
  <2>2. /\ cmd = "attend" /\ Services(fils[t]) = {i}
        /\ \A u \in Fils \ {t} : Services(fils[u]) = {}
    BY <2>1 DEF UnService
  <2>3. \A u \in Fils : Services(fils'[u]) = {}
    BY <1>5, <1>7, <1>9, <2>1, <2>2
  <2>4. requete' = Rien
    BY <1>6, <2>1 DEF UnService
  <2>5. UnService'
    BY <2>3, <2>4 DEF UnService
  <2>6. QED  BY <2>2, <2>5
<1>10. QED  BY <1>4, <1>8, <1>9

LEMMA UnServiceSuit ==
    ASSUME InvTypes, UnService, Next
    PROVE  UnService'
<1>0. TypesPont
  BY DEF InvTypes
<1>1. ASSUME NEW t \in Fils, Etape(t)
      PROVE  UnService'
  <2>1. UNCHANGED <<requete, cmd>> /\ fils[t] # <<>> /\ \E e \in Etapes : Passe(t, e)
    BY <1>1 DEF Etape, AddProductEtape, varsCommande, Question, DemandeCouleur,
                CouleurArrivee, Lire, OrdreChange, DemandeChange, Dans, Etapes, Attentes
  <2>2. QED  BY <1>0, <2>1, PasseServices, ServicesIntacts
<1>2. ASSUME NEW t \in Fils, Callback(t)
      PROVE  UnService'
  <2>1. cmd' = cmd
    BY <1>2 DEF Callback, varsCommande
  <2>2. CASE simGetColorCallback \/ simChangeColorCallback
    <3>1. fils' = fils /\ requete' = requete
      BY <2>2 DEF simGetColorCallback, simChangeColorCallback
    <3>2. QED  BY <2>1, <3>1, ServicesIntacts
  <2>3. CASE AddProduct(t)
    <3>1. requete \in Codes /\ requete # Rien /\ requete' = Rien
      BY <1>0, <2>3 DEF AddProduct, TypesPont
    <3>2. cmd = "attend" /\ \A u \in Fils : Services(fils[u]) = {}
      BY <3>1 DEF UnService
    <3>3. /\ \A u \in Fils \ {t} : Services(fils'[u]) = Services(fils[u])
          /\ \E i : Services(fils'[t]) = Services(fils[t]) \cup {i}
      BY <1>0, <2>3, <3>1, EntreServices DEF AddProduct
    <3>4. PICK i : Services(fils'[t]) = {i}
      BY <3>2, <3>3
    <3>5. \A u \in Fils \ {t} : Services(fils'[u]) = {}
      BY <3>2, <3>3
    <3>6. QED  BY <2>1, <3>1, <3>2, <3>4, <3>5 DEF UnService
  <2>4. QED  BY <1>2, <2>2, <2>3 DEF Callback
<1>3. ASSUME NEW t \in Fils, FinAjout(t)
      PROVE  UnService'
  BY <1>0, <1>3, SortServices
<1>4. ASSUME NEW c \in Codes, MenuAjoute(c[1], c[2])
      PROVE  UnService'
  <2>1. UNCHANGED <<requete, cmd>> /\ Entre("menu", Appel(c[1], c[2], "menu")) /\ "menu" \in Fils
    BY <1>4 DEF MenuAjoute, Fils
  <2>2. \A u \in Fils : Services(fils'[u]) = Services(fils[u])
    BY <1>0, <2>1, EntreServices
  <2>3. QED  BY <2>1, <2>2, ServicesIntacts
<1>5. ASSUME AjouterProduit
      PROVE  UnService'
  <2>1. cmd = "libre" /\ cmd' = "attend" /\ fils' = fils
    BY <1>5 DEF AjouterProduit
  <2>2. \A t \in Fils : Services(fils[t]) = {}
    BY <2>1 DEF UnService
  <2>3. QED  BY <2>1, <2>2 DEF UnService
<1>6. ASSUME AjouterProduitSuite
      PROVE  UnService'
  <2>1. cmd = "journal" /\ requete' = requete /\ fils' = fils
    BY <1>6 DEF AjouterProduitSuite, varsPont
  <2>2. requete = Rien /\ \A t \in Fils : Services(fils[t]) = {}
    BY <2>1 DEF UnService
  <2>3. QED  BY <2>1, <2>2 DEF UnService
<1>7. ASSUME \/ \E c \in Codes : Evacue(c)
             \/ MenuTour \/ SceneRepond \/ Log \/ LogTemps
             \/ ProductAddPushBack \/ MarqueProduits
      PROVE  UnService'
  <2>1. UNCHANGED <<fils, requete, cmd>>
    BY <1>7 DEF Evacue, Retire, MenuTour, SceneRepond, RepondCouleur, RepondChange, Log,
                LogTemps, ProductAddPushBack, MarqueProduits, varsPont, varsCommande
  <2>2. QED  BY <2>1, ServicesIntacts
<1>8. QED
  BY <1>1, <1>2, <1>3, <1>4, <1>5, <1>6, <1>7 DEF Next, Commande
-----------------------------------------------------------------------------
(* The menu and the command. *)
LEMMA MenuTypes ==
    ASSUME InvTypes, NEW c \in Codes, MenuAjoute(c[1], c[2])
    PROVE  InvTypes'
<1> USE DEF InvTypes, MenuAjoute
<1>1. /\ EcritsRestent /\ Entre("menu", Appel(c[1], c[2], "menu")) /\ "menu" \in Fils
      /\ UNCHANGED <<requete, valueSim_getColor>>
  BY DEF EcritsRestent, Fils
<1>2. fils' \in [Fils -> Seq(Suivis')]
  BY <1>1, EntreTypes
<1>3. TypesScene'
  BY DEF varsScene, TypesScene
<1>4. TypesCommande'
  BY DEF TypesCommande
<1>5. QED  BY <1>1, <1>2, <1>3, <1>4 DEF TypesPont

LEMMA CommandeTypes ==
    ASSUME InvTypes, Commande \/ MenuTour
    PROVE  InvTypes'
<1> USE DEF InvTypes
<1>1. /\ EcritsRestent /\ UNCHANGED <<fils, valueSim_getColor>>
      /\ requete' \in Codes \cup {Rien}
      /\ TypesScene'
  <2>1. CASE AjouterProduit
    <3>1. Head(reste) \in Codes
      BY <2>1, TeteEtReste DEF AjouterProduit, TypesCommande
    <3>2. QED
      BY <2>1, <3>1 DEF AjouterProduit, EcritsRestent, varsScene, TypesScene
  <2>2. CASE AjouterProduitSuite \/ ProductAddPushBack \/ MarqueProduits \/ MenuTour
    BY <2>2 DEF AjouterProduitSuite, ProductAddPushBack, MarqueProduits, MenuTour,
                EcritsRestent, varsPont, varsScene, TypesScene, TypesPont
  <2>3. QED  BY <2>1, <2>2 DEF Commande
<1>2. fils' \in [Fils -> Seq(Suivis')]
  BY <1>1, FilsIntacts
<1>3. TypesCommande'
  <2>1. CASE AjouterProduit
    BY <2>1 DEF AjouterProduit, TypesCommande
  <2>2. CASE AjouterProduitSuite
    <3>1. Head(reste) \in Codes /\ Tail(reste) \in Seq(Codes)
      BY <2>2, TeteEtReste DEF AjouterProduitSuite, TypesCommande
    <3>2. QED  BY <2>2, <3>1 DEF AjouterProduitSuite, TypesCommande
  <2>3. CASE ProductAddPushBack
    <3>1. requetePush \in Codes
      BY <2>3 DEF ProductAddPushBack, TypesCommande
    <3>2. QED  BY <2>3, <3>1 DEF ProductAddPushBack, TypesCommande
  <2>4. CASE MarqueProduits
    <3>1. \A c \in Codes : Nombre(produit_a_ajouter, c) \in Nat /\ M[c] \in Nat
      BY NombreNat DEF TypesCommande
    <3>2. M' \in [Codes -> Nat]
      BY <2>4, <3>1 DEF MarqueProduits
    <3>3. QED  BY <2>4, <3>2 DEF MarqueProduits, TypesCommande
  <2>5. CASE MenuTour
    BY <2>5 DEF MenuTour, TypesCommande
  <2>6. QED  BY <2>1, <2>2, <2>3, <2>4, <2>5 DEF Commande
<1>4. QED  BY <1>1, <1>2, <1>3 DEF TypesPont

(* The scene answers, and a robot takes the product of a post.             *)
LEMMA SceneTypes ==
    ASSUME InvTypes, SceneRepond \/ \E c \in Codes : Evacue(c)
    PROVE  InvTypes'
<1> USE DEF InvTypes
<1>1. EcritsRestent /\ UNCHANGED <<fils, requete, valueSim_getColor>>
  BY DEF SceneRepond, RepondCouleur, RepondChange, Evacue, Retire, varsPont, EcritsRestent
<1>2. fils' \in [Fils -> Seq(Suivis')]
  BY <1>1, FilsIntacts
<1>3. CASE RepondCouleur /\ UNCHANGED varsCommande
  <2>1. Head(demandesCouleur) \in Postes /\ Tail(demandesCouleur) \in Seq(Postes)
    BY <1>3, TeteEtReste DEF RepondCouleur, TypesScene
  <2>2. PICK v \in Produits \cup {0} : v = poste[Head(demandesCouleur)]
    BY <2>1 DEF TypesScene
  <2>3. TypesScene'
    BY <1>3, <2>1, <2>2 DEF RepondCouleur, TypesScene
  <2>4. TypesCommande'
    BY <1>3 DEF varsCommande, TypesCommande
  <2>5. QED  BY <1>1, <1>2, <2>3, <2>4 DEF TypesPont
<1>4. CASE RepondChange /\ UNCHANGED varsCommande
  <2>1. Head(demandesChange) \in Codes /\ Tail(demandesChange) \in Seq(Codes)
    BY <1>4, TeteEtReste DEF RepondChange, TypesScene
  <2>2. Head(demandesChange)[1] \in Postes /\ Head(demandesChange)[2] \in Produits
    BY <2>1, CodePaire
  <2>3. TypesScene'
    BY <1>4, <2>1, <2>2 DEF RepondChange, TypesScene
  <2>4. TypesCommande'
    BY <1>4 DEF varsCommande, TypesCommande
  <2>5. QED  BY <1>1, <1>2, <2>3, <2>4 DEF TypesPont
<1>5. ASSUME NEW c \in Codes, Evacue(c)
      PROVE  InvTypes'
  <2>1. c[1] \in Postes
    BY CodePaire
  <2>2. poste' \in [Postes -> Produits \cup {0}]
    BY <1>5, <2>1 DEF Evacue, Retire, TypesScene
  <2>3. TypesScene'
    BY <1>5, <2>2 DEF Evacue, Retire, TypesScene
  <2>4. M[c] \in Nat /\ M[c] > 0
    BY <1>5 DEF Evacue, TypesCommande
  <2>5. M' \in [Codes -> Nat]
    BY <1>5, <2>4 DEF Evacue, TypesCommande
  <2>6. TypesCommande'
    BY <1>5, <2>5 DEF Evacue, TypesCommande
  <2>7. QED  BY <1>1, <1>2, <2>3, <2>6 DEF TypesPont
<1>6. QED  BY <1>3, <1>4, <1>5 DEF SceneRepond

LEMMA TypesIntacts ==
    ASSUME InvTypes, UNCHANGED <<varsPont, varsScene, varsCommande>>
    PROVE  InvTypes'
BY DEF InvTypes, TypesScene, TypesPont, TypesCommande, Suivis, varsPont, varsScene, varsCommande

LEMMA InvAjoutsSuit ==
    ASSUME [Next]_vars, InvAjouts
    PROVE  InvAjouts'
<1> USE DEF InvAjouts
<1>1. InvJournal'
  BY JournalSuit
<1>2. CASE UNCHANGED vars
  <2>1. UNCHANGED <<varsPont, varsScene, varsCommande>>
    BY <1>2 DEF vars
  <2>2. UnService'
    BY <2>1 DEF UnService, varsPont, varsCommande
  <2>3. QED  BY <1>1, <2>1, <2>2, TypesIntacts
<1>3. CASE Next
  <2>1. UnService'
    BY <1>3, UnServiceSuit
  <2>2. ASSUME NEW t \in Fils, FinAjout(t) PROVE InvTypes'
    <3>1. TypesPont /\ TypesCommande
      BY DEF InvTypes
    <3>2. Last(fils[t]).origine # "menu" => cmd = "attend"
      BY <2>2, <3>1, SortServices
    <3>3. Last(fils[t]).origine # "menu" => reste # <<>>
      BY <3>1, <3>2 DEF TypesCommande
    <3>4. QED  BY <2>2, <3>3, FinAjoutTypes
  <2>3. ASSUME Log \/ LogTemps PROVE InvTypes'
    BY <2>3, TypesIntacts DEF Log, LogTemps
  <2>4. InvTypes'
    BY <1>3, <2>2, <2>3, EtapeTypes, CallbackTypes, MenuTypes, CommandeTypes, SceneTypes
       DEF Next
  <2>5. QED  BY <1>1, <2>1, <2>4
<1>4. QED  BY <1>2, <1>3

LEMMA InvAjoutsInitial == Init => InvAjouts
<1>1. Init => UnService
  BY DEF Init, InitPont, UnService, Services
<1>2. QED  BY <1>1, InvTypesInitial, InvJournalInitial DEF InvAjouts
-----------------------------------------------------------------------------
LEMMA InvAjoutsInvariant == Spec => []InvAjouts
<1>1. Init => InvAjouts
  BY InvAjoutsInitial
<1>2. InvAjouts /\ [Next]_vars => InvAjouts'
  BY InvAjoutsSuit
<1>3. QED  BY <1>1, <1>2, PTL DEF Spec

LEMMA InvDonneTypes ==
    ASSUME InvAjouts
    PROVE  TypeOK
<1> USE DEF InvAjouts, InvTypes, InvJournal
<1>1. \A t \in Fils : \A i \in DOMAIN fils[t] : fils[t][i] \in AppelType
  <2> TAKE t \in Fils
  <2>1. fils[t] \in Seq(Suivis)
    BY DEF TypesPont
  <2>2. \A i \in DOMAIN fils[t] : fils[t][i] \in Suivis
    BY <2>1
  <2>3. QED  BY <2>2 DEF Suivis
<1>2. \A i \in DOMAIN monFlux : monFlux[i] \in Lignes
  BY DEF JournalTypes
<1>3. fileAjout \in {<<>>} \cup {<<NouveauProduit(q)>> : q \in Produits}
  BY DEF JournalTypes, Ajouts
<1>4. QED
  BY <1>1, <1>2, <1>3 DEF TypeOK, TypesScene, TypesPont, TypesCommande

(* However the menu and the net add their products, at the same time or    *)
(* not, and at whatever rhythm the log is told of them, every call of      *)
(* addProduct asks about a post and orders a product that exist, and every *)
(* variable keeps to its domain.                                           *)
THEOREM TypesDesAjouts == Spec => []TypeOK
<1>1. InvAjouts => TypeOK
  BY InvDonneTypes
<1>2. QED  BY <1>1, InvAjoutsInvariant, PTL

(* When two messages for the log never ask for the time in the same step   *)
(* of the simulation, no line is lost nor written twice: what is published *)
(* is written, or held by a callback that waits, or in a queue, and every  *)
(* callback that waits has an answer to come.                              *)
THEOREM JournalToujoursExact ==
    ASSUME Cadence
    PROVE  Spec => []JournalExact
<1>1. InvAjouts => JournalExact
  BY DEF InvAjouts, InvJournal
<1>2. QED  BY <1>1, InvAjoutsInvariant, PTL
-----------------------------------------------------------------------------
(* No product is overwritten in silence.                                   *)

(* Nothing is asked of the scene, and no answer is there. *)
Calme ==
    /\ demandesCouleur = <<>> /\ reponsesCouleur = <<>> /\ ~repSim_getColor
    /\ demandesChange = <<>> /\ reponsesChange = 0 /\ ~repSim_changeColor

CouleurVraie(p, v) == poste[p] # 0 => v # 0
Signale(p) ==
    poste[p] # 0 => ecrases[p] < erreurs[p] /\ RobotEtPosition[p] \in arrets

(* Where the question and the order of a call are, at each of its steps.   *)
AttendCouleur(a) ==
    /\ demandesChange = <<>> /\ reponsesChange = 0 /\ ~repSim_changeColor
    /\ \/ /\ demandesCouleur = <<a.poste>> /\ reponsesCouleur = <<>>
          /\ ~repSim_getColor
       \/ /\ demandesCouleur = <<>> /\ ~repSim_getColor
          /\ \E v \in Produits \cup {0} : reponsesCouleur = <<v>> /\ CouleurVraie(a.poste, v)
       \/ /\ demandesCouleur = <<>> /\ reponsesCouleur = <<>>
          /\ repSim_getColor /\ CouleurVraie(a.poste, valueSim_getColor)

AttendChange(a) ==
    /\ demandesCouleur = <<>> /\ reponsesCouleur = <<>> /\ ~repSim_getColor
    /\ \/ /\ demandesChange = << <<a.poste, a.produit>> >> /\ reponsesChange = 0
          /\ ~repSim_changeColor /\ Signale(a.poste)
       \/ demandesChange = <<>> /\ reponsesChange = 1 /\ ~repSim_changeColor
       \/ demandesChange = <<>> /\ reponsesChange = 0 /\ repSim_changeColor

EtatDe(a) ==
    \/ a.etape = "question" /\ Calme
    \/ a.etape = "demandeCouleur" /\ Calme /\ msgSim_getColor = a.poste
    \/ a.etape = "attendCouleur" /\ AttendCouleur(a)
    \/ a.etape = "lire" /\ Calme /\ CouleurVraie(a.poste, valueSim_getColor)
    \/ a.etape = "ordre" /\ Calme /\ Signale(a.poste)
    \/ a.etape = "demandeChange" /\ Calme /\ Signale(a.poste)
       /\ msgSim_changeColor = <<a.poste, a.produit>>
    \/ a.etape = "attendChange" /\ AttendChange(a)

TypesPostes ==
    /\ poste \in [Postes -> Produits \cup {0}]
    /\ erreurs \in [Postes -> Nat] /\ ecrases \in [Postes -> Nat]

(* One call at a time, of the menu or of the service. *)
Types ==
    /\ fils \in [Fils -> {<<>>} \cup {<<a>> : a \in AppelType}]
    /\ requete \in Codes \cup {Rien}
    /\ reste \in Seq(Codes) /\ (cmd # "libre" => reste # <<>>)
    /\ TypesPostes

Libre == \A t \in Fils : fils[t] = <<>>

UnAppel ==
    /\ fils["menu"] = <<>> \/ fils["spinner"] = <<>>
    /\ requete # Rien => cmd = "attend" /\ Libre
    /\ ~(cmd = "attend" /\ menu = "produit")
    /\ requetePush # Rien => menu = "push"
    /\ \A t \in Fils : fils[t] # <<>> =>
         IF fils[t][1].origine = "menu" THEN menu = "produit" ELSE cmd = "attend"

Questions ==
    /\ Libre => Calme
    /\ \A t \in Fils : fils[t] # <<>> => EtatDe(fils[t][1])

InvAjout == Types /\ UnAppel /\ Questions /\ EcrasementSignale

LEMMA UnSeul ==
    ASSUME NEW a
    PROVE  Last(<<a>>) = a /\ Front(<<a>>) = <<>> /\ Append(<<>>, a) = <<a>>
BY DEF Last, Front

(* The thread that runs a step of addProduct, and its call. *)
LEMMA AppelEnCours ==
    ASSUME InvAjout, NEW t \in Fils, fils[t] # <<>>
    PROVE  /\ Last(fils[t]) = fils[t][1] /\ Front(fils[t]) = <<>>
           /\ fils[t] = <<fils[t][1]>>
           /\ fils[t][1] \in AppelType
           /\ fils[t][1].poste \in Postes
           /\ \A u \in Fils \ {t} : fils[u] = <<>>
           /\ requete = Rien
           /\ EtatDe(fils[t][1])
<1>1. PICK a \in AppelType : fils[t] = <<a>>
  BY DEF InvAjout, Types
<1>2. Last(<<a>>) = a /\ Front(<<a>>) = <<>> /\ fils[t][1] = a
  BY <1>1, UnSeul
<1>3. a.poste \in Postes
  BY DEF AppelType
<1>4. \A u \in Fils \ {t} : fils[u] = <<>>
  <2>1. Fils = {"menu", "spinner"} /\ fils[t] # <<>>
    BY DEF Fils
  <2>2. QED BY <2>1 DEF InvAjout, UnAppel
<1>5. requete = Rien
  BY DEF InvAjout, UnAppel, Libre
<1>6. EtatDe(fils[t][1])
  BY DEF InvAjout, Questions
<1>7. QED BY <1>1, <1>2, <1>3, <1>4, <1>5, <1>6

LEMMA InvAjoutInitial == Init => InvAjout
BY AjoutAssumption, AjoutJournaliseAssumption
   DEF Init, InitPont, InitScene, InvAjout, Types, TypesPostes, UnAppel, Questions, Libre, Calme,
       EcrasementSignale, Codes, Fils

(* A step of the call of thread t: what is left to show is that the scene  *)
(* is where the next step of the call expects it.                          *)
LEMMA PasseSuffit ==
    ASSUME InvAjout, NEW t \in Fils, NEW e \in Etapes, NEW f \in Etapes,
           Dans(t, e), Passe(t, f), UNCHANGED <<requete, reste, cmd, menu, requetePush>>
    PROVE  \E a \in AppelType, b \in AppelType :
             /\ Last(fils[t]) = a /\ a.etape = e /\ EtatDe(a)
             /\ a.poste \in Postes /\ a.produit \in Produits
             /\ b.etape = f /\ b.poste = a.poste /\ b.produit = a.produit
             /\ TypesPostes' /\ EcrasementSignale' /\ EtatDe(b)' => InvAjout'
<1>0. PICK a \in AppelType : a = fils[t][1]
  BY AppelEnCours DEF Dans
<1>1. /\ Last(fils[t]) = a /\ Front(fils[t]) = <<>> /\ fils[t] = <<a>>
      /\ requete = Rien /\ EtatDe(a)
      /\ \A u \in Fils \ {t} : fils[u] = <<>>
  <2>1. EtatDe(fils[t][1])
    BY AppelEnCours DEF Dans
  <2>2. QED BY <1>0, <2>1, AppelEnCours DEF Dans
<1>2. PICK b \in AppelType : b = [a EXCEPT !.etape = f]
  BY DEF AppelType
<1>3. /\ a.etape = e /\ a.poste \in Postes /\ a.produit \in Produits
      /\ b.etape = f /\ b.poste = a.poste /\ b.produit = a.produit
      /\ b.origine = a.origine
  BY <1>1, <1>2 DEF Dans, AppelType
<1>4. fils' = [fils EXCEPT ![t] = <<b>>]
  BY <1>1, <1>2, UnSeul DEF Passe
<1>5. fils \in [Fils -> {<<>>} \cup {<<x>> : x \in AppelType}]
  BY DEF InvAjout, Types
<1>6. /\ fils' \in [Fils -> {<<>>} \cup {<<x>> : x \in AppelType}]
      /\ fils'[t] = <<b>> /\ fils'[t][1] = b
      /\ \A u \in Fils \ {t} : fils'[u] = <<>>
  BY <1>1, <1>4, <1>5
<1>7. UnAppel'
  <2>1. fils'["menu"] = <<>> \/ fils'["spinner"] = <<>>
    BY <1>6 DEF Fils
  <2>2. IF a.origine = "menu" THEN menu = "produit" ELSE cmd = "attend"
    <3>1. fils[t] # <<>>
      BY DEF Dans
    <3>2. QED BY <1>0, <3>1 DEF InvAjout, UnAppel
  <2>3. requete' = Rien /\ menu' = menu /\ cmd' = cmd
    BY <1>1
  <2>4. ~(cmd' = "attend" /\ menu' = "produit")
        /\ (requetePush' # Rien => menu' = "push")
    BY <2>3 DEF InvAjout, UnAppel
  <2>5. QED BY <1>3, <1>6, <2>1, <2>2, <2>3, <2>4 DEF UnAppel
<1>8. ASSUME TypesPostes', EcrasementSignale', EtatDe(b)' PROVE InvAjout'
  <2>1. requete' \in Codes' \cup {Rien} /\ reste' \in Seq(Codes)
        /\ (cmd' # "libre" => reste' # <<>>)
    BY DEF InvAjout, Types, Codes
  <2>2. Types'
    BY <1>6, <1>8, <2>1 DEF Types, AppelType, Codes
  <2>3. \A u \in Fils : fils'[u] # <<>> => u = t
    BY <1>6
  <2>4. EtatDe(fils[t][1])'
    BY <1>6, <1>8
  <2>5. ~Libre'
    <3>1. <<b>> # <<>>
      OBVIOUS
    <3>2. QED BY <1>6, <3>1 DEF Libre
  <2>6. \A u \in Fils : fils'[u] # <<>> => EtatDe(fils[u][1])'
    BY <2>3, <2>4
  <2>7. Questions'
    BY <2>5, <2>6 DEF Questions
  <2>8. QED BY <1>7, <1>8, <2>2, <2>7 DEF InvAjout
<1>9. QED BY <1>1, <1>3, <1>8
-----------------------------------------------------------------------------
(* The steps of addProduct. *)
Ailleurs == UNCHANGED <<varsJournal, varsCommande>>

LEMMA QuestionPreserve ==
    ASSUME InvAjout, NEW t \in Fils, Question(t), Ailleurs
    PROVE  InvAjout'
<1>1. PICK a \in AppelType, b \in AppelType :
             /\ Last(fils[t]) = a /\ a.etape = "question" /\ EtatDe(a)
             /\ a.poste \in Postes
             /\ b.etape = "demandeCouleur" /\ b.poste = a.poste
             /\ TypesPostes' /\ EcrasementSignale' /\ EtatDe(b)' => InvAjout'
  BY PasseSuffit DEF Question, Ailleurs, varsCommande, Etapes
<1>2. TypesPostes' /\ EcrasementSignale'
  BY DEF InvAjout, Types, TypesPostes, EcrasementSignale, Question, varsScene
<1>3. Calme /\ Calme'
  BY <1>1 DEF EtatDe, Calme, Question, varsScene
<1>4. msgSim_getColor' = b.poste
  BY <1>1 DEF Question
<1>5. QED BY <1>1, <1>2, <1>3, <1>4 DEF EtatDe

LEMMA DemandeCouleurPreserve ==
    ASSUME InvAjout, NEW t \in Fils, DemandeCouleur(t), Ailleurs
    PROVE  InvAjout'
<1>1. PICK a \in AppelType, b \in AppelType :
             /\ Last(fils[t]) = a /\ a.etape = "demandeCouleur" /\ EtatDe(a)
             /\ b.etape = "attendCouleur" /\ b.poste = a.poste
             /\ TypesPostes' /\ EcrasementSignale' /\ EtatDe(b)' => InvAjout'
  BY PasseSuffit DEF DemandeCouleur, Ailleurs, varsCommande, Etapes, Attentes
<1>2. TypesPostes' /\ EcrasementSignale'
  BY DEF InvAjout, Types, TypesPostes, EcrasementSignale, DemandeCouleur
<1>3. Calme /\ msgSim_getColor = a.poste
  BY <1>1 DEF EtatDe
<1>4. AttendCouleur(b)'
  BY <1>1, <1>3, UnSeul DEF AttendCouleur, Calme, DemandeCouleur
<1>5. QED BY <1>1, <1>2, <1>4 DEF EtatDe

LEMMA CouleurArriveePreserve ==
    ASSUME InvAjout, NEW t \in Fils, CouleurArrivee(t), Ailleurs
    PROVE  InvAjout'
<1>1. PICK a \in AppelType, b \in AppelType :
             /\ Last(fils[t]) = a /\ a.etape = "attendCouleur" /\ EtatDe(a)
             /\ b.etape = "lire" /\ b.poste = a.poste
             /\ TypesPostes' /\ EcrasementSignale' /\ EtatDe(b)' => InvAjout'
  BY PasseSuffit DEF CouleurArrivee, Ailleurs, varsCommande, Etapes, Attentes
<1>2. TypesPostes' /\ EcrasementSignale'
  BY DEF InvAjout, Types, TypesPostes, EcrasementSignale, CouleurArrivee, varsScene
<1>3. AttendCouleur(a)
  BY <1>1 DEF EtatDe
<1>4. Calme' /\ CouleurVraie(b.poste, valueSim_getColor)'
  BY <1>1, <1>3 DEF AttendCouleur, Calme, CouleurVraie, CouleurArrivee, varsScene
<1>5. QED BY <1>1, <1>2, <1>4 DEF EtatDe

(* The product read at the post is reported before it is overwritten. *)
LEMMA LirePreserve ==
    ASSUME InvAjout, NEW t \in Fils, Lire(t), Ailleurs
    PROVE  InvAjout'
<1>1. PICK a \in AppelType, b \in AppelType :
             /\ Last(fils[t]) = a /\ a.etape = "lire" /\ EtatDe(a)
             /\ a.poste \in Postes
             /\ b.etape = "ordre" /\ b.poste = a.poste
             /\ TypesPostes' /\ EcrasementSignale' /\ EtatDe(b)' => InvAjout'
  BY PasseSuffit DEF Lire, Ailleurs, varsCommande, Etapes
<1>2. Calme /\ CouleurVraie(a.poste, valueSim_getColor)
  BY <1>1 DEF EtatDe
<1>3. /\ IF valueSim_getColor # 0
         THEN /\ erreurs' = [erreurs EXCEPT ![a.poste] = @ + 1]
              /\ arrets' = arrets \cup {computeNumRobotPosteTache(a.poste)}
         ELSE UNCHANGED <<erreurs, arrets>>
      /\ UNCHANGED varsScene /\ UNCHANGED <<repSim_getColor, repSim_changeColor>>
  BY <1>1 DEF Lire
<1>4. computeNumRobotPosteTache(a.poste) = RobotEtPosition[a.poste]
  BY DEF computeNumRobotPosteTache, RobotEtPosition
<1>5. /\ erreurs \in [Postes -> Nat] /\ ecrases \in [Postes -> Nat]
      /\ poste \in [Postes -> Produits \cup {0}]
      /\ \A p \in Postes : ecrases[p] <= erreurs[p]
                            /\ (ecrases[p] > 0 => RobotEtPosition[p] \in arrets)
  BY DEF InvAjout, Types, TypesPostes, EcrasementSignale
<1>6. /\ erreurs' \in [Postes -> Nat] /\ arrets \subseteq arrets'
      /\ \A p \in Postes : erreurs[p] <= erreurs'[p]
  BY <1>3, <1>5
<1>7. TypesPostes' /\ EcrasementSignale'
  BY <1>3, <1>5, <1>6 DEF TypesPostes, EcrasementSignale, varsScene
<1>8. Calme' /\ Signale(b.poste)'
  BY <1>1, <1>2, <1>3, <1>4, <1>5 DEF Calme, Signale, CouleurVraie, varsScene
<1>9. QED BY <1>1, <1>7, <1>8 DEF EtatDe

LEMMA OrdreChangePreserve ==
    ASSUME InvAjout, NEW t \in Fils, OrdreChange(t), Ailleurs
    PROVE  InvAjout'
<1>1. PICK a \in AppelType, b \in AppelType :
             /\ Last(fils[t]) = a /\ a.etape = "ordre" /\ EtatDe(a)
             /\ b.etape = "demandeChange" /\ b.poste = a.poste /\ b.produit = a.produit
             /\ TypesPostes' /\ EcrasementSignale' /\ EtatDe(b)' => InvAjout'
  BY PasseSuffit DEF OrdreChange, Ailleurs, varsCommande, Etapes
<1>2. TypesPostes' /\ EcrasementSignale'
  BY DEF InvAjout, Types, TypesPostes, EcrasementSignale, OrdreChange, varsScene
<1>3. Calme /\ Signale(a.poste)
  BY <1>1 DEF EtatDe
<1>4. Calme' /\ Signale(b.poste)' /\ msgSim_changeColor' = <<b.poste, b.produit>>
  BY <1>1, <1>3 DEF Calme, Signale, OrdreChange, varsScene
<1>5. QED BY <1>1, <1>2, <1>4 DEF EtatDe

LEMMA DemandeChangePreserve ==
    ASSUME InvAjout, NEW t \in Fils, DemandeChange(t), Ailleurs
    PROVE  InvAjout'
<1>1. PICK a \in AppelType, b \in AppelType :
             /\ Last(fils[t]) = a /\ a.etape = "demandeChange" /\ EtatDe(a)
             /\ b.etape = "attendChange" /\ b.poste = a.poste /\ b.produit = a.produit
             /\ TypesPostes' /\ EcrasementSignale' /\ EtatDe(b)' => InvAjout'
  BY PasseSuffit DEF DemandeChange, Ailleurs, varsCommande, Etapes, Attentes
<1>2. TypesPostes' /\ EcrasementSignale'
  BY DEF InvAjout, Types, TypesPostes, EcrasementSignale, DemandeChange
<1>3. Calme /\ Signale(a.poste) /\ msgSim_changeColor = <<a.poste, a.produit>>
  BY <1>1 DEF EtatDe
<1>4. demandesChange' = << <<b.poste, b.produit>> >>
  BY <1>1, <1>3, UnSeul DEF Calme, DemandeChange
<1>5. AttendChange(b)'
  BY <1>1, <1>3, <1>4 DEF AttendChange, Calme, Signale, DemandeChange
<1>6. QED BY <1>1, <1>2, <1>5 DEF EtatDe
-----------------------------------------------------------------------------
(* The answers of the scene, taken in whatever thread spins.               *)
LEMMA SceneSuffit ==
    ASSUME InvAjout,
           UNCHANGED <<fils, requete, reste, cmd, menu, requetePush>>,
           TypesPostes', EcrasementSignale',
           Calme => Calme',
           \A a \in AppelType : EtatDe(a) => EtatDe(a)'
    PROVE  InvAjout'
<1>1. fils \in [Fils -> {<<>>} \cup {<<x>> : x \in AppelType}]
  BY DEF InvAjout, Types
<1>2. Types'
  BY DEF InvAjout, Types, Codes, AppelType
<1>3. UnAppel'
  BY DEF InvAjout, UnAppel, Libre
<1>4. Questions'
  <2>1. Libre' => Calme'
    BY DEF InvAjout, Questions, Libre
  <2>2. ASSUME NEW t \in Fils, fils'[t] # <<>> PROVE EtatDe(fils[t][1])'
    <3>1. PICK a \in AppelType : a = fils[t][1] /\ fils[t] # <<>>
      BY <1>1, <2>2
    <3>2. EtatDe(a)
      BY <3>1 DEF InvAjout, Questions
    <3>3. fils'[t][1] = a
      BY <3>1
    <3>4. QED BY <3>2, <3>3
  <2>3. QED BY <2>1, <2>2 DEF Questions
<1>5. QED BY <1>2, <1>3, <1>4 DEF InvAjout

LEMMA GetColorPreserve ==
    ASSUME InvAjout, simGetColorCallback, Ailleurs
    PROVE  InvAjout'
<1> USE DEF simGetColorCallback
<1>1. TypesPostes' /\ EcrasementSignale'
  BY DEF InvAjout, Types, TypesPostes, EcrasementSignale
<1>2. ~Calme
  BY DEF Calme
<1>3. ASSUME NEW a \in AppelType, EtatDe(a) PROVE EtatDe(a)'
  <2>1. a.etape = "attendCouleur" /\ AttendCouleur(a)
    BY <1>2, <1>3 DEF EtatDe, AttendChange
  <2>2. PICK v \in Produits \cup {0} : reponsesCouleur = <<v>> /\ CouleurVraie(a.poste, v)
    BY <2>1 DEF AttendCouleur
  <2>3. valueSim_getColor' = v /\ reponsesCouleur' = <<>>
    BY <2>2
  <2>4. AttendCouleur(a)'
    BY <2>1, <2>2, <2>3 DEF AttendCouleur, CouleurVraie
  <2>5. QED BY <2>1, <2>4 DEF EtatDe
<1>4. QED BY <1>1, <1>2, <1>3, SceneSuffit DEF Ailleurs, varsCommande

LEMMA ChangeColorPreserve ==
    ASSUME InvAjout, simChangeColorCallback, Ailleurs
    PROVE  InvAjout'
<1> USE DEF simChangeColorCallback
<1>1. TypesPostes' /\ EcrasementSignale'
  BY DEF InvAjout, Types, TypesPostes, EcrasementSignale
<1>2. ~Calme
  BY DEF Calme
<1>3. ASSUME NEW a \in AppelType, EtatDe(a) PROVE EtatDe(a)'
  <2>1. a.etape = "attendChange" /\ AttendChange(a)
    BY <1>2, <1>3 DEF EtatDe, AttendCouleur
  <2>2. AttendChange(a)'
    BY <2>1 DEF AttendChange
  <2>3. QED BY <2>1, <2>2 DEF EtatDe
<1>4. QED BY <1>1, <1>2, <1>3, SceneSuffit DEF Ailleurs, varsCommande

LEMMA RepondCouleurPreserve ==
    ASSUME InvAjout, RepondCouleur, Ailleurs
    PROVE  InvAjout'
<1> USE DEF RepondCouleur, varsPont
<1>1. TypesPostes' /\ EcrasementSignale'
  BY DEF InvAjout, Types, TypesPostes, EcrasementSignale
<1>2. ~Calme
  BY DEF Calme
<1>3. ASSUME NEW a \in AppelType, EtatDe(a) PROVE EtatDe(a)'
  <2>1. a.etape = "attendCouleur" /\ AttendCouleur(a)
    BY <1>2, <1>3 DEF EtatDe, AttendChange
  <2>2. /\ demandesCouleur = <<a.poste>> /\ reponsesCouleur = <<>>
        /\ ~repSim_getColor
    BY <2>1 DEF AttendCouleur
  <2>3. demandesCouleur' = <<>> /\ reponsesCouleur' = <<poste[a.poste]>>
    BY <2>2, UnSeul
  <2>4. poste[a.poste] \in Produits \cup {0} /\ CouleurVraie(a.poste, poste[a.poste])'
    BY DEF InvAjout, Types, TypesPostes, AppelType, CouleurVraie
  <2>5. AttendCouleur(a)'
    BY <2>1, <2>2, <2>3, <2>4 DEF AttendCouleur
  <2>6. QED BY <2>1, <2>5 DEF EtatDe
<1>4. QED BY <1>1, <1>2, <1>3, SceneSuffit DEF Ailleurs, varsCommande

(* The only step that overwrites a product: it was reported. *)
LEMMA RepondChangePreserve ==
    ASSUME InvAjout, RepondChange, Ailleurs
    PROVE  InvAjout'
<1> USE DEF RepondChange, varsPont
<1>1. ~Libre
  BY DEF InvAjout, Questions, Calme
<1>2. PICK t \in Fils : fils[t] # <<>>
  BY <1>1 DEF Libre
<1>3. PICK a \in AppelType : a = fils[t][1] /\ EtatDe(fils[t][1])
  BY <1>2, AppelEnCours
<1>4. a.etape = "attendChange" /\ AttendChange(a)
  BY <1>3 DEF EtatDe, AttendCouleur, Calme
<1>5. /\ demandesChange = << <<a.poste, a.produit>> >> /\ reponsesChange = 0
      /\ ~repSim_changeColor /\ Signale(a.poste)
      /\ demandesCouleur = <<>> /\ reponsesCouleur = <<>> /\ ~repSim_getColor
  BY <1>4 DEF AttendChange
<1>6. a.poste \in Postes /\ a.produit \in Produits
  BY DEF AppelType
<1>7. /\ ecrases' = [ecrases EXCEPT ![a.poste] = IF poste[a.poste] # 0 THEN @ + 1 ELSE @]
      /\ poste' = [poste EXCEPT ![a.poste] = a.produit]
      /\ demandesChange' = <<>> /\ reponsesChange' = 1
  <2>1. PICK d : d = Head(demandesChange)
    OBVIOUS
  <2>2. d = <<a.poste, a.produit>> /\ Tail(demandesChange) = <<>>
    BY <1>5, <2>1
  <2>3. d[1] = a.poste /\ d[2] = a.produit
    BY <2>2
  <2>4. ecrases' = [ecrases EXCEPT ![d[1]] = IF poste[d[1]] # 0 THEN @ + 1 ELSE @]
    BY <2>1
  <2>5. poste' = [poste EXCEPT ![d[1]] = d[2]]
    BY <2>1
  <2>6. demandesChange' = <<>> /\ reponsesChange' = 1
    BY <1>5, <2>2
  <2> HIDE DEF RepondChange
  <2>7. QED BY <2>3, <2>4, <2>5, <2>6
<1>8. TypesPostes'
  <2>1. /\ poste \in [Postes -> Produits \cup {0}]
        /\ erreurs \in [Postes -> Nat] /\ ecrases \in [Postes -> Nat]
    BY DEF InvAjout, Types, TypesPostes
  <2>2. poste' \in [Postes -> Produits \cup {0}]
    BY <1>6, <1>7, <2>1
  <2>3. ecrases' \in [Postes -> Nat]
    <3>1. ecrases[a.poste] \in Nat /\ ecrases[a.poste] + 1 \in Nat
      BY <1>6, <2>1
    <3>2. ecrases' = [ecrases EXCEPT ![a.poste] = ecrases'[a.poste]]
          /\ ecrases'[a.poste] \in Nat
      BY <1>6, <1>7, <2>1, <3>1
    <3>3. QED BY <1>6, <2>1, <3>2
  <2>4. QED BY <2>1, <2>2, <2>3 DEF TypesPostes
<1>9. EcrasementSignale'
  BY <1>5, <1>6, <1>7 DEF InvAjout, Types, TypesPostes, EcrasementSignale, Signale
<1>10. ASSUME NEW x \in AppelType, EtatDe(x) PROVE EtatDe(x)'
  <2>1. x.etape = "attendChange"
    BY <1>5, <1>10 DEF EtatDe, Calme, AttendCouleur
  <2>2. AttendChange(x)'
    BY <1>5, <1>7 DEF AttendChange
  <2>3. QED BY <2>1, <2>2 DEF EtatDe
<1>11. ~Calme
  BY DEF Calme
<1>12. QED
  BY <1>8, <1>9, <1>10, <1>11, SceneSuffit DEF Ailleurs, varsCommande

LEMMA EvacuePreserve ==
    ASSUME InvAjout, NEW c \in Codes, Evacue(c)
    PROVE  InvAjout'
<1> USE DEF Evacue, Retire, varsPont
<1>1. c[1] \in Postes
  BY DEF Codes
<1>2. TypesPostes' /\ EcrasementSignale'
  BY <1>1 DEF InvAjout, Types, TypesPostes, EcrasementSignale
<1>3. \A p \in Postes : poste'[p] = poste[p] \/ poste'[p] = 0
  BY DEF InvAjout, Types, TypesPostes
<1>4. Calme => Calme'
  BY DEF Calme
<1>5. ASSUME NEW a \in AppelType, EtatDe(a) PROVE EtatDe(a)'
  <2>1. a.poste \in Postes
    BY DEF AppelType
  <2>2. Signale(a.poste) => Signale(a.poste)'
    BY <1>3, <2>1 DEF Signale
  <2>3. \A v : CouleurVraie(a.poste, v) => CouleurVraie(a.poste, v)'
    BY <1>3, <2>1 DEF CouleurVraie
  <2>4. CouleurVraie(a.poste, valueSim_getColor) => CouleurVraie(a.poste, valueSim_getColor)'
    BY <1>3, <2>1 DEF CouleurVraie
  <2>5. AttendCouleur(a) => AttendCouleur(a)'
    BY <2>3, <2>4 DEF AttendCouleur
  <2>6. AttendChange(a) => AttendChange(a)'
    BY <2>2 DEF AttendChange
  <2>7. QED BY <1>4, <1>5, <2>2, <2>4, <2>5, <2>6 DEF EtatDe
<1>6. QED BY <1>2, <1>4, <1>5, SceneSuffit
-----------------------------------------------------------------------------
(* Who may call addProduct.  The steps that change neither the calls nor   *)
(* the scene:                                                              *)
LEMMA SuiteSuffit ==
    ASSUME InvAjout, UNCHANGED <<varsPont, varsScene>>,
           menu' = "produit" <=> menu = "produit",
           cmd' = "attend" <=> cmd = "attend",
           requetePush' # Rien => menu' = "push",
           reste' \in Seq(Codes), cmd' # "libre" => reste' # <<>>
    PROVE  InvAjout'
<1> USE DEF varsPont, varsScene
<1>1. Types' /\ EcrasementSignale'
  BY DEF InvAjout, Types, TypesPostes, EcrasementSignale, Codes, AppelType
<1>2. UnAppel'
  BY DEF InvAjout, UnAppel, Libre
<1>3. Questions'
  <2>1. Libre' => Calme'
    BY DEF InvAjout, Questions, Libre, Calme
  <2>2. \A a : EtatDe(a) => EtatDe(a)'
    BY DEF EtatDe, Calme, AttendCouleur, AttendChange, Signale, CouleurVraie
  <2>3. QED BY <2>1, <2>2 DEF InvAjout, Questions
<1>4. QED BY <1>1, <1>2, <1>3 DEF InvAjout

LEMMA ResteTypes ==
    ASSUME InvAjout
    PROVE  /\ reste \in Seq(Codes) /\ (cmd # "libre" => reste # <<>>)
           /\ requetePush # Rien => menu = "push"
BY DEF InvAjout, Types, UnAppel

LEMMA SuitesPreserve ==
    ASSUME InvAjout,
           MenuTour \/ AjouterProduitSuite \/ ProductAddPushBack \/ MarqueProduits
             \/ Log \/ LogTemps
    PROVE  InvAjout'
<1>1. CASE MenuTour
  BY <1>1, ResteTypes, SuiteSuffit DEF MenuTour
<1>2. CASE AjouterProduitSuite
  <2>1. Tail(reste) \in Seq(Codes)
    BY <1>2, ResteTypes, HeadTailProperties DEF AjouterProduitSuite
  <2>2. QED BY <1>2, <2>1, ResteTypes, SuiteSuffit DEF AjouterProduitSuite
<1>3. CASE ProductAddPushBack
  <2>1. menu = "push"
    BY <1>3, ResteTypes DEF ProductAddPushBack
  <2>2. QED BY <1>3, <2>1, ResteTypes, SuiteSuffit DEF ProductAddPushBack, Rien
<1>4. CASE MarqueProduits
  BY <1>4, ResteTypes, SuiteSuffit DEF MarqueProduits
<1>5. CASE Log \/ LogTemps
  BY <1>5, ResteTypes, SuiteSuffit DEF Log, LogTemps, varsCommande
<1>6. QED BY <1>1, <1>2, <1>3, <1>4, <1>5

(* A call starts when there is none. *)
LEMMA EntreSuffit ==
    ASSUME InvAjout, Libre, NEW t \in Fils, NEW a \in AppelType,
           a.etape = "question", Entre(t, a),
           UNCHANGED <<varsScene, repSim_getColor, repSim_changeColor, erreurs, arrets,
                       reste, requetePush>>,
           requete' = Rien, cmd' # "libre" => reste # <<>>,
           ~(cmd' = "attend" /\ menu' = "produit"),
           requetePush' # Rien => menu' = "push",
           IF a.origine = "menu" THEN menu' = "produit" ELSE cmd' = "attend"
    PROVE  InvAjout'
<1> USE DEF varsScene
<1>1. fils \in [Fils -> {<<>>} \cup {<<x>> : x \in AppelType}]
  BY DEF InvAjout, Types
<1>2. fils' = [fils EXCEPT ![t] = <<a>>]
  BY UnSeul DEF Entre, Libre
<1>3. /\ fils' \in [Fils -> {<<>>} \cup {<<x>> : x \in AppelType}]
      /\ fils'[t] = <<a>> /\ fils'[t][1] = a /\ fils'[t] # <<>>
      /\ \A u \in Fils \ {t} : fils'[u] = <<>>
  BY <1>1, <1>2 DEF Libre
<1>4. Types' /\ EcrasementSignale'
  BY <1>3 DEF InvAjout, Types, TypesPostes, EcrasementSignale, Codes, AppelType
<1>5. UnAppel'
  <2>1. fils'["menu"] = <<>> \/ fils'["spinner"] = <<>>
    BY <1>3 DEF Fils
  <2>2. QED BY <1>3, <2>1 DEF UnAppel
<1>6. Calme'
  BY DEF InvAjout, Questions, Calme
<1>7. Questions'
  <2>1. EtatDe(a)'
    BY <1>6 DEF EtatDe
  <2>2. ~Libre'
    BY <1>3 DEF Libre
  <2>3. \A u \in Fils : fils'[u] # <<>> => EtatDe(fils[u][1])'
    BY <1>3, <2>1
  <2>4. QED BY <2>2, <2>3 DEF Questions
<1>8. QED BY <1>4, <1>5, <1>7 DEF InvAjout

LEMMA AddProductPreserve ==
    ASSUME InvAjout, NEW t \in Fils, AddProduct(t), Ailleurs
    PROVE  InvAjout'
<1> DEFINE a == Appel(requete[1], requete[2], "service")
<1>1. requete \in Codes /\ Libre /\ cmd = "attend" /\ menu # "produit"
      /\ (requetePush # Rien => menu = "push") /\ (cmd # "libre" => reste # <<>>)
  BY DEF AddProduct, InvAjout, Types, UnAppel
<1>2. PICK x \in AppelType : x = a
  BY <1>1 DEF Appel, AppelType, Codes, Etapes
<1>3. x.etape = "question" /\ x.origine = "service"
  BY <1>2 DEF Appel
<1>4. Entre(t, x)
  BY <1>2 DEF AddProduct
<1>5. QED
  BY <1>1, <1>3, <1>4, EntreSuffit DEF AddProduct, Ailleurs, varsCommande

LEMMA MenuAjoutePreserve ==
    ASSUME InvAjout, Un, NEW c \in Codes, MenuAjoute(c[1], c[2])
    PROVE  InvAjout'
<1>1. Libre /\ requete = Rien /\ (requetePush # Rien => menu = "push")
      /\ (cmd # "libre" => reste # <<>>)
  BY DEF MenuAjoute, InvAjout, Types, UnAppel, Libre
<1>2. PICK x \in AppelType : x = Appel(c[1], c[2], "menu")
  BY DEF Appel, AppelType, Codes, Etapes
<1>3. x.etape = "question" /\ x.origine = "menu"
  BY <1>2 DEF Appel
<1>4. Entre("menu", x)
  BY <1>2 DEF MenuAjoute
<1>5. requetePush' = Rien /\ menu' = "produit" /\ cmd' # "attend" /\ requete' = Rien
  BY <1>1 DEF MenuAjoute
<1>6. QED
  BY <1>1, <1>3, <1>4, <1>5, EntreSuffit DEF MenuAjoute, Fils

LEMMA AjouterProduitPreserve ==
    ASSUME InvAjout, Un, AjouterProduit
    PROVE  InvAjout'
<1> USE DEF AjouterProduit, varsScene
<1>1. Libre
  BY DEF InvAjout, UnAppel, Libre
<1>2. requete' \in Codes
  BY DEF InvAjout, Types
<1>3. Types' /\ EcrasementSignale'
  BY <1>2 DEF InvAjout, Types, TypesPostes, EcrasementSignale, Codes, AppelType
<1>4. UnAppel'
  BY <1>1 DEF InvAjout, UnAppel, Libre
<1>5. Questions'
  BY <1>1 DEF InvAjout, Questions, Libre, Calme
<1>6. QED BY <1>3, <1>4, <1>5 DEF InvAjout

LEMMA FinAjoutPreserve ==
    ASSUME InvAjout, NEW t \in Fils, FinAjout(t)
    PROVE  InvAjout'
<1> USE DEF FinAjout, ChangeArrive, Dans, varsScene
<1>1. PICK a \in AppelType : /\ a = fils[t][1] /\ Last(fils[t]) = a
                             /\ Front(fils[t]) = <<>> /\ requete = Rien
                             /\ \A u \in Fils \ {t} : fils[u] = <<>>
  BY AppelEnCours
<1>2. EtatDe(a) /\ a.etape = "attendChange"
  <2>1. EtatDe(fils[t][1])
    BY AppelEnCours
  <2>2. QED BY <1>1, <2>1
<1>3. Calme'
  BY <1>2 DEF EtatDe, AttendChange, Calme
<1>4. fils \in [Fils -> {<<>>} \cup {<<x>> : x \in AppelType}]
  BY DEF InvAjout, Types
<1>5. Libre' /\ fils' \in [Fils -> {<<>>} \cup {<<x>> : x \in AppelType}]
  BY <1>1, <1>4 DEF Libre
<1>6. IF a.origine = "menu" THEN menu = "produit" ELSE cmd = "attend"
  BY <1>1 DEF InvAjout, UnAppel
<1>7. Types' /\ EcrasementSignale'
  <2>1. reste' = reste /\ (cmd' # "libre" => reste # <<>>)
    BY <1>1, <1>6, ResteTypes
  <2>2. QED
    BY <1>5, <2>1 DEF InvAjout, Types, TypesPostes, EcrasementSignale, Codes, AppelType
<1>8. UnAppel'
  BY <1>1, <1>5, <1>6 DEF InvAjout, UnAppel, Libre, Fils
<1>9. Questions'
  BY <1>3, <1>5 DEF Questions, Libre
<1>10. QED BY <1>7, <1>8, <1>9 DEF InvAjout

LEMMA InvAjoutSuit ==
    ASSUME Un, InvAjout, [Next]_vars
    PROVE  InvAjout'
<1>1. ASSUME NEW c \in Codes, MenuAjoute(c[1], c[2]) PROVE InvAjout'
  BY <1>1, MenuAjoutePreserve
<1>2. ASSUME NEW c \in Codes, Evacue(c) PROVE InvAjout'
  BY <1>2, EvacuePreserve
<1>3. ASSUME NEW t \in Fils, Etape(t) PROVE InvAjout'
  BY <1>3, QuestionPreserve, DemandeCouleurPreserve, CouleurArriveePreserve,
     LirePreserve, OrdreChangePreserve, DemandeChangePreserve
     DEF Etape, AddProductEtape, Ailleurs
<1>4. ASSUME NEW t \in Fils, Callback(t) PROVE InvAjout'
  BY <1>4, GetColorPreserve, ChangeColorPreserve, AddProductPreserve
     DEF Callback, Ailleurs
<1>5. ASSUME NEW t \in Fils, FinAjout(t) PROVE InvAjout'
  BY <1>5, FinAjoutPreserve
<1>6. CASE SceneRepond
  BY <1>6, RepondCouleurPreserve, RepondChangePreserve DEF SceneRepond, Ailleurs
<1>7. CASE MenuTour \/ Log \/ LogTemps
  BY <1>7, SuitesPreserve
<1>8. CASE Commande
  BY <1>8, AjouterProduitPreserve, SuitesPreserve DEF Commande
<1>9. CASE UNCHANGED vars
  BY <1>9, ResteTypes, SuiteSuffit DEF vars, varsCommande
<1>10. QED
  BY <1>1, <1>2, <1>3, <1>4, <1>5, <1>6, <1>7, <1>8, <1>9 DEF Next

(* EcrasementSignale of addProduct, for all posts, products and additions. *)
THEOREM EcrasementToujoursSignale ==
    ASSUME Un
    PROVE  Spec => []EcrasementSignale
<1>1. Init => InvAjout
  BY InvAjoutInitial
<1>2. InvAjout /\ [Next]_vars => InvAjout'
  BY InvAjoutSuit
<1>3. InvAjout => EcrasementSignale
  BY DEF InvAjout
<1>4. QED
  BY <1>1, <1>2, <1>3, PTL DEF Spec
-----------------------------------------------------------------------------
(* The marks of a post are the products put there.  A product that the     *)
(* scene has put is somewhere until it is a mark: in the call that ordered *)
(* it, in the request of the menu, in the net that has still to tell the   *)
(* log, or in the codes that wait for the net.                             *)
Compte(b) == IF b THEN 1 ELSE 0
Mis(p) == Compte(poste[p] # 0) + ecrases[p]

CodeDe(a) == <<a.poste, a.produit>>
Placee(a) == a.etape = "attendChange" /\ demandesChange = <<>>
PlaceeLa(c) == \E t \in Fils : fils[t] # <<>> /\ Placee(fils[t][1]) /\ CodeDe(fils[t][1]) = c

Attendue(c) ==
    Nombre(produit_a_ajouter, c) + Compte(requetePush = c)
    + Compte(cmd = "journal" /\ Head(reste) = c) + Compte(PlaceeLa(c))
MarqueSuivie(c) == M[c] + Attendue(c)
MarquesDe(p) == [q \in 1..6 |-> IF q \in Produits THEN MarqueSuivie(<<p, q>>) ELSE 0]

TypesMarques == produit_a_ajouter \in Seq(Codes) /\ M \in [Codes -> Nat]

(* What the service treats is the product that the net is adding. *)
Provenance ==
    /\ requete # Rien => requete = Head(reste)
    /\ \A t \in Fils : fils[t] # <<>> /\ fils[t][1].origine = "service"
                       => CodeDe(fils[t][1]) = Head(reste)

MarquesExactes == \A p \in Postes : Somme(MarquesDe(p)) = Mis(p)

InvMarques == TypesMarques /\ Provenance /\ MarquesExactes

(* A sum of six terms of which one changes. *)
LEMMA SommeChange ==
    ASSUME NEW f \in [1..6 -> Int], NEW g \in [1..6 -> Int], NEW r \in 1..6, NEW k \in Int,
           g[r] = f[r] + k, \A q \in 1..6 \ {r} : g[q] = f[q]
    PROVE  Somme(g) = Somme(f) + k
<1>1. /\ f[1] \in Int /\ f[2] \in Int /\ f[3] \in Int
      /\ f[4] \in Int /\ f[5] \in Int /\ f[6] \in Int
  OBVIOUS
<1>2. r = 1 \/ r = 2 \/ r = 3 \/ r = 4 \/ r = 5 \/ r = 6
  OBVIOUS
<1>3. QED
  BY <1>1, <1>2 DEF Somme

LEMMA SommeCroit ==
    ASSUME NEW f \in [1..6 -> Nat], NEW g \in [1..6 -> Nat], \A q \in 1..6 : f[q] <= g[q]
    PROVE  Somme(f) <= Somme(g) /\ Somme(f) \in Nat
<1>1. /\ f[1] \in Nat /\ f[2] \in Nat /\ f[3] \in Nat
      /\ f[4] \in Nat /\ f[5] \in Nat /\ f[6] \in Nat
  OBVIOUS
<1>2. /\ g[1] \in Nat /\ g[2] \in Nat /\ g[3] \in Nat
      /\ g[4] \in Nat /\ g[5] \in Nat /\ g[6] \in Nat
  OBVIOUS
<1>3. /\ f[1] <= g[1] /\ f[2] <= g[2] /\ f[3] <= g[3]
      /\ f[4] <= g[4] /\ f[5] <= g[5] /\ f[6] <= g[6]
  OBVIOUS
<1>4. QED
  BY <1>1, <1>2, <1>3 DEF Somme

LEMMA CompteNat ==
    ASSUME NEW b \in BOOLEAN
    PROVE  Compte(b) \in Nat /\ Compte(b) <= 1
BY DEF Compte

LEMMA MarqueSuivieNat ==
    ASSUME TypesMarques, NEW c \in Codes
    PROVE  M[c] \in Nat /\ Attendue(c) \in Nat /\ MarqueSuivie(c) \in Nat
<1>1. M[c] \in Nat /\ Nombre(produit_a_ajouter, c) \in Nat
  BY NombreNat DEF TypesMarques
<1>2. /\ Compte(requetePush = c) \in Nat /\ Compte(PlaceeLa(c)) \in Nat
      /\ Compte(cmd = "journal" /\ Head(reste) = c) \in Nat
  BY DEF Compte
<1>3. QED
  BY <1>1, <1>2 DEF Attendue, MarqueSuivie

LEMMA MarquesDeType ==
    ASSUME TypesMarques, NEW p \in Postes
    PROVE  MarquesDe(p) \in [1..6 -> Nat]
<1>1. \A q \in Produits : MarqueSuivie(<<p, q>>) \in Nat
  BY MarqueSuivieNat DEF Codes
<1>2. QED
  BY <1>1 DEF MarquesDe

(* A step that leaves the marks, waiting or not, and the posts.            *)
LEMMA MarquesIntactes ==
    ASSUME TypesMarques, MarquesExactes, UNCHANGED <<poste, ecrases>>,
           \A c \in Codes : MarqueSuivie(c)' = MarqueSuivie(c)
    PROVE  MarquesExactes'
<1>1. ASSUME NEW p \in Postes PROVE MarquesDe(p)' = MarquesDe(p)
  <2>1. \A q \in Produits : MarqueSuivie(<<p, q>>)' = MarqueSuivie(<<p, q>>)
    BY DEF Codes
  <2>2. QED
    BY <2>1 DEF MarquesDe
<1>2. \A p \in Postes : Mis(p)' = Mis(p)
  BY DEF Mis
<1>3. QED
  BY <1>1, <1>2 DEF MarquesExactes, Somme

(* A step that puts or takes one product of a post, and marks it or takes  *)
(* its mark away.                                                          *)
LEMMA UneMarqueChange ==
    ASSUME TypesMarques, MarquesExactes,
           NEW d \in Codes, NEW k \in Int,
           MarqueSuivie(d)' = MarqueSuivie(d) + k,
           \A c \in Codes \ {d} : MarqueSuivie(c)' = MarqueSuivie(c),
           Mis(d[1])' = Mis(d[1]) + k,
           \A p \in Postes \ {d[1]} : Mis(p)' = Mis(p)
    PROVE  MarquesExactes'
<1>1. PICK r \in Postes, s \in Produits : d = <<r, s>> /\ d[1] = r
  BY DEF Codes
<1>2. s \in 1..6
  BY AjoutAssumption
<1>3. ASSUME NEW p \in Postes \ {r} PROVE Somme(MarquesDe(p))' = Mis(p)'
  <2>1. \A q \in Produits : MarqueSuivie(<<p, q>>)' = MarqueSuivie(<<p, q>>)
    BY <1>1 DEF Codes
  <2>2. MarquesDe(p)' = MarquesDe(p)
    BY <2>1 DEF MarquesDe
  <2>3. Mis(p)' = Mis(p)
    BY <1>1
  <2>4. QED
    BY <2>2, <2>3 DEF MarquesExactes, Somme
<1>4. Somme(MarquesDe(r))' = Mis(r)'
  <2>1. MarquesDe(r)' \in [1..6 -> Int]
    <3>1. \A c \in Codes : MarqueSuivie(c)' \in Int
      BY MarqueSuivieNat
    <3>2. \A q \in Produits : MarqueSuivie(<<r, q>>)' \in Int
      BY <3>1 DEF Codes
    <3>3. QED
      BY <3>2 DEF MarquesDe
  <2>2. MarquesDe(r) \in [1..6 -> Int]
    BY MarquesDeType
  <2>3. \A q \in Produits \ {s} : MarqueSuivie(<<r, q>>)' = MarqueSuivie(<<r, q>>)
    BY <1>1 DEF Codes
  <2>4. \A q \in 1..6 \ {s} : MarquesDe(r)'[q] = MarquesDe(r)[q]
    BY <2>3 DEF MarquesDe
  <2>5. MarquesDe(r)'[s] = MarquesDe(r)[s] + k
    BY <1>1, <1>2 DEF MarquesDe
  <2>6. Somme(MarquesDe(r)') = Somme(MarquesDe(r)) + k
    BY <1>2, <2>1, <2>2, <2>4, <2>5, SommeChange
  <2>7. Somme(MarquesDe(r))' = Somme(MarquesDe(r)')
    BY DEF Somme
  <2>8. Mis(r)' = Mis(r) + k
    BY <1>1
  <2>9. QED
    BY <2>6, <2>7, <2>8 DEF MarquesExactes
<1>5. QED
  BY <1>1, <1>3, <1>4 DEF MarquesExactes
-----------------------------------------------------------------------------
(* The steps that leave every product where it waits.                      *)
LEMMA AttendueIntacte ==
    ASSUME UNCHANGED <<M, produit_a_ajouter, requetePush, cmd, reste>>,
           NEW c \in Codes, PlaceeLa(c)' <=> PlaceeLa(c)
    PROVE  MarqueSuivie(c)' = MarqueSuivie(c)
<1>1. Compte(PlaceeLa(c))' = Compte(PlaceeLa(c))
  BY DEF Compte
<1>2. Nombre(produit_a_ajouter, c)' = Nombre(produit_a_ajouter, c)
  BY DEF Nombre
<1>3. /\ Compte(requetePush = c)' = Compte(requetePush = c)
      /\ Compte(cmd = "journal" /\ Head(reste) = c)'
           = Compte(cmd = "journal" /\ Head(reste) = c)
  BY DEF Compte
<1>4. QED
  BY <1>1, <1>2, <1>3 DEF Attendue, MarqueSuivie

LEMMA LibreSansPlacee ==
    ASSUME Libre, NEW c
    PROVE  ~PlaceeLa(c)
BY DEF Libre, PlaceeLa

LEMMA AppelsIntacts ==
    ASSUME UNCHANGED <<fils, demandesChange>>, NEW c
    PROVE  PlaceeLa(c)' <=> PlaceeLa(c)
BY DEF PlaceeLa, Placee, CodeDe

LEMMA ProvenanceIntacte ==
    ASSUME Provenance, UNCHANGED <<fils, requete, reste>>
    PROVE  Provenance'
BY DEF Provenance, CodeDe

LEMMA TypesMarquesIntacts ==
    ASSUME TypesMarques, UNCHANGED <<M, produit_a_ajouter>>
    PROVE  TypesMarques'
BY DEF TypesMarques, Codes

LEMMA RienNeChange ==
    ASSUME InvMarques,
           UNCHANGED <<fils, demandesChange, requete, poste, ecrases,
                       M, produit_a_ajouter, requetePush, cmd, reste>>
    PROVE  InvMarques'
<1>1. \A c \in Codes : MarqueSuivie(c)' = MarqueSuivie(c)
  BY AttendueIntacte, AppelsIntacts
<1>2. MarquesExactes'
  BY <1>1, MarquesIntactes DEF InvMarques
<1>3. QED
  BY <1>2, ProvenanceIntacte, TypesMarquesIntacts DEF InvMarques

(* The call of thread t passes to a step that has not put the product. *)
LEMMA PasseMarques ==
    ASSUME InvAjout, InvMarques, NEW t \in Fils, NEW e, NEW f,
           Dans(t, e), Passe(t, f), e # "attendChange",
           f = "attendChange" => demandesChange' # <<>>,
           UNCHANGED <<requete, poste, ecrases, M, produit_a_ajouter, requetePush, cmd, reste>>
    PROVE  InvMarques'
<1>1. fils[t] # <<>> /\ Last(fils[t]).etape = e
  BY DEF Dans
<1>2. PICK a \in AppelType : a = fils[t][1]
  BY <1>1, AppelEnCours
<1>3. /\ Last(fils[t]) = a /\ Front(fils[t]) = <<>> /\ a.etape = e
      /\ \A u \in Fils \ {t} : fils[u] = <<>>
  BY <1>1, <1>2, AppelEnCours
<1>4. PICK b : b = [a EXCEPT !.etape = f]
  OBVIOUS
<1>5. b.etape = f /\ b.poste = a.poste /\ b.produit = a.produit /\ b.origine = a.origine
  BY <1>4 DEF AppelType
<1>6. fils \in [Fils -> {<<>>} \cup {<<x>> : x \in AppelType}]
  BY DEF InvAjout, Types
<1>7. fils' = [fils EXCEPT ![t] = <<b>>]
  BY <1>3, <1>4, UnSeul DEF Passe
<1>8. /\ fils'[t] = <<b>> /\ fils'[t][1] = b
      /\ \A u \in Fils \ {t} : fils'[u] = <<>>
  BY <1>3, <1>6, <1>7
<1>9. ASSUME NEW c PROVE ~PlaceeLa(c) /\ ~PlaceeLa(c)'
  <2>1. \A u \in Fils : fils[u] # <<>> => fils[u][1] = a
    BY <1>2, <1>3
  <2>2. \A u \in Fils : fils'[u] # <<>> => fils'[u][1] = b
    BY <1>8
  <2>3. ~Placee(a) /\ ~Placee(b)'
    BY <1>3, <1>5 DEF Placee
  <2>4. \A u \in Fils : fils[u] # <<>> => ~Placee(fils[u][1])
    BY <2>1, <2>3
  <2>5. \A u \in Fils : fils'[u] # <<>> => ~Placee(fils[u][1])'
    BY <2>2, <2>3 DEF Placee
  <2>6. QED
    BY <2>4, <2>5 DEF PlaceeLa
<1>10. \A c \in Codes : MarqueSuivie(c)' = MarqueSuivie(c)
  BY <1>9, AttendueIntacte
<1>11. MarquesExactes'
  BY <1>10, MarquesIntactes DEF InvMarques
<1>12. Provenance'
  <2>1. a.origine = "service" => CodeDe(a) = Head(reste)
    BY <1>1, <1>2 DEF InvMarques, Provenance
  <2>2. b.origine = "service" => CodeDe(b) = Head(reste)
    BY <1>5, <2>1 DEF CodeDe
  <2>3. ASSUME NEW u \in Fils, fils'[u] # <<>>, fils'[u][1].origine = "service"
        PROVE  CodeDe(fils'[u][1]) = Head(reste)
    <3>1. fils'[u][1] = b
      BY <1>8, <2>3
    <3>2. QED
      BY <2>2, <2>3, <3>1
  <2>4. requete' # Rien => requete' = Head(reste)
    BY DEF InvMarques, Provenance
  <2>5. QED
    BY <2>3, <2>4 DEF Provenance, CodeDe
<1>13. QED
  BY <1>11, <1>12, TypesMarquesIntacts DEF InvMarques

LEMMA EtapeMarques ==
    ASSUME InvAjout, InvMarques, NEW t \in Fils, Etape(t)
    PROVE  InvMarques'
<1> USE DEF Etape, varsCommande, varsScene
<1>1. CASE Question(t)
  BY <1>1, PasseMarques DEF Question
<1>2. CASE DemandeCouleur(t)
  BY <1>2, PasseMarques DEF DemandeCouleur
<1>3. CASE CouleurArrivee(t)
  BY <1>3, PasseMarques DEF CouleurArrivee
<1>4. CASE Lire(t)
  BY <1>4, PasseMarques DEF Lire
<1>5. CASE OrdreChange(t)
  BY <1>5, PasseMarques DEF OrdreChange
<1>6. CASE DemandeChange(t)
  <2>1. demandesChange = <<>>
    <3>1. fils[t] # <<>> /\ Last(fils[t]).etape = "demandeChange"
      BY <1>6 DEF DemandeChange, Dans
    <3>2. EtatDe(fils[t][1]) /\ fils[t][1].etape = "demandeChange"
      BY <3>1, AppelEnCours
    <3>3. Calme
      BY <3>2 DEF EtatDe
    <3>4. QED
      BY <3>3 DEF Calme
  <2>2. demandesChange' # <<>>
    BY <1>6, <2>1, UnSeul DEF DemandeChange
  <2>3. QED
    BY <1>6, <2>2, PasseMarques DEF DemandeChange
<1>7. QED
  BY <1>1, <1>2, <1>3, <1>4, <1>5, <1>6 DEF AddProductEtape

(* A call starts, with no product put.                                     *)
LEMMA EntreMarques ==
    ASSUME InvAjout, InvMarques, Libre, NEW t \in Fils, NEW a,
           a.etape = "question", Entre(t, a),
           requete' = Rien, a.origine = "service" => CodeDe(a) = Head(reste),
           UNCHANGED <<poste, ecrases, M, produit_a_ajouter, requetePush, cmd, reste>>
    PROVE  InvMarques'
<1>1. fils \in [Fils -> {<<>>} \cup {<<x>> : x \in AppelType}]
  BY DEF InvAjout, Types
<1>2. fils' = [fils EXCEPT ![t] = <<a>>]
  BY UnSeul DEF Entre, Libre
<1>3. \A u \in Fils : fils'[u] # <<>> => fils'[u][1] = a
  BY <1>1, <1>2 DEF Libre
<1>4. \A c : ~PlaceeLa(c) /\ ~PlaceeLa(c)'
  <2>1. ~Placee(a)'
    BY DEF Placee
  <2>2. \A u \in Fils : fils'[u] # <<>> => ~Placee(fils[u][1])'
    BY <1>3, <2>1 DEF Placee
  <2>3. QED
    BY <2>2, LibreSansPlacee DEF PlaceeLa
<1>5. \A c \in Codes : MarqueSuivie(c)' = MarqueSuivie(c)
  BY <1>4, AttendueIntacte
<1>6. MarquesExactes'
  BY <1>5, MarquesIntactes DEF InvMarques
<1>7. Provenance'
  BY <1>3 DEF Provenance, CodeDe
<1>8. QED
  BY <1>6, <1>7, TypesMarquesIntacts DEF InvMarques

LEMMA CallbackMarques ==
    ASSUME InvAjout, InvMarques, NEW t \in Fils, Callback(t)
    PROVE  InvMarques'
<1> USE DEF varsCommande, varsScene
<1>1. UNCHANGED varsCommande
  BY DEF Callback
<1>2. CASE simGetColorCallback
  BY <1>1, <1>2, RienNeChange DEF simGetColorCallback
<1>3. CASE simChangeColorCallback
  BY <1>1, <1>3, RienNeChange DEF simChangeColorCallback
<1>4. CASE AddProduct(t)
  <2>1. PICK a : a = Appel(requete[1], requete[2], "service")
    OBVIOUS
  <2>2. requete \in Codes /\ Libre /\ requete = Head(reste)
    BY <1>4 DEF AddProduct, InvAjout, Types, UnAppel, InvMarques, Provenance
  <2>3. a.etape = "question" /\ CodeDe(a) = requete
    BY <2>1, <2>2 DEF Appel, CodeDe, Codes
  <2>4. Entre(t, a) /\ requete' = Rien /\ UNCHANGED <<poste, ecrases>>
    BY <1>4, <2>1 DEF AddProduct
  <2>5. QED
    BY <1>1, <2>2, <2>3, <2>4, EntreMarques
<1>5. QED
  BY <1>2, <1>3, <1>4 DEF Callback

LEMMA MenuAjouteMarques ==
    ASSUME InvAjout, InvMarques, Un, NEW c \in Codes, MenuAjoute(c[1], c[2])
    PROVE  InvMarques'
<1>1. Libre /\ requete = Rien
  BY DEF MenuAjoute, InvAjout, UnAppel, Libre
<1>2. PICK a : a = Appel(c[1], c[2], "menu")
  OBVIOUS
<1>3. a.etape = "question" /\ a.origine = "menu"
  BY <1>2 DEF Appel
<1>4. Entre("menu", a) /\ requete' = Rien
  BY <1>1, <1>2 DEF MenuAjoute
<1>5. QED
  BY <1>1, <1>3, <1>4, EntreMarques DEF MenuAjoute, varsScene, Fils
-----------------------------------------------------------------------------
(* The call that waits for its answer: the only one, of the product d.     *)
LEMMA UnePlacee ==
    ASSUME InvAjout, NEW t \in Fils, fils[t] # <<>>, fils[t][1].etape = "attendChange",
           demandesChange = <<>>, NEW c
    PROVE  PlaceeLa(c) <=> CodeDe(fils[t][1]) = c
<1>1. \A u \in Fils : fils[u] # <<>> => u = t
  BY AppelEnCours
<1>2. QED
  BY <1>1 DEF PlaceeLa, Placee

LEMMA CodeDAppel ==
    ASSUME NEW a \in AppelType
    PROVE  CodeDe(a) \in Codes /\ CodeDe(a)[1] = a.poste /\ CodeDe(a)[2] = a.produit
<1>1. a.poste \in Postes /\ a.produit \in Produits
  BY DEF AppelType
<1>2. QED
  BY <1>1 DEF CodeDe, Codes

LEMMA CodePasRien ==
    ASSUME NEW c \in Codes
    PROVE  c # Rien
BY DEF Codes, Rien

(* The scene puts the product of the call. *)
LEMMA RepondChangeMarques ==
    ASSUME InvAjout, InvMarques, RepondChange, UNCHANGED varsCommande
    PROVE  InvMarques'
<1> USE DEF varsPont, varsCommande
<1>1. ~Libre
  BY DEF InvAjout, Questions, Calme, RepondChange
<1>2. PICK t \in Fils : fils[t] # <<>>
  BY <1>1 DEF Libre
<1>3. PICK a \in AppelType : a = fils[t][1] /\ EtatDe(fils[t][1])
  BY <1>2, AppelEnCours
<1>4. a.etape = "attendChange" /\ AttendChange(a)
  BY <1>3 DEF EtatDe, AttendCouleur, Calme, RepondChange
<1>5. demandesChange = << <<a.poste, a.produit>> >>
  BY <1>4 DEF AttendChange, RepondChange
<1>6. PICK d \in Codes : d = CodeDe(a) /\ d[1] = a.poste /\ d[2] = a.produit
  BY CodeDAppel
<1>7. demandesChange = <<d>> /\ Head(<<d>>) = d /\ Tail(<<d>>) = <<>>
  BY <1>5, <1>6 DEF CodeDe
<1>8. /\ ecrases' = [ecrases EXCEPT ![d[1]] = IF poste[d[1]] # 0 THEN @ + 1 ELSE @]
      /\ poste' = [poste EXCEPT ![d[1]] = d[2]]
      /\ demandesChange' = <<>> /\ fils' = fils /\ requete' = requete
  BY <1>7 DEF RepondChange
<1>9. \A c : ~PlaceeLa(c)
  BY <1>7 DEF PlaceeLa, Placee
<1>10. \A c : PlaceeLa(c)' <=> c = d
  <2>1. \A u \in Fils : fils'[u] # <<>> <=> u = t
    BY <1>2, <1>8, AppelEnCours
  <2>2. Placee(fils[t][1])' /\ CodeDe(fils[t][1])' = d
    BY <1>3, <1>4, <1>6, <1>8 DEF Placee, CodeDe
  <2>3. QED
    BY <2>1, <2>2 DEF PlaceeLa
<1>11. \A c \in Codes \ {d} : MarqueSuivie(c)' = MarqueSuivie(c)
  BY <1>9, <1>10, AttendueIntacte
<1>12. MarqueSuivie(d)' = MarqueSuivie(d) + 1
  <2>1. Compte(PlaceeLa(d))' = 1 /\ Compte(PlaceeLa(d)) = 0
    BY <1>9, <1>10 DEF Compte
  <2>2. M[d] \in Nat /\ Nombre(produit_a_ajouter, d) \in Nat
    BY NombreNat DEF InvMarques, TypesMarques
  <2>3. /\ Nombre(produit_a_ajouter, d)' = Nombre(produit_a_ajouter, d)
        /\ Compte(requetePush = d)' = Compte(requetePush = d)
        /\ Compte(cmd = "journal" /\ Head(reste) = d)'
             = Compte(cmd = "journal" /\ Head(reste) = d)
    BY DEF Nombre, Compte
  <2>4. /\ Compte(requetePush = d) \in Nat
        /\ Compte(cmd = "journal" /\ Head(reste) = d) \in Nat
    BY DEF Compte
  <2>5. M' = M
    OBVIOUS
  <2>6. QED
    BY <2>1, <2>2, <2>3, <2>4, <2>5 DEF MarqueSuivie, Attendue
<1>13. Mis(d[1])' = Mis(d[1]) + 1 /\ \A p \in Postes \ {d[1]} : Mis(p)' = Mis(p)
  <2>1. /\ poste \in [Postes -> Produits \cup {0}] /\ ecrases \in [Postes -> Nat]
        /\ d[1] \in Postes /\ d[2] \in Produits /\ 0 \notin Produits
    BY AjoutAssumption DEF InvAjout, Types, TypesPostes, Codes
  <2>2. poste'[d[1]] # 0
        /\ ecrases'[d[1]] = IF poste[d[1]] # 0 THEN ecrases[d[1]] + 1 ELSE ecrases[d[1]]
    BY <1>8, <2>1
  <2>3. \A p \in Postes \ {d[1]} : poste'[p] = poste[p] /\ ecrases'[p] = ecrases[p]
    BY <1>8, <2>1
  <2>4. ecrases[d[1]] \in Nat
    BY <2>1
  <2>5. QED
    BY <2>2, <2>3, <2>4 DEF Mis, Compte
<1>14. MarquesExactes'
  BY <1>11, <1>12, <1>13, UneMarqueChange DEF InvMarques
<1>15. QED
  BY <1>8, <1>14, ProvenanceIntacte, TypesMarquesIntacts DEF InvMarques

LEMMA RepondCouleurMarques ==
    ASSUME InvMarques, RepondCouleur, UNCHANGED varsCommande
    PROVE  InvMarques'
BY RienNeChange DEF RepondCouleur, varsPont, varsCommande

(* The call ends: its product is the request of the menu, or what the net  *)
(* has to tell the log.                                                    *)
LEMMA FinAjoutMarques ==
    ASSUME InvAjout, InvMarques, NEW t \in Fils, FinAjout(t)
    PROVE  InvMarques'
<1>1. fils[t] # <<>> /\ Last(fils[t]).etape = "attendChange" /\ repSim_changeColor
  BY DEF FinAjout, ChangeArrive, Dans
<1>2. PICK a \in AppelType : a = fils[t][1]
  BY <1>1, AppelEnCours
<1>3. /\ Last(fils[t]) = a /\ Front(fils[t]) = <<>> /\ a.etape = "attendChange"
      /\ requete = Rien /\ EtatDe(a)
      /\ \A u \in Fils \ {t} : fils[u] = <<>>
  <2>1. EtatDe(fils[t][1])
    BY <1>1, AppelEnCours
  <2>2. QED
    BY <1>1, <1>2, <2>1, AppelEnCours
<1>4. demandesChange = <<>>
  BY <1>1, <1>3 DEF EtatDe, AttendChange
<1>5. fils \in [Fils -> {<<>>} \cup {<<x>> : x \in AppelType}]
  BY DEF InvAjout, Types
<1>6. Libre' /\ requete' = requete /\ UNCHANGED <<poste, ecrases, M, produit_a_ajouter, reste>>
  BY <1>3, <1>5 DEF FinAjout, ChangeArrive, varsScene, Libre
<1>7. PICK d \in Codes : d = CodeDe(a) /\ d = <<a.poste, a.produit>>
  BY CodeDAppel DEF CodeDe
<1>8. \A c : PlaceeLa(c) <=> c = d
  BY <1>1, <1>2, <1>3, <1>4, <1>7, UnePlacee
<1>9. \A c : ~PlaceeLa(c)'
  BY <1>6 DEF Libre, PlaceeLa
<1>10. IF a.origine = "menu" THEN menu = "produit" ELSE cmd = "attend"
  BY <1>1, <1>2 DEF InvAjout, UnAppel
<1>11. a.origine = "menu" \/ a.origine = "service"
  BY DEF AppelType
<1>12. \A c \in Codes : Nombre(produit_a_ajouter, c)' = Nombre(produit_a_ajouter, c)
  BY <1>6 DEF Nombre
<1>13. \A c \in Codes : M[c] \in Nat /\ Nombre(produit_a_ajouter, c) \in Nat
  BY MarqueSuivieNat, NombreNat DEF InvMarques, TypesMarques
<1>14. ASSUME NEW c \in Codes
       PROVE  Compte(PlaceeLa(c)) = Compte(c = d) /\ Compte(PlaceeLa(c))' = 0
  BY <1>8, <1>9 DEF Compte
<1>15. CASE a.origine = "menu"
  <2>1. requetePush' = d /\ cmd' = cmd /\ requetePush = Rien
    BY <1>3, <1>7, <1>10, <1>15 DEF FinAjout, InvAjout, UnAppel
  <2>2. ASSUME NEW c \in Codes PROVE MarqueSuivie(c)' = MarqueSuivie(c)
    <3>1. Compte(requetePush = c)' = Compte(c = d) /\ Compte(requetePush = c) = 0
      <4>1. requetePush # c /\ requetePush' = d
        BY <2>1, CodePasRien
      <4>2. QED
        BY <4>1 DEF Compte
    <3>2. Compte(cmd = "journal" /\ Head(reste) = c)'
            = Compte(cmd = "journal" /\ Head(reste) = c)
      BY <1>6, <2>1 DEF Compte
    <3>3. /\ Compte(c = d) \in Nat
          /\ Compte(cmd = "journal" /\ Head(reste) = c) \in Nat
      BY DEF Compte
    <3>4. QED
      BY <1>6, <1>12, <1>13, <1>14, <3>1, <3>2, <3>3 DEF MarqueSuivie, Attendue
  <2>3. QED
    BY <1>6, <2>2, MarquesIntactes, TypesMarquesIntacts DEF InvMarques, Provenance, Libre
<1>16. CASE a.origine = "service"
  <2>1. cmd' = "journal" /\ cmd = "attend" /\ requetePush' = requetePush
    BY <1>3, <1>10, <1>16 DEF FinAjout
  <2>2. Head(reste) = d
    BY <1>1, <1>2, <1>7, <1>16 DEF InvMarques, Provenance
  <2>3. ASSUME NEW c \in Codes PROVE MarqueSuivie(c)' = MarqueSuivie(c)
    <3>1. /\ Compte(cmd = "journal" /\ Head(reste) = c)' = Compte(c = d)
          /\ Compte(cmd = "journal" /\ Head(reste) = c) = 0
      BY <1>6, <2>1, <2>2 DEF Compte
    <3>2. Compte(requetePush = c)' = Compte(requetePush = c)
      BY <2>1 DEF Compte
    <3>3. Compte(c = d) \in Nat /\ Compte(requetePush = c) \in Nat
      BY DEF Compte
    <3>4. QED
      BY <1>6, <1>12, <1>13, <1>14, <3>1, <3>2, <3>3 DEF MarqueSuivie, Attendue
  <2>4. QED
    BY <1>6, <2>3, MarquesIntactes, TypesMarquesIntacts DEF InvMarques, Provenance, Libre
<1>17. QED
  BY <1>11, <1>15, <1>16

(* A marked product leaves its post, with its mark. *)
LEMMA EvacueMarques ==
    ASSUME InvAjout, InvMarques, NEW d \in Codes, Evacue(d)
    PROVE  InvMarques'
<1>1. /\ M' = [M EXCEPT ![d] = @ - 1] /\ M[d] > 0 /\ poste[d[1]] # 0
      /\ poste' = [poste EXCEPT ![d[1]] = 0] /\ ecrases' = ecrases
      /\ UNCHANGED <<fils, requete, demandesChange, requetePush, cmd, reste, produit_a_ajouter>>
  BY DEF Evacue, Retire, varsPont
<1>2. M \in [Codes -> Nat] /\ produit_a_ajouter \in Seq(Codes) /\ M[d] \in Nat
  BY DEF InvMarques, TypesMarques
<1>3. /\ M' \in [Codes -> Nat] /\ M'[d] = M[d] - 1
      /\ \A c \in Codes \ {d} : M'[c] = M[c]
  BY <1>1, <1>2
<1>4. ASSUME NEW c \in Codes PROVE Attendue(c)' = Attendue(c) /\ Attendue(c) \in Nat
  <2>1. Nombre(produit_a_ajouter, c)' = Nombre(produit_a_ajouter, c)
    BY <1>1 DEF Nombre
  <2>2. PlaceeLa(c)' <=> PlaceeLa(c)
    BY <1>1, AppelsIntacts
  <2>3. /\ Compte(PlaceeLa(c))' = Compte(PlaceeLa(c))
        /\ Compte(requetePush = c)' = Compte(requetePush = c)
        /\ Compte(cmd = "journal" /\ Head(reste) = c)'
             = Compte(cmd = "journal" /\ Head(reste) = c)
    BY <1>1, <2>2 DEF Compte
  <2>4. Attendue(c) \in Nat
    BY MarqueSuivieNat DEF InvMarques
  <2>5. QED
    BY <2>1, <2>3, <2>4 DEF Attendue
<1>5. MarqueSuivie(d)' = MarqueSuivie(d) + (-1)
  BY <1>2, <1>3, <1>4 DEF MarqueSuivie
<1>6. \A c \in Codes \ {d} : MarqueSuivie(c)' = MarqueSuivie(c)
  BY <1>3, <1>4 DEF MarqueSuivie
<1>7. Mis(d[1])' = Mis(d[1]) + (-1) /\ \A p \in Postes \ {d[1]} : Mis(p)' = Mis(p)
  <2>1. /\ poste \in [Postes -> Produits \cup {0}] /\ ecrases \in [Postes -> Nat]
        /\ d[1] \in Postes
    BY DEF InvAjout, Types, TypesPostes, Codes
  <2>2. poste'[d[1]] = 0 /\ ecrases[d[1]] \in Nat
    BY <1>1, <2>1
  <2>3. \A p \in Postes \ {d[1]} : poste'[p] = poste[p]
    BY <1>1, <2>1
  <2>4. QED
    BY <1>1, <2>2, <2>3 DEF Mis, Compte
<1>8. MarquesExactes'
  BY <1>5, <1>6, <1>7, UneMarqueChange DEF InvMarques
<1>9. QED
  BY <1>1, <1>2, <1>3, <1>8, ProvenanceIntacte DEF InvMarques, TypesMarques, Codes
-----------------------------------------------------------------------------
(* The command: a product passes to the codes, then to the marks.          *)
LEMMA AjouterProduitMarques ==
    ASSUME Un, InvAjout, InvMarques, AjouterProduit
    PROVE  InvMarques'
<1> USE DEF AjouterProduit, varsScene
<1>1. Libre
  BY DEF InvAjout, UnAppel, Libre
<1>2. \A c : ~PlaceeLa(c) /\ ~PlaceeLa(c)'
  BY <1>1 DEF Libre, PlaceeLa
<1>3. ASSUME NEW c \in Codes PROVE MarqueSuivie(c)' = MarqueSuivie(c)
  <2>1. /\ Compte(PlaceeLa(c))' = Compte(PlaceeLa(c))
        /\ Compte(requetePush = c)' = Compte(requetePush = c)
        /\ Compte(cmd = "journal" /\ Head(reste) = c)'
             = Compte(cmd = "journal" /\ Head(reste) = c)
    BY <1>2 DEF Compte
  <2>2. Nombre(produit_a_ajouter, c)' = Nombre(produit_a_ajouter, c)
    BY DEF Nombre
  <2>3. QED
    BY <2>1, <2>2 DEF MarqueSuivie, Attendue
<1>4. MarquesExactes'
  BY <1>3, MarquesIntactes DEF InvMarques
<1>5. Provenance'
  BY <1>1 DEF Provenance, Libre
<1>6. QED
  BY <1>4, <1>5, TypesMarquesIntacts DEF InvMarques

LEMMA SuiteMarques ==
    ASSUME InvAjout, InvMarques, AjouterProduitSuite
    PROVE  InvMarques'
<1>1. PICK d \in Codes : d = Head(reste)
  BY ResteTypes, TeteEtReste DEF AjouterProduitSuite
<1>2. /\ cmd = "journal" /\ cmd' = "libre" /\ requetePush' = requetePush /\ M' = M
      /\ produit_a_ajouter' = Append(produit_a_ajouter, d)
      /\ UNCHANGED <<fils, requete, demandesChange, poste, ecrases>>
  BY <1>1 DEF AjouterProduitSuite, varsPont, varsScene
<1>3. produit_a_ajouter \in Seq(Codes) /\ M \in [Codes -> Nat]
  BY DEF InvMarques, TypesMarques
<1>4. ASSUME NEW c \in Codes PROVE MarqueSuivie(c)' = MarqueSuivie(c)
  <2>1. Nombre(produit_a_ajouter, c)' = Nombre(produit_a_ajouter, c) + Compte(d = c)
    <3>1. Nombre(produit_a_ajouter, c)' = Nombre(Append(produit_a_ajouter, d), c)
      BY <1>2 DEF Nombre
    <3>2. QED
      BY <1>3, <3>1, NombreAjout DEF Compte
  <2>2. /\ Compte(cmd = "journal" /\ Head(reste) = c) = Compte(d = c)
        /\ Compte(cmd = "journal" /\ Head(reste) = c)' = 0
    BY <1>1, <1>2 DEF Compte
  <2>3. PlaceeLa(c)' <=> PlaceeLa(c)
    BY <1>2, AppelsIntacts
  <2>4. /\ Compte(PlaceeLa(c))' = Compte(PlaceeLa(c))
        /\ Compte(requetePush = c)' = Compte(requetePush = c)
    BY <1>2, <2>3 DEF Compte
  <2>5. M[c] \in Nat /\ Nombre(produit_a_ajouter, c) \in Nat
    BY <1>3, NombreNat
  <2>6. Compte(d = c) \in Nat /\ Compte(PlaceeLa(c)) \in Nat /\ Compte(requetePush = c) \in Nat
    BY DEF Compte
  <2>7. QED
    BY <1>2, <2>1, <2>2, <2>4, <2>5, <2>6 DEF MarqueSuivie, Attendue
<1>5. MarquesExactes'
  BY <1>2, <1>4, MarquesIntactes DEF InvMarques
<1>6. Provenance'
  BY <1>2 DEF InvAjout, UnAppel, Provenance
<1>7. TypesMarques'
  BY <1>2, <1>3 DEF TypesMarques, Codes
<1>8. QED
  BY <1>5, <1>6, <1>7 DEF InvMarques

LEMMA PushBackMarques ==
    ASSUME InvTypes, InvMarques, ProductAddPushBack
    PROVE  InvMarques'
<1>1. PICK d \in Codes : d = requetePush
  BY DEF InvTypes, TypesCommande, ProductAddPushBack
<1>2. /\ cmd' = cmd /\ reste' = reste /\ requetePush' = Rien /\ M' = M
      /\ produit_a_ajouter' = Append(produit_a_ajouter, d)
      /\ UNCHANGED <<fils, requete, demandesChange, poste, ecrases>>
  BY <1>1 DEF ProductAddPushBack, varsPont, varsScene
<1>3. produit_a_ajouter \in Seq(Codes) /\ M \in [Codes -> Nat]
  BY DEF InvMarques, TypesMarques
<1>4. ASSUME NEW c \in Codes PROVE MarqueSuivie(c)' = MarqueSuivie(c)
  <2>1. Nombre(produit_a_ajouter, c)' = Nombre(produit_a_ajouter, c) + Compte(d = c)
    <3>1. Nombre(produit_a_ajouter, c)' = Nombre(Append(produit_a_ajouter, d), c)
      BY <1>2 DEF Nombre
    <3>2. QED
      BY <1>3, <3>1, NombreAjout DEF Compte
  <2>2. /\ Compte(requetePush = c) = Compte(d = c)
        /\ Compte(requetePush = c)' = 0
    <3>1. requetePush' # c
      BY <1>2, CodePasRien
    <3>2. QED
      BY <1>1, <3>1 DEF Compte
  <2>3. PlaceeLa(c)' <=> PlaceeLa(c)
    BY <1>2, AppelsIntacts
  <2>4. /\ Compte(PlaceeLa(c))' = Compte(PlaceeLa(c))
        /\ Compte(cmd = "journal" /\ Head(reste) = c)'
             = Compte(cmd = "journal" /\ Head(reste) = c)
    BY <1>2, <2>3 DEF Compte
  <2>5. M[c] \in Nat /\ Nombre(produit_a_ajouter, c) \in Nat
    BY <1>3, NombreNat
  <2>6. /\ Compte(d = c) \in Nat /\ Compte(PlaceeLa(c)) \in Nat
        /\ Compte(cmd = "journal" /\ Head(reste) = c) \in Nat
    BY DEF Compte
  <2>7. QED
    BY <1>2, <2>1, <2>2, <2>4, <2>5, <2>6 DEF MarqueSuivie, Attendue
<1>5. MarquesExactes'
  BY <1>2, <1>4, MarquesIntactes DEF InvMarques
<1>6. TypesMarques'
  BY <1>2, <1>3 DEF TypesMarques, Codes
<1>7. QED
  BY <1>2, <1>5, <1>6, ProvenanceIntacte DEF InvMarques

LEMMA MarqueProduitsMarques ==
    ASSUME InvMarques, MarqueProduits
    PROVE  InvMarques'
<1>1. /\ cmd' = cmd /\ reste' = reste /\ requetePush' = requetePush
      /\ M' = [c \in Codes |-> M[c] + Nombre(produit_a_ajouter, c)]
      /\ produit_a_ajouter' = <<>>
      /\ UNCHANGED <<fils, requete, demandesChange, poste, ecrases>>
  BY DEF MarqueProduits, varsPont, varsScene
<1>2. \A c \in Codes : M[c] \in Nat /\ Nombre(produit_a_ajouter, c) \in Nat
  BY NombreNat DEF InvMarques, TypesMarques
<1>3. ASSUME NEW c \in Codes PROVE MarqueSuivie(c)' = MarqueSuivie(c)
  <2>1. Nombre(produit_a_ajouter, c)' = 0
    <3>1. Nombre(produit_a_ajouter, c)' = Nombre(<<>>, c)
      BY <1>1 DEF Nombre
    <3>2. QED
      BY <3>1, NombreVide
  <2>2. M'[c] = M[c] + Nombre(produit_a_ajouter, c)
    BY <1>1
  <2>3. PlaceeLa(c)' <=> PlaceeLa(c)
    BY <1>1, AppelsIntacts
  <2>4. /\ Compte(PlaceeLa(c))' = Compte(PlaceeLa(c))
        /\ Compte(requetePush = c)' = Compte(requetePush = c)
        /\ Compte(cmd = "journal" /\ Head(reste) = c)'
             = Compte(cmd = "journal" /\ Head(reste) = c)
    BY <1>1, <2>3 DEF Compte
  <2>5. /\ Compte(PlaceeLa(c)) \in Nat /\ Compte(requetePush = c) \in Nat
        /\ Compte(cmd = "journal" /\ Head(reste) = c) \in Nat
    BY DEF Compte
  <2>6. QED
    BY <1>2, <2>1, <2>2, <2>4, <2>5 DEF MarqueSuivie, Attendue
<1>4. MarquesExactes'
  BY <1>1, <1>3, MarquesIntactes DEF InvMarques
<1>5. TypesMarques'
  BY <1>1, <1>2 DEF TypesMarques, Codes
<1>6. QED
  BY <1>1, <1>4, <1>5, ProvenanceIntacte DEF InvMarques
-----------------------------------------------------------------------------
LEMMA InvMarquesInitial == Init => InvMarques
<1> SUFFICES ASSUME Init PROVE InvMarques
  OBVIOUS
<1> USE DEF Init, InitPont, InitScene
<1>1. TypesMarques
  BY DEF TypesMarques
<1>2. Provenance
  BY DEF Provenance
<1>3. ASSUME NEW p \in Postes PROVE Somme(MarquesDe(p)) = Mis(p)
  <2>1. ASSUME NEW q \in Produits PROVE MarqueSuivie(<<p, q>>) = 0
    <3>1. <<p, q>> \in Codes
      BY DEF Codes
    <3>2. M[<<p, q>>] = 0 /\ Nombre(produit_a_ajouter, <<p, q>>) = 0
      BY <3>1, NombreVide
    <3>3. ~PlaceeLa(<<p, q>>) /\ requetePush # <<p, q>>
      BY <3>1, CodePasRien DEF PlaceeLa
    <3>4. QED
      BY <3>2, <3>3 DEF MarqueSuivie, Attendue, Compte
  <2>2. \A q \in 1..6 : MarquesDe(p)[q] = 0
    BY <2>1 DEF MarquesDe
  <2>3. Mis(p) = 0
    BY DEF Mis, Compte
  <2>4. QED
    BY <2>2, <2>3 DEF Somme
<1>4. QED
  BY <1>1, <1>2, <1>3 DEF InvMarques, MarquesExactes

LEMMA InvMarquesSuit ==
    ASSUME Un, InvTypes, InvAjout, InvMarques, [Next]_vars
    PROVE  InvMarques'
<1>1. ASSUME NEW c \in Codes, MenuAjoute(c[1], c[2]) PROVE InvMarques'
  BY <1>1, MenuAjouteMarques
<1>2. ASSUME NEW c \in Codes, Evacue(c) PROVE InvMarques'
  BY <1>2, EvacueMarques
<1>3. ASSUME NEW t \in Fils, Etape(t) \/ Callback(t) \/ FinAjout(t) PROVE InvMarques'
  BY <1>3, EtapeMarques, CallbackMarques, FinAjoutMarques
<1>4. CASE SceneRepond
  BY <1>4, RepondCouleurMarques, RepondChangeMarques DEF SceneRepond
<1>5. CASE MenuTour \/ Log \/ LogTemps
  BY <1>5, RienNeChange DEF MenuTour, Log, LogTemps, varsPont, varsScene, varsCommande
<1>6. CASE Commande
  BY <1>6, AjouterProduitMarques, SuiteMarques, PushBackMarques, MarqueProduitsMarques
     DEF Commande
<1>7. CASE UNCHANGED vars
  BY <1>7, RienNeChange DEF vars, varsPont, varsScene, varsCommande
<1>8. QED
  BY <1>1, <1>2, <1>3, <1>4, <1>5, <1>6, <1>7 DEF Next

LEMMA InvMarquesSuffit ==
    ASSUME InvAjout, InvMarques
    PROVE  MarquesSuivies
<1> DEFINE marques(p) == [q \in 1..6 |-> IF q \in Produits THEN M[<<p, q>>] ELSE 0]
<1>1. ASSUME NEW p \in Postes, NEW q \in Produits
      PROVE  /\ M[<<p, q>>] \in Nat /\ M[<<p, q>>] <= MarqueSuivie(<<p, q>>)
             /\ MarqueSuivie(<<p, q>>) = M[<<p, q>>] + Attendue(<<p, q>>)
  <2>1. <<p, q>> \in Codes
    BY DEF Codes
  <2>2. /\ M[<<p, q>>] \in Nat /\ Attendue(<<p, q>>) \in Nat
    BY <2>1, MarqueSuivieNat DEF InvMarques
  <2>3. QED
    BY <2>2 DEF MarqueSuivie
<1>2. ASSUME NEW p \in Postes PROVE Somme(marques(p)) <= Mis(p)
  <2>1. marques(p) \in [1..6 -> Nat] /\ MarquesDe(p) \in [1..6 -> Nat]
    BY <1>1, MarquesDeType DEF InvMarques
  <2>2. \A q \in 1..6 : marques(p)[q] <= MarquesDe(p)[q]
    BY <1>1 DEF MarquesDe
  <2> HIDE DEF marques
  <2>3. Somme(marques(p)) <= Somme(MarquesDe(p))
    BY <2>1, <2>2, SommeCroit
  <2>4. QED
    BY <2>3 DEF InvMarques, MarquesExactes
<1>3. ASSUME AuRepos, NEW p \in Postes PROVE Somme(marques(p)) = Mis(p)
  <2>1. Libre
    BY <1>3 DEF AuRepos, InvAjout, UnAppel, Libre
  <2>2. ASSUME NEW q \in Produits PROVE MarqueSuivie(<<p, q>>) = M[<<p, q>>]
    <3>1. <<p, q>> \in Codes
      BY DEF Codes
    <3>2. ~PlaceeLa(<<p, q>>) /\ requetePush # <<p, q>>
      BY <1>3, <2>1, <3>1, LibreSansPlacee, CodePasRien DEF AuRepos
    <3>3. Nombre(produit_a_ajouter, <<p, q>>) = 0
      BY <1>3, NombreVide DEF AuRepos
    <3>4. cmd # "journal"
      BY <1>3 DEF AuRepos
    <3>5. Attendue(<<p, q>>) = 0
      BY <3>2, <3>3, <3>4 DEF Attendue, Compte
    <3>6. QED
      BY <1>1, <3>5
  <2>3. MarquesDe(p) = marques(p)
    BY <2>2 DEF MarquesDe
  <2>4. QED
    BY <2>3 DEF InvMarques, MarquesExactes
<1>4. \A p \in Postes : Mis(p) = (IF poste[p] # 0 THEN 1 ELSE 0) + ecrases[p]
  BY DEF Mis, Compte
<1>5. QED
  BY <1>2, <1>3, <1>4 DEF MarquesSuivies, Marques

(* MarquesSuivies of main_commande.cpp and RobotsInterface: a post never   *)
(* has more marks than products put there, and just as many once all is    *)
(* treated, for all posts, products and additions.                         *)
THEOREM MarquesToujoursSuivies ==
    ASSUME Un
    PROVE  Spec => []MarquesSuivies
<1>1. Init => InvAjout /\ InvMarques
  BY InvAjoutInitial, InvMarquesInitial
<1>2. InvTypes /\ InvAjout /\ InvMarques /\ [Next]_vars => InvAjout' /\ InvMarques'
  BY InvAjoutSuit, InvMarquesSuit
<1>3. InvAjout /\ InvMarques => MarquesSuivies
  BY InvMarquesSuffit
<1>4. InvAjouts => InvTypes
  BY DEF InvAjouts
<1>5. QED
  BY <1>1, <1>2, <1>3, <1>4, InvAjoutsInvariant, PTL DEF Spec
=============================================================================
