---------------------- MODULE CommandeRobot_proofs ---------------------------
(***************************************************************************)
(* The robot node and the command that drives it.  The types hold whatever *)
(* the command overlaps.  When it gives one order at a time (UneALaFois),  *)
(* no wake-up is lost: there is always one callback at most that waits,    *)
(* for an answer that is under way, and the answer it goes on with is the  *)
(* answer to its own question.                                             *)
(***************************************************************************)
EXTENDS CommandeRobot, SequenceTheorems, FiniteSetTheorems, TLAPS

(* The types, with those of the queues and what a step of each kind holds. *)
LuesType == UNION {[1..n -> Couleurs] : n \in 0..NB_CUBE}
RequeteType ==
    [objet : Objets \cup {""}, rang : 0..NB_CUBE, cubes : Cubes, pose : PoseType]
RequeteCouleur == {q \in RequeteType : q.objet \in Objets}
ReponseType ==
    [type : {"reponse"}, canal : Canaux, couleur : Couleurs, pose : PoseType,
     objet : Objets \cup {""}, rang : 0..NB_CUBE]
Messages == OrdresPossibles \cup ReponseType
ValeurType ==
    [couleur : Couleurs, objet : Objets \cup {""}, rang : 0..NB_CUBE, pose : PoseType]

OpsPoste == {"tache", "lireDebut", "peindreDebut", "verifier", "lireFin", "peindreFin",
             "confirmer", "stopTache"}
OpsObjet == Lectures \cup {"peindrePrise", "peindrePose", "peindreDebut", "peindreFin",
                           "peindreEvac", "confirmer"}

EtapeJuste(e) ==
    /\ e.op \in OpsPoste => e.pos \in PositionsPoste
    /\ e.op \in OpsObjet => e.objet \in Objets
    /\ e.op \in {"consigne", "sonder"} => e.arg \in {2, 4, 5}
    /\ e.op \in {"pince", "serrage"} => e.arg \in {6, 7}
    /\ e.op = "retour" => e.arg = 10
    /\ e.op \in {"peindreFin", "confirmer"} => e.arg <= NB_CUBE
    /\ e.op \in {"lot", "verifier"} => e.attend = ""
    /\ e.op = "update" => e.attend # ""
    /\ e.op \in Lectures /\ e.attend # "" => Len(e.lues) < NB_CUBE
    /\ e.attend = "getColor" => e.op \in Lectures \cup {"confirmer"}

TypesFiles ==
    /\ appels \in Seq(EtapeType)
    /\ \A i \in 1..Len(appels) : EtapeJuste(appels[i])
    /\ entree \in Seq(Messages) /\ lot \in 0..Len(entree)
    /\ requetes \in [Canaux -> Seq(RequeteType)]
    /\ requetes["getColor"] \in Seq(RequeteCouleur)
    /\ sortie \in Seq(0..10)

TypesMemoire ==
    /\ rep \in [Canaux -> BOOLEAN]
    /\ valeur \in ValeurType
    /\ Rpos \in PoseType
    /\ couleur_transportee \in Cubes
    /\ tache \in [PositionsPoste -> BOOLEAN]
    /\ retour \in 0..10
    /\ erreurs \subseteq {1, 2, 3, 66}

TypesScene ==
    /\ cubes \in [Objets -> Cubes]
    /\ consigne \in PoseType /\ pose \in PoseType
    /\ navette \in [PositionsNavette -> Navettes \cup {AucuneNavette}]

TypesCommande ==
    /\ robotInit \in {0, 1} /\ robotMacroDeplacement \in {0, 1}
    /\ robotTask \in [PositionsPoste -> {0, 1}]
    /\ programme \in Programmes /\ demandes \subseteq Genres
    /\ Len(sortie) <= MaxSortie

InvTypes == TypesFiles /\ TypesMemoire /\ TypesScene /\ TypesCommande
-----------------------------------------------------------------------------
(* A step of the node, seen from the stack: the callback at the head goes  *)
(* on as f, or is finished.                                                *)
Travail(e) == e.op \notin {"lot", "verifier"}

PosteDe(g) == IF g = "tache1" THEN 1 ELSE 4
OpsDe(g) ==
    CASE g = "deplacer" -> {"envoyer", "descendre", "prise", "pince", "monter", "pose",
                            "retour", "consigne", "sonder", "serrage", "lirePrise",
                            "lirePose", "peindrePrise", "peindrePose"}
      [] g = "bras" -> {"envoyer", "joints", "descendre", "monter", "pince", "consigne",
                        "sonder", "serrage"}
      [] g \in {"tache1", "tache4"} ->
           {"tache", "lireDebut", "peindreDebut", "update", "lireFin", "peindreFin",
            "confirmer"}
      [] g = "evacuer" -> {"evacuer", "lireEvac", "peindreEvac"}
      [] g = "stopTache" -> {"stopTache"}
EtapeDe(g, e) ==
    /\ e.op \in OpsDe(g)
    /\ g \in {"tache1", "tache4"} /\ e.op # "update" => e.pos = PosteDe(g)

Pour(e, x) == x.objet = e.objet /\ x.rang = RangDemande(e)

Interroge(f) ==
    \/ f.attend = "" /\ requetes' = requetes
    \/ /\ f.attend \in Canaux
       /\ \E q \in RequeteType :
            /\ requetes' = [requetes EXCEPT ![f.attend] = Append(@, q)]
            /\ f.attend = "getColor" => q \in RequeteCouleur /\ Pour(f, q)

Consomme ==
    IF Courant.attend = "" THEN rep' = rep
    ELSE rep[Courant.attend] /\ rep' = [rep EXCEPT ![Courant.attend] = FALSE]

Poursuit(f) ==
    /\ appels # <<>> /\ Courant.op # "lot"
    /\ appels' = <<f>> \o Tail(appels)
    /\ f \in EtapeType /\ EtapeJuste(f) /\ Travail(f)
    /\ UNCHANGED <<entree, lot>>
    /\ Interroge(f) /\ Consomme

MemeTravail(f) ==
    /\ Travail(Courant) /\ Courant.op # "update"
    /\ \A g \in Genres : EtapeDe(g, Courant) => EtapeDe(g, f)
    /\ Courant.op = "init" => f.op = "init"
    /\ f.op \notin {"retour", "update"}

Termine ==
    /\ appels # <<>> /\ Courant.op # "lot"
    /\ appels' = Tail(appels)
    /\ UNCHANGED <<entree, lot, requetes>>
    /\ Consomme

LEMMA SuitesDeLues ==
    /\ \A s \in LuesType : s \in Seq(Couleurs) /\ Len(s) <= NB_CUBE
    /\ \A s \in Seq(Couleurs) : Len(s) <= NB_CUBE => s \in LuesType
    /\ EtapeType = [op : Ops, pos : 0..4, arg : 0..(10 + NB_CUBE), objet : Objets \cup {""},
                    lues : LuesType, attend : Canaux \cup {""}]
<1>1. NB_CUBE \in Nat
  BY CubesAssumption
<1>2. ASSUME NEW s \in LuesType
      PROVE  s \in Seq(Couleurs) /\ Len(s) <= NB_CUBE
  <2>1. PICK n \in 0..NB_CUBE : s \in [1..n -> Couleurs]
    BY DEF LuesType
  <2>2. n \in Nat
    BY <1>1, <2>1
  <2>3. s \in Seq(Couleurs) /\ Len(s) = n
    BY <2>1, <2>2
  <2>4. QED  BY <1>1, <2>1, <2>3
<1>3. ASSUME NEW s \in Seq(Couleurs), Len(s) <= NB_CUBE
      PROVE  s \in LuesType
  <2>1. Len(s) \in 0..NB_CUBE /\ s \in [1..Len(s) -> Couleurs]
    BY <1>1, <1>3, LenProperties
  <2>2. QED  BY <2>1 DEF LuesType
<1>4. EtapeType = [op : Ops, pos : 0..4, arg : 0..(10 + NB_CUBE), objet : Objets \cup {""},
                    lues : LuesType, attend : Canaux \cup {""}]
  BY DEF EtapeType, LuesType
<1>5. QED  BY <1>2, <1>3, <1>4

LEMMA Constantes ==
    /\ NB_CUBE \in Nat /\ NB_CUBE >= 2
    /\ 0 \in Couleurs /\ SansCube \in Cubes
    /\ \A p \in PositionsPoste : CouleurTache(p) \in Couleurs /\ CouleurEnCours(p) \in Couleurs
    /\ \A p \in PositionsPoste : NomPoste(p) \in Objets
    /\ Navettes \subseteq Objets
    /\ \A p \in 0..4 : Pose(p, 0) \in PoseType
    /\ Pose(0, 0) \in PoseType
    /\ Simple \in RequeteType
    /\ <<>> \in LuesType
    /\ 0 \in 0..NB_CUBE /\ "" \in Objets \cup {""}
<1>1. NB_CUBE \in Nat /\ NB_CUBE >= 2
  BY CubesAssumption
<1>2. 0 \in Couleurs
  BY DEF Couleurs
<1>3. SansCube \in Cubes
  BY <1>2 DEF SansCube, Cubes
<1>4. \A p \in PositionsPoste : CouleurTache(p) \in Couleurs /\ CouleurEnCours(p) \in Couleurs
  BY DEF Couleurs
<1>5. \A p \in PositionsPoste : NomPoste(p) \in Objets
  BY DEF NomPoste, Objets
<1>6. \A p \in 0..4 : Pose(p, 0) \in PoseType
  BY DEF Pose, PoseType
<1>7. Simple \in RequeteType
  BY <1>1, <1>3, <1>6 DEF Simple, Requete, RequeteType
<1>8. <<>> \in LuesType
  <2> DEFINE v == <<>>
  <2>1. v \in Seq(Couleurs) /\ Len(v) = 0
    BY EmptySeq
  <2> HIDE DEF v
  <2>2. Len(v) <= NB_CUBE
    BY <1>1, <2>1
  <2>3. \A s \in Seq(Couleurs) : Len(s) <= NB_CUBE => s \in LuesType
    BY SuitesDeLues
  <2>4. v \in LuesType
    BY <2>1, <2>2, <2>3
  <2>5. QED  BY <2>4 DEF v
<1>9. Pose(0, 0) \in PoseType
  BY <1>6
<1>10. QED  BY <1>1, <1>2, <1>3, <1>4, <1>5, <1>6, <1>7, <1>8, <1>9 DEF Objets

(* The step at the head of the stack. *)
LEMMA Tete ==
    ASSUME TypesFiles, appels # <<>>
    PROVE  /\ Courant = appels[1] /\ 1 \in 1..Len(appels)
           /\ Courant \in EtapeType /\ EtapeJuste(Courant)
           /\ Courant.op \in Ops /\ Courant.pos \in 0..4 /\ Courant.arg \in 0..(10 + NB_CUBE)
           /\ Courant.objet \in Objets \cup {""} /\ Courant.lues \in LuesType
           /\ Courant.attend \in Canaux \cup {""}
<1>1. Courant = appels[1] /\ 1 \in 1..Len(appels)
  BY DEF TypesFiles, Courant
<1>2. Courant \in EtapeType /\ EtapeJuste(Courant)
  BY <1>1 DEF TypesFiles
<1>3. QED  BY <1>1, <1>2, SuitesDeLues

LEMMA EtapeFaite ==
    ASSUME NEW o \in Ops, NEW p \in 0..4, NEW a \in 0..(10 + NB_CUBE),
           NEW b \in Objets \cup {""}, NEW l \in LuesType, NEW c \in Canaux \cup {""}
    PROVE  [op |-> o, pos |-> p, arg |-> a, objet |-> b, lues |-> l, attend |-> c]
             \in EtapeType
BY SuitesDeLues

(* The fields of a step made anew, or from another one.                    *)
Fiche(f, o, p, a, b, l, c) ==
    /\ f \in EtapeType
    /\ f.op = o /\ f.pos = p /\ f.arg = a /\ f.objet = b /\ f.lues = l /\ f.attend = c

LEMMA Changee ==
    ASSUME NEW e \in EtapeType, NEW o \in Ops, NEW a \in 0..(10 + NB_CUBE),
           NEW l \in LuesType, NEW c \in Canaux \cup {""}
    PROVE  /\ Fiche([e EXCEPT !.attend = c], e.op, e.pos, e.arg, e.objet, e.lues, c)
           /\ Fiche([e EXCEPT !.op = o], o, e.pos, e.arg, e.objet, e.lues, e.attend)
           /\ Fiche([e EXCEPT !.op = o, !.attend = c], o, e.pos, e.arg, e.objet, e.lues, c)
           /\ Fiche([e EXCEPT !.op = o, !.arg = a, !.attend = c],
                    o, e.pos, a, e.objet, e.lues, c)
           /\ Fiche([e EXCEPT !.lues = l, !.attend = c], e.op, e.pos, e.arg, e.objet, l, c)
           /\ \A b \in Objets :
                Fiche([e EXCEPT !.objet = b], e.op, e.pos, e.arg, b, e.lues, e.attend)
BY SuitesDeLues DEF Fiche

LEMMA Nouvelle ==
    ASSUME NEW o \in Ops, NEW p \in 0..4, NEW a \in 0..10
    PROVE  /\ Fiche(Etape(o, p, a), o, p, a, "", <<>>, "")
           /\ \A c \in Canaux : Fiche([Etape(o, p, a) EXCEPT !.attend = c],
                                      o, p, a, "", <<>>, c)
           /\ \A b \in Objets : Fiche([Etape(o, p, a) EXCEPT !.objet = b],
                                      o, p, a, b, <<>>, "")
<1> DEFINE v == <<>>
           e == Etape(o, p, a)
<1>1. a \in 0..(10 + NB_CUBE) /\ "" \in Objets \cup {""} /\ "" \in Canaux \cup {""}
  BY Constantes
<1>2. v \in LuesType
  BY Constantes
<1>3. e = [op |-> o, pos |-> p, arg |-> a, objet |-> "", lues |-> v, attend |-> ""]
  BY DEF Etape
<1> HIDE DEF v, e
<1>4. e \in EtapeType
  BY <1>1, <1>2, <1>3, EtapeFaite
<1>5. e.op = o /\ e.pos = p /\ e.arg = a /\ e.objet = "" /\ e.lues = v /\ e.attend = ""
  BY <1>3
<1>6. Fiche(e, o, p, a, "", v, "")
  BY <1>4, <1>5 DEF Fiche
<1>7. ASSUME NEW c \in Canaux
      PROVE  Fiche([e EXCEPT !.attend = c], o, p, a, "", v, c)
  <2>1. Fiche([e EXCEPT !.attend = c], e.op, e.pos, e.arg, e.objet, e.lues, c)
    BY <1>1, <1>2, <1>4, Changee, Constantes
  <2>2. QED  BY <1>5, <2>1
<1>8. ASSUME NEW b \in Objets
      PROVE  Fiche([e EXCEPT !.objet = b], o, p, a, b, v, "")
  <2>1. Fiche([e EXCEPT !.objet = b], e.op, e.pos, e.arg, b, e.lues, e.attend)
    BY <1>1, <1>2, <1>4, Changee, Constantes
  <2>2. QED  BY <1>5, <2>1
<1>9. QED  BY <1>6, <1>7, <1>8 DEF v, e

(* A request made, and appended to its channel. *)
LEMMA RequeteFaite ==
    ASSUME NEW b \in Objets \cup {""}, NEW r \in 0..NB_CUBE, NEW x \in Cubes,
           NEW p \in PoseType
    PROVE  /\ Requete(b, r, x, p) \in RequeteType
           /\ Requete(b, r, x, p).objet = b /\ Requete(b, r, x, p).rang = r
BY DEF Requete, RequeteType

LEMMA Demandee ==
    ASSUME NEW f, NEW c \in Canaux \ {"getColor"}, f.attend = c,
           NEW q \in RequeteType, Demande(c, q)
    PROVE  Interroge(f)
<1>1. requetes' = [requetes EXCEPT ![f.attend] = Append(@, q)]
  BY DEF Demande
<1>2. f.attend \in Canaux /\ f.attend # "getColor"
  OBVIOUS
<1>3. QED  BY <1>1, <1>2 DEF Interroge

LEMMA DemandeeCouleur ==
    ASSUME NEW f, f.attend = "getColor",
           NEW q \in RequeteCouleur, Demande("getColor", q), Pour(f, q)
    PROVE  Interroge(f)
<1>1. requetes' = [requetes EXCEPT ![f.attend] = Append(@, q)]
  BY DEF Demande
<1>2. f.attend \in Canaux /\ q \in RequeteType
  BY DEF Canaux, RequeteCouleur
<1>3. QED  BY <1>1, <1>2 DEF Interroge

-----------------------------------------------------------------------------
(* A callback goes from one kind of step to the next.                      *)
Mene(o, q) ==
    \/ o = q
    \/ o \in {"envoyer", "joints", "descendre", "monter"} /\ q = "consigne"
    \/ o = "consigne" /\ q = "sonder"
    \/ o = "pince" /\ q = "serrage"
    \/ o = "prise" /\ q = "lirePrise"
    \/ o = "lirePrise" /\ q = "peindrePrise"
    \/ o = "pose" /\ q = "lirePose"
    \/ o = "lirePose" /\ q = "peindrePose"
    \/ o = "tache" /\ q = "lireDebut"
    \/ o = "lireDebut" /\ q = "peindreDebut"
    \/ o = "lireFin" /\ q = "peindreFin"
    \/ o = "peindreFin" /\ q = "confirmer"
    \/ o = "evacuer" /\ q = "lireEvac"
    \/ o = "lireEvac" /\ q = "peindreEvac"

LEMMA OpsDuGenre ==
    /\ OpsDe("deplacer") = {"envoyer", "descendre", "prise", "pince", "monter", "pose",
                            "retour", "consigne", "sonder", "serrage", "lirePrise",
                            "lirePose", "peindrePrise", "peindrePose"}
    /\ OpsDe("bras") = {"envoyer", "joints", "descendre", "monter", "pince", "consigne",
                        "sonder", "serrage"}
    /\ \A g \in {"tache1", "tache4"} :
         OpsDe(g) = {"tache", "lireDebut", "peindreDebut", "update", "lireFin",
                     "peindreFin", "confirmer"}
    /\ OpsDe("evacuer") = {"evacuer", "lireEvac", "peindreEvac"}
    /\ OpsDe("stopTache") = {"stopTache"}
BY DEF OpsDe

LEMMA MemeGenre ==
    ASSUME NEW o, NEW q, Mene(o, q), NEW g \in Genres, o \in OpsDe(g)
    PROVE  q \in OpsDe(g)
<1>1. CASE g = "deplacer"
  BY <1>1, OpsDuGenre DEF Mene
<1>2. CASE g = "bras"
  BY <1>2, OpsDuGenre DEF Mene
<1>3. CASE g \in {"tache1", "tache4"}
  BY <1>3, OpsDuGenre DEF Mene
<1>4. CASE g = "evacuer"
  BY <1>4, OpsDuGenre DEF Mene
<1>5. CASE g = "stopTache"
  BY <1>5, OpsDuGenre DEF Mene
<1>6. QED  BY <1>1, <1>2, <1>3, <1>4, <1>5 DEF Genres

(* The callback at the head goes on with the same order; the command is    *)
(* told nothing and no task starts or ends.                                *)
MemeSuite == \E f \in EtapeType : Poursuit(f) /\ MemeTravail(f)
Discret == sortie' = sortie /\ tache' = tache

LEMMA Continue ==
    ASSUME appels # <<>>,
           NEW f \in EtapeType, EtapeJuste(f), Mene(Courant.op, f.op),
           Courant.op \notin {"lot", "verifier", "update", "retour"},
           f.pos = Courant.pos \/ f.op = "consigne",
           Remplace(<<f>>), entree' = entree, lot' = lot, Interroge(f), Consomme
    PROVE  MemeSuite
<1>1. /\ Travail(Courant) /\ Travail(f)
      /\ f.op \notin {"retour", "update"}
      /\ Courant.op = "init" => f.op = "init"
  BY DEF Mene, Travail
<1>2. ASSUME NEW g \in Genres, EtapeDe(g, Courant)
      PROVE  EtapeDe(g, f)
  <2>1. Courant.op \in OpsDe(g) /\ f.op \in OpsDe(g)
    BY <1>2, MemeGenre DEF EtapeDe
  <2>2. g \in {"tache1", "tache4"} => f.op # "consigne"
    BY <2>1, OpsDuGenre
  <2>3. QED  BY <1>2, <2>1, <2>2 DEF EtapeDe
<1>3. Poursuit(f)
  BY <1>1 DEF Poursuit, Remplace, Travail
<1>4. MemeTravail(f)
  BY <1>1, <1>2 DEF MemeTravail
<1>5. QED  BY <1>3, <1>4 DEF MemeSuite

LEMMA AttenteLibre ==
    ASSUME NEW op, Libre(op), rep' = rep
    PROVE  appels # <<>> /\ Courant.op = op /\ Courant.attend = "" /\ Consomme
BY DEF Libre, Actif, Courant, Consomme

LEMMA AttenteRecue ==
    ASSUME NEW op, NEW c \in Canaux, Recu(op, c)
    PROVE  /\ appels # <<>> /\ Courant.op = op /\ Courant.attend = c
           /\ Consomme
BY DEF Recu, Actif, Courant, Consomme, Canaux

-----------------------------------------------------------------------------
LEMMA NouveauRposSuite ==
    ASSUME TypesFiles, TypesMemoire,
           NEW op \in {"envoyer", "joints", "descendre", "monter"}, Libre(op),
           NEW cible \in PoseType, NEW code \in {2, 4, 5}, NouveauRpos(cible, code)
    PROVE  MemeSuite /\ Discret /\ TypesMemoire'
<1> DEFINE f == [Etape("consigne", cible.pos, code) EXCEPT !.attend = "setJointState"]
           q == Requete("", 0, SansCube, cible)
<1>1. appels # <<>> /\ Courant.op = op /\ Consomme
  BY AttenteLibre DEF NouveauRpos
<1>2. Fiche(f, "consigne", cible.pos, code, "", <<>>, "setJointState")
  <2>1. cible.pos \in 0..4 /\ code \in 0..10
    BY DEF PoseType
  <2>2. "consigne" \in Ops /\ "setJointState" \in Canaux
    BY DEF Ops, Canaux
  <2>3. QED  BY <2>1, <2>2, Nouvelle
<1>3. q \in RequeteType
  BY Constantes, RequeteFaite
<1>4. Remplace(<<f>>) /\ Demande("setJointState", q) /\ entree' = entree /\ lot' = lot
  BY DEF NouveauRpos
<1> HIDE DEF f, q
<1>5. EtapeJuste(f)
  BY <1>2 DEF EtapeJuste, Fiche, OpsPoste, OpsObjet, Lectures
<1>6. Interroge(f)
  <2>1. "setJointState" \in Canaux \ {"getColor"} /\ f.attend = "setJointState"
    BY <1>2 DEF Fiche, Canaux
  <2>2. QED  BY <1>3, <1>4, <2>1, Demandee
<1>7. Mene(Courant.op, f.op) /\ f \in EtapeType /\ f.op = "consigne"
  BY <1>1, <1>2 DEF Fiche, Mene
<1>8. MemeSuite
  BY <1>1, <1>4, <1>5, <1>6, <1>7, Continue
<1>9. Discret /\ TypesMemoire'
  BY DEF NouveauRpos, Discret, TypesMemoire
<1>10. QED  BY <1>8, <1>9

LEMMA RposSuite ==
    ASSUME TypesFiles, TypesMemoire,
           EnvoyerRobot \/ EnvoyerJoints \/ DescendreBras \/ MonterBras
    PROVE  MemeSuite /\ Discret /\ TypesMemoire'
<1>1. CASE EnvoyerRobot
  <2>1. Libre("envoyer") /\ NouveauRpos(Pose(Courant.pos, 0), 2)
    BY <1>1 DEF EnvoyerRobot
  <2>2. Courant.pos \in 0..4
    BY <2>1, Tete DEF Libre, Actif
  <2>3. QED  BY <2>1, <2>2, Constantes, NouveauRposSuite
<1>2. CASE EnvoyerJoints
  BY <1>2, Constantes, NouveauRposSuite DEF EnvoyerJoints
<1>3. CASE DescendreBras
  <2>1. [Rpos EXCEPT !.bas = @ + 1] \in PoseType
    BY DEF TypesMemoire, PoseType
  <2>2. QED  BY <1>3, <2>1, NouveauRposSuite DEF DescendreBras
<1>4. CASE MonterBras
  <2>1. [Rpos EXCEPT !.bas = @ - 1] \in PoseType
    BY DEF TypesMemoire, PoseType
  <2>2. QED  BY <1>4, <2>1, NouveauRposSuite DEF MonterBras
<1>5. QED  BY <1>1, <1>2, <1>3, <1>4

LEMMA MouvementSuite ==
    ASSUME TypesFiles, TypesMemoire,
           ConsigneRecue \/ PositionNonAtteinte \/ PinceCommande \/ PinceAttend \/ InitDemande
    PROVE  MemeSuite /\ Discret /\ TypesMemoire'
<1> DEFINE e == Courant
<1>1. appels # <<>>
  BY DEF ConsigneRecue, PositionNonAtteinte, PinceCommande, PinceAttend, InitDemande,
         Recu, Libre, Actif
<1>2. e \in EtapeType /\ EtapeJuste(e) /\ e.arg \in 0..(10 + NB_CUBE) /\ e.lues \in LuesType
  BY <1>1, Tete
<1>3. {"setJointState", "getJointState", "getTime", "getObjectHandle"}
        \subseteq Canaux \ {"getColor"}
  BY DEF Canaux
<1>4. Simple \in RequeteType
  BY Constantes
<1>5. CASE ConsigneRecue
  <2> DEFINE f == [e EXCEPT !.op = "sonder", !.attend = "getJointState"]
  <2>1. Courant.op = "consigne" /\ Consomme
    BY <1>3, <1>5, AttenteRecue DEF ConsigneRecue
  <2>2. Fiche(f, "sonder", e.pos, e.arg, e.objet, e.lues, "getJointState")
    BY <1>2, <1>3, Changee DEF Ops
  <2>3. /\ Remplace(<<f>>) /\ Demande("getJointState", Simple)
        /\ entree' = entree /\ lot' = lot
    BY <1>5 DEF ConsigneRecue, Recu
  <2>4. Discret /\ TypesMemoire'
    BY <1>5 DEF ConsigneRecue, Recu, Discret, TypesMemoire, varsMemoire
  <2> HIDE DEF f
  <2>5. EtapeJuste(f)
    BY <1>2, <2>1, <2>2 DEF EtapeJuste, Fiche, OpsPoste, OpsObjet, Lectures
  <2>6. Interroge(f)
    BY <1>3, <1>4, <2>2, <2>3, Demandee DEF Fiche
  <2>7. Mene(Courant.op, f.op) /\ f \in EtapeType /\ f.pos = Courant.pos
    BY <2>1, <2>2 DEF Fiche, Mene
  <2>8. QED  BY <1>1, <2>1, <2>3, <2>4, <2>5, <2>6, <2>7, Continue
<1>6. CASE PositionNonAtteinte
  <2>1. Courant.op = "sonder" /\ Consomme /\ Courant.attend = "getJointState"
    BY <1>3, <1>6, AttenteRecue DEF PositionNonAtteinte
  <2>2. appels = <<Head(appels)>> \o Tail(appels)
    BY <1>1 DEF TypesFiles
  <2>3. /\ Remplace(<<e>>) /\ Demande("getJointState", Simple)
        /\ entree' = entree /\ lot' = lot
    BY <1>6, <2>2 DEF PositionNonAtteinte, Remplace, Courant
  <2>4. Discret /\ TypesMemoire'
    BY <1>6 DEF PositionNonAtteinte, Recu, Discret, TypesMemoire, varsMemoire
  <2>5. Interroge(e)
    BY <1>3, <1>4, <2>1, <2>3, Demandee
  <2>6. Mene(Courant.op, e.op)
    BY DEF Mene
  <2> HIDE DEF e
  <2>7. e = Courant
    BY DEF e
  <2>8. QED  BY <1>1, <1>2, <2>1, <2>3, <2>4, <2>5, <2>6, <2>7, Continue
<1>7. CASE PinceCommande
  <2> DEFINE f == [e EXCEPT !.attend = "getTime"]
  <2>1. Courant.op = "pince" /\ Consomme
    BY <1>7, AttenteLibre DEF PinceCommande
  <2>2. Fiche(f, e.op, e.pos, e.arg, e.objet, e.lues, "getTime")
    BY <1>2, <1>3, Changee DEF Ops
  <2>3. /\ Remplace(<<f>>) /\ Demande("getTime", Simple)
        /\ entree' = entree /\ lot' = lot
    BY <1>7 DEF PinceCommande
  <2>4. Discret /\ TypesMemoire'
    BY <1>7 DEF PinceCommande, Discret, TypesMemoire, varsMemoire
  <2> HIDE DEF f
  <2>5. EtapeJuste(f)
    BY <1>2, <2>1, <2>2 DEF EtapeJuste, Fiche, OpsPoste, OpsObjet, Lectures
  <2>6. Interroge(f)
    BY <1>3, <1>4, <2>2, <2>3, Demandee DEF Fiche
  <2>7. Mene(Courant.op, f.op) /\ f \in EtapeType /\ f.pos = Courant.pos
    BY <2>1, <2>2 DEF Fiche, Mene
  <2>8. QED  BY <1>1, <2>1, <2>3, <2>4, <2>5, <2>6, <2>7, Continue
<1>8. CASE PinceAttend
  <2> DEFINE f == [e EXCEPT !.op = "serrage"]
  <2>1. Courant.op \in {"pince", "serrage"} /\ Consomme /\ Courant.attend = "getTime"
    BY <1>3, <1>8, AttenteRecue DEF PinceAttend
  <2>2. Fiche(f, "serrage", e.pos, e.arg, e.objet, e.lues, "getTime")
    BY <1>2, <1>3, <2>1, Changee DEF Ops
  <2>3. /\ Remplace(<<f>>) /\ Demande("getTime", Simple)
        /\ entree' = entree /\ lot' = lot
    BY <1>8 DEF PinceAttend, Recu
  <2>4. Discret /\ TypesMemoire'
    BY <1>8 DEF PinceAttend, Recu, Discret, TypesMemoire, varsMemoire
  <2> HIDE DEF f
  <2>5. EtapeJuste(f)
    BY <1>2, <2>1, <2>2 DEF EtapeJuste, Fiche, OpsPoste, OpsObjet, Lectures
  <2>6. Interroge(f)
    BY <1>3, <1>4, <2>2, <2>3, Demandee DEF Fiche
  <2>7. Mene(Courant.op, f.op) /\ f \in EtapeType /\ f.pos = Courant.pos
    BY <2>1, <2>2 DEF Fiche, Mene
  <2>8. QED  BY <1>1, <2>1, <2>3, <2>4, <2>5, <2>6, <2>7, Continue
<1>9. CASE InitDemande
  <2> DEFINE f == [e EXCEPT !.attend = "getObjectHandle"]
  <2>1. Courant.op = "init" /\ Consomme
    BY <1>9, AttenteLibre DEF InitDemande
  <2>2. Fiche(f, e.op, e.pos, e.arg, e.objet, e.lues, "getObjectHandle")
    BY <1>2, <1>3, Changee DEF Ops
  <2>3. /\ Remplace(<<f>>) /\ Demande("getObjectHandle", Simple)
        /\ entree' = entree /\ lot' = lot
    BY <1>9 DEF InitDemande
  <2>4. Discret /\ TypesMemoire'
    BY <1>9 DEF InitDemande, Discret, TypesMemoire, varsMemoire
  <2> HIDE DEF f
  <2>5. EtapeJuste(f)
    BY <1>2, <2>1, <2>2 DEF EtapeJuste, Fiche, OpsPoste, OpsObjet, Lectures
  <2>6. Interroge(f)
    BY <1>3, <1>4, <2>2, <2>3, Demandee DEF Fiche
  <2>7. Mene(Courant.op, f.op) /\ f \in EtapeType /\ f.pos = Courant.pos
    BY <2>1, <2>2 DEF Fiche, Mene
  <2>8. QED  BY <1>1, <2>1, <2>3, <2>4, <2>5, <2>6, <2>7, Continue
<1>10. QED  BY <1>5, <1>6, <1>7, <1>8, <1>9

-----------------------------------------------------------------------------
(* The readings: the answer that is asked for is the next one of the step. *)
LEMMA LectureSuite ==
    ASSUME TypesFiles, TypesMemoire, LireCouleur \/ CouleurRecue
    PROVE  MemeSuite /\ Discret /\ TypesMemoire'
<1> DEFINE e == Courant
<1>1. appels # <<>> /\ Courant.op \in Lectures
  BY DEF LireCouleur, LectureLibre, CouleurRecue, Recu, Actif, Courant
<1>2. /\ e \in EtapeType /\ EtapeJuste(e) /\ e.arg \in 0..(10 + NB_CUBE)
      /\ e.lues \in LuesType /\ e.objet \in Objets /\ e.op \in Ops
      /\ e.lues \in Seq(Couleurs) /\ Len(e.lues) <= NB_CUBE
  BY <1>1, Tete, SuitesDeLues DEF EtapeJuste, OpsObjet
<1>3. "getColor" \in Canaux
  BY DEF Canaux
<1>4. e.op \notin {"lot", "verifier", "update", "retour", "confirmer", "peindreFin"}
  BY <1>1 DEF Lectures
<1>5. CASE LireCouleur
  <2> DEFINE f == [e EXCEPT !.attend = "getColor"]
             n == Len(e.lues) + 1
             q == Requete(e.objet, n, SansCube, Pose(0, 0))
  <2>1. Courant.attend = "" /\ Consomme
    BY <1>5 DEF LireCouleur, LectureLibre, Consomme
  <2>2. Fiche(f, e.op, e.pos, e.arg, e.objet, e.lues, "getColor")
    BY <1>2, <1>3, Changee DEF Ops
  <2>3. Len(e.lues) < NB_CUBE /\ Len(e.lues) + 1 \in 0..NB_CUBE
    BY <1>2, <1>5, Constantes DEF LireCouleur, Lu
  <2>4. q \in RequeteType /\ q.objet = e.objet /\ q.rang = n
    <3>1. /\ e.objet \in Objets \cup {""} /\ SansCube \in Cubes
          /\ Pose(0, 0) \in PoseType /\ n \in 0..NB_CUBE
      BY <1>2, <2>3, Constantes
    <3> HIDE DEF n
    <3>2. QED  BY <3>1 DEF Requete, RequeteType
  <2>5. /\ Remplace(<<f>>) /\ Demande("getColor", q)
        /\ entree' = entree /\ lot' = lot
    BY <1>5 DEF LireCouleur, VarsSansFile
  <2>6. Discret /\ TypesMemoire'
    BY <1>5 DEF LireCouleur, VarsSansFile, Discret, TypesMemoire, varsMemoire
  <2> HIDE DEF f, q
  <2>7. EtapeJuste(f)
    BY <1>1, <1>2, <2>2, <2>3 DEF EtapeJuste, Fiche, Lectures
  <2>8. q \in RequeteCouleur /\ Pour(f, q)
    BY <1>2, <1>4, <2>2, <2>4 DEF RequeteCouleur, Pour, RangDemande, Fiche
  <2>9. Interroge(f)
    BY <2>2, <2>5, <2>8, DemandeeCouleur DEF Fiche
  <2>10. Mene(Courant.op, f.op) /\ f \in EtapeType /\ f.pos = Courant.pos
    BY <2>2 DEF Fiche, Mene
  <2>11. QED  BY <1>1, <1>4, <2>1, <2>5, <2>6, <2>7, <2>9, <2>10, Continue
<1>6. CASE CouleurRecue
  <2> DEFINE l == Append(e.lues, valeur.couleur)
             f == [e EXCEPT !.lues = l, !.attend = ""]
  <2>1. Courant.attend = "getColor" /\ Consomme
    BY <1>3, <1>6, AttenteRecue DEF CouleurRecue
  <2>2. Len(e.lues) < NB_CUBE /\ valeur.couleur \in Couleurs
    BY <1>1, <1>2, <2>1 DEF EtapeJuste, TypesMemoire, ValeurType
  <2>3. l \in Seq(Couleurs) /\ Len(l) = Len(e.lues) + 1
    BY <1>2, <2>2
  <2>4. Remplace(<<f>>) /\ entree' = entree /\ lot' = lot /\ requetes' = requetes
    BY <1>6 DEF CouleurRecue, varsTopics
  <2>5. Discret /\ TypesMemoire'
    BY <1>6 DEF CouleurRecue, Recu, varsTopics, Discret, TypesMemoire, varsMemoire
  <2> HIDE DEF l
  <2>6. l \in LuesType
    <3>1. Len(l) <= NB_CUBE
      BY <1>2, <2>2, <2>3, Constantes
    <3>2. QED  BY <2>3, <3>1, SuitesDeLues
  <2>7. Fiche(f, e.op, e.pos, e.arg, e.objet, l, "")
    BY <1>2, <2>6, Changee
  <2> HIDE DEF f
  <2>8. EtapeJuste(f)
    BY <1>1, <1>2, <1>4, <2>7 DEF EtapeJuste, Fiche
  <2>9. Interroge(f)
    BY <2>4, <2>7 DEF Interroge, Fiche
  <2>10. Mene(Courant.op, f.op) /\ f \in EtapeType /\ f.pos = Courant.pos
    BY <2>7 DEF Fiche, Mene
  <2>11. QED  BY <1>1, <1>4, <2>1, <2>4, <2>5, <2>8, <2>9, <2>10, Continue
<1>7. QED  BY <1>5, <1>6

(* A step that begins to read a place. *)
LEMMA LectureDebut ==
    ASSUME TypesFiles, appels # <<>>, NEW op \in Lectures, NEW b \in Objets,
           Mene(Courant.op, op), Courant.op \notin {"lot", "verifier", "update", "retour"},
           op \in OpsPoste => Courant.pos \in PositionsPoste,
           Remplace(<<Lire(op, Courant.pos, b)>>),
           entree' = entree, lot' = lot, requetes' = requetes, Consomme
    PROVE  MemeSuite
<1> DEFINE f == Lire(op, Courant.pos, b)
<1>1. Courant.pos \in 0..4 /\ op \in Ops
  BY Tete DEF Ops
<1>2. Fiche(f, op, Courant.pos, 0, b, <<>>, "")
  <2>1. \A x \in Objets : Fiche([Etape(op, Courant.pos, 0) EXCEPT !.objet = x],
                              op, Courant.pos, 0, x, <<>>, "")
    <3>1. 0 \in 0..10
      OBVIOUS
    <3>2. QED  BY ONLY <1>1, <3>1, Nouvelle
  <2>2. QED  BY <2>1 DEF Lire
<1>3. Remplace(<<f>>)
  OBVIOUS
<1> HIDE DEF f
<1>4. EtapeJuste(f)
  BY <1>2 DEF EtapeJuste, Fiche, Lectures
<1>5. Interroge(f)
  BY <1>2 DEF Interroge, Fiche
<1>6. Mene(Courant.op, f.op) /\ f \in EtapeType /\ f.pos = Courant.pos
  BY <1>2 DEF Fiche
<1>7. QED  BY <1>3, <1>4, <1>5, <1>6, Continue

LEMMA DebutsDeLecture ==
    ASSUME TypesFiles, TypesMemoire, TypesScene,
           ColorerNavette \/ TacheHeure \/ Evacuer
             \/ (ColorerPoste /\ ~tache[Courant.pos])
    PROVE  MemeSuite /\ Discret /\ TypesMemoire'
<1>1. CASE ColorerNavette
  <2>1. PICK op \in {"prise", "pose"} :
          /\ Libre(op)
          /\ Courant.pos \in PositionsNavette
          /\ navette[Courant.pos] # AucuneNavette
          /\ Remplace(<<Lire(LectureDe(op), Courant.pos, navette[Courant.pos])>>)
          /\ UNCHANGED <<varsTopics, lot, rep, valeur, varsMemoire>>
    BY <1>1 DEF ColorerNavette, Colorer
  <2>2. Courant.op = op /\ appels # <<>> /\ Consomme
    BY <2>1, AttenteLibre
  <2>3. navette[Courant.pos] \in Objets
    BY <2>1, Constantes DEF TypesScene
  <2>4. /\ LectureDe(op) \in Lectures /\ Mene(op, LectureDe(op))
        /\ LectureDe(op) \notin OpsPoste
        /\ op \notin {"lot", "verifier", "update", "retour"}
    BY DEF LectureDe, Lectures, Mene, OpsPoste
  <2>5. MemeSuite
    BY <2>1, <2>2, <2>3, <2>4, LectureDebut DEF varsTopics
  <2>6. QED  BY <2>1, <2>5 DEF Discret, TypesMemoire, varsMemoire, varsTopics
<1>2. CASE TacheHeure
  <2>1. "getTime" \in Canaux
    BY DEF Canaux
  <2>2. Courant.op = "tache" /\ appels # <<>> /\ Consomme
    BY <1>2, <2>1, AttenteRecue DEF TacheHeure
  <2>3. Courant.pos \in PositionsPoste /\ NomPoste(Courant.pos) \in Objets
    BY <2>2, Tete, Constantes DEF EtapeJuste, OpsPoste
  <2>4. "lireDebut" \in Lectures /\ Mene("tache", "lireDebut")
    BY DEF Lectures, Mene
  <2>5. MemeSuite
    BY <1>2, <2>2, <2>3, <2>4, LectureDebut DEF TacheHeure, varsTopics
  <2>6. QED  BY <1>2, <2>5 DEF TacheHeure, Recu, Discret, TypesMemoire, varsMemoire, varsTopics
<1>3. CASE Evacuer
  <2>1. Courant.op = "evacuer" /\ appels # <<>> /\ Consomme
    BY <1>3, AttenteLibre DEF Evacuer
  <2>2. NomPoste(Courant.pos) \in Objets
    BY DEF NomPoste, Objets
  <2>3. "lireEvac" \in Lectures /\ Mene("evacuer", "lireEvac") /\ "lireEvac" \notin OpsPoste
    BY DEF Lectures, Mene, OpsPoste
  <2>4. MemeSuite
    BY <1>3, <2>1, <2>2, <2>3, LectureDebut DEF Evacuer, varsTopics
  <2>5. QED  BY <1>3, <2>4 DEF Evacuer, Discret, TypesMemoire, varsMemoire, varsTopics
<1>4. CASE ColorerPoste /\ ~tache[Courant.pos]
  <2>1. PICK op \in {"prise", "pose"} :
          /\ Libre(op)
          /\ Courant.pos \in PositionsPoste
          /\ Remplace(<<Lire(LectureDe(op), Courant.pos, NomPoste(Courant.pos))>>)
          /\ UNCHANGED <<erreurs, tache, retour, sortie>>
          /\ UNCHANGED <<requetes, entree, cmdPince, lot, rep, valeur, Rpos,
                         couleur_transportee, evacues>>
    BY <1>4 DEF ColorerPoste, Colorer
  <2>2. Courant.op = op /\ appels # <<>> /\ Consomme
    BY <2>1, AttenteLibre
  <2>3. NomPoste(Courant.pos) \in Objets
    BY DEF NomPoste, Objets
  <2>4. /\ LectureDe(op) \in Lectures /\ Mene(op, LectureDe(op))
        /\ LectureDe(op) \notin OpsPoste
        /\ op \notin {"lot", "verifier", "update", "retour"}
    BY DEF LectureDe, Lectures, Mene, OpsPoste
  <2>5. MemeSuite
    BY <2>1, <2>2, <2>3, <2>4, LectureDebut
  <2>6. QED  BY <2>1, <2>5 DEF Discret, TypesMemoire
<1>5. QED  BY <1>1, <1>2, <1>3, <1>4

(* A step that writes a whole stack of cubes and waits.                    *)
LEMMA PeindreSuite ==
    ASSUME TypesFiles, NEW op \in Lectures, Libre(op), rep' = rep,
           NEW q \in Ops, q \in OpsObjet \ Lectures, q # "confirmer", Mene(op, q),
           q \in OpsPoste => op \in OpsPoste,
           NEW rang \in 0..NB_CUBE, NEW contenu \in Cubes, Peindre(q, rang, contenu),
           entree' = entree, lot' = lot
    PROVE  MemeSuite
<1> DEFINE e == Courant
           c == CanalPeinture(e.objet)
           f == [e EXCEPT !.op = q, !.arg = rang, !.attend = c]
           r == Requete(e.objet, 0, contenu, Pose(0, 0))
<1>1. appels # <<>> /\ e.op = op /\ Consomme
  BY AttenteLibre
<1>2. /\ e \in EtapeType /\ EtapeJuste(e) /\ e.objet \in Objets
      /\ e.lues \in LuesType
  BY <1>1, Tete DEF EtapeJuste, OpsObjet
<1>3. c \in Canaux \ {"getColor"}
  BY DEF CanalPeinture, Canaux
<1>4. rang \in 0..(10 + NB_CUBE)
  BY Constantes
<1>5. Fiche(f, q, e.pos, rang, e.objet, e.lues, c)
  BY <1>2, <1>3, <1>4, Changee
<1>6. r \in RequeteType
  BY <1>2, Constantes DEF Requete, RequeteType
<1>7. Remplace(<<f>>) /\ Demande(c, r)
  BY DEF Peindre
<1> HIDE DEF c, f, r
<1>8. q \notin Lectures \cup {"consigne", "sonder", "pince", "serrage", "retour", "lot",
                              "verifier", "update"}
  BY DEF OpsObjet, Lectures
<1>9. EtapeJuste(f)
  <2>1. f.arg <= NB_CUBE
    BY <1>5, Constantes DEF Fiche
  <2>2. f.op \in OpsPoste => f.pos \in PositionsPoste
    BY <1>1, <1>2, <1>5 DEF EtapeJuste, Fiche
  <2>3. QED  BY <1>2, <1>3, <1>5, <1>8, <2>1, <2>2 DEF EtapeJuste, Fiche
<1>10. Interroge(f)
  BY <1>3, <1>5, <1>6, <1>7, Demandee DEF Fiche
<1>11. Mene(Courant.op, f.op) /\ f \in EtapeType /\ f.pos = Courant.pos
  BY <1>1, <1>5 DEF Fiche
<1>12. Courant.op \notin {"lot", "verifier", "update", "retour"}
  BY <1>1 DEF Lectures
<1>13. QED  BY <1>1, <1>7, <1>9, <1>10, <1>11, <1>12, Continue

LEMMA Empilements ==
    ASSUME NEW s \in LuesType
    PROVE  /\ Complete(s) \in Cubes
           /\ \A x \in Couleurs : \A n : [Complete(s) EXCEPT ![n] = x] \in Cubes
           /\ \A x \in Couleurs : \A n :
                [i \in 1..NB_CUBE |-> IF i = n THEN x ELSE Complete(s)[i]] \in Cubes
<1>1. s \in Seq(Couleurs) /\ Len(s) <= NB_CUBE /\ NB_CUBE \in Nat /\ 0 \in Couleurs
  BY SuitesDeLues, Constantes
<1>2. \A i \in 1..NB_CUBE : (IF i <= Len(s) THEN s[i] ELSE 0) \in Couleurs
  BY <1>1
<1>3. Complete(s) \in Cubes
  BY <1>2 DEF Complete, Cubes
<1>4. QED  BY <1>3 DEF Cubes

LEMMA PeinturesSuite ==
    ASSUME TypesFiles, TypesMemoire,
           ColorerPeint \/ TacheColore \/ FinTask \/ EvacuerEfface
    PROVE  MemeSuite /\ Discret /\ TypesMemoire'
<1>1. Lectures \subseteq OpsObjet /\ Lectures \subseteq Ops
  BY DEF OpsObjet, Ops
<1>2. 0 \in 0..NB_CUBE
  BY Constantes
<1>3. CASE ColorerPeint
  <2>1. entree' = entree /\ lot' = lot /\ rep' = rep /\ couleur_transportee \in Cubes
    BY <1>3 DEF ColorerPeint, VarsSansFile, TypesMemoire
  <2>2. ASSUME Libre("lirePrise"), Peindre("peindrePrise", 0, couleur_transportee)
        PROVE  MemeSuite
    <3>1. /\ "lirePrise" \in Lectures /\ Mene("lirePrise", "peindrePrise")
          /\ "peindrePrise" \in Ops /\ "peindrePrise" \in OpsObjet \ Lectures
          /\ "peindrePrise" \notin OpsPoste
      BY DEF Lectures, Ops, OpsObjet, OpsPoste, Mene
    <3>2. QED  BY <1>2, <2>1, <2>2, <3>1, PeindreSuite
  <2>3. ASSUME Libre("lirePose"), Peindre("peindrePose", 0, couleur_transportee)
        PROVE  MemeSuite
    <3>1. /\ "lirePose" \in Lectures /\ Mene("lirePose", "peindrePose")
          /\ "peindrePose" \in Ops /\ "peindrePose" \in OpsObjet \ Lectures
          /\ "peindrePose" \notin OpsPoste
      BY DEF Lectures, Ops, OpsObjet, OpsPoste, Mene
    <3>2. QED  BY <1>2, <2>1, <2>3, <3>1, PeindreSuite
  <2>4. MemeSuite
    BY <1>3, <2>2, <2>3 DEF ColorerPeint
  <2>5. QED
    BY <1>3, <2>4 DEF ColorerPeint, VarsSansFile, Discret, TypesMemoire, varsMemoire
<1>4. CASE TacheColore
  <2> DEFINE x == [Complete(Courant.lues) EXCEPT
                     ![Len(Courant.lues)] = CouleurEnCours(Courant.pos)]
  <2>1. /\ entree' = entree /\ lot' = lot /\ rep' = rep
        /\ Libre("lireDebut") /\ Peindre("peindreDebut", 0, x)
    BY <1>4 DEF TacheColore, VarsSansFile
  <2>2. appels # <<>> /\ Courant.op = "lireDebut"
    BY <2>1 DEF Libre, Actif, Courant
  <2>3. Courant.pos \in PositionsPoste /\ Courant.lues \in LuesType
    BY <2>2, Tete DEF EtapeJuste, OpsPoste
  <2>4. x \in Cubes
    BY <2>3, Constantes, Empilements
  <2>5. /\ "lireDebut" \in Lectures /\ Mene("lireDebut", "peindreDebut")
        /\ "peindreDebut" \in Ops /\ "peindreDebut" \in OpsObjet \ Lectures
        /\ "lireDebut" \in OpsPoste
    BY DEF Lectures, Ops, OpsObjet, OpsPoste, Mene
  <2> HIDE DEF x
  <2>6. MemeSuite
    BY <1>2, <2>1, <2>4, <2>5, PeindreSuite
  <2>7. QED
    BY <1>4, <2>6 DEF TacheColore, VarsSansFile, Discret, TypesMemoire, varsMemoire
<1>5. CASE FinTask
  <2> DEFINE n == DernierCube(Courant.lues)
             x == [i \in 1..NB_CUBE |-> IF i = n THEN CouleurTache(Courant.pos)
                                        ELSE Complete(Courant.lues)[i]]
  <2>1. /\ entree' = entree /\ lot' = lot /\ rep' = rep
        /\ Libre("lireFin") /\ Peindre("peindreFin", n, x) /\ Lu(Courant)
    BY <1>5 DEF FinTask, VarsSansFile
  <2>2. appels # <<>> /\ Courant.op = "lireFin"
    BY <2>1 DEF Libre, Actif, Courant
  <2>3. Courant.pos \in PositionsPoste /\ Courant.lues \in LuesType
    BY <2>2, Tete DEF EtapeJuste, OpsPoste
  <2>4. x \in Cubes
    BY <2>3, Constantes, Empilements
  <2>5. n \in 0..NB_CUBE
    <3>1. Courant.lues \in Seq(Couleurs) /\ Len(Courant.lues) <= NB_CUBE
      BY <2>3, SuitesDeLues
    <3>2. Len(Courant.lues) >= 1
      BY <2>1, <3>1, Constantes DEF Lu
    <3>3. QED  BY <3>1, <3>2, Constantes DEF DernierCube
  <2>6. /\ "lireFin" \in Lectures /\ Mene("lireFin", "peindreFin")
        /\ "peindreFin" \in Ops /\ "peindreFin" \in OpsObjet \ Lectures
        /\ "lireFin" \in OpsPoste
    BY DEF Lectures, Ops, OpsObjet, OpsPoste, Mene
  <2> HIDE DEF n, x
  <2>7. MemeSuite
    BY <2>1, <2>4, <2>5, <2>6, PeindreSuite
  <2>8. QED
    BY <1>5, <2>7 DEF FinTask, VarsSansFile, Discret, TypesMemoire, varsMemoire
<1>6. CASE EvacuerEfface
  <2>1. /\ entree' = entree /\ lot' = lot /\ rep' = rep
        /\ Libre("lireEvac") /\ Peindre("peindreEvac", 0, SansCube)
    BY <1>6 DEF EvacuerEfface, VarsSansFile
  <2>2. /\ "lireEvac" \in Lectures /\ Mene("lireEvac", "peindreEvac")
        /\ "peindreEvac" \in Ops /\ "peindreEvac" \in OpsObjet \ Lectures
        /\ "peindreEvac" \notin OpsPoste
    BY DEF Lectures, Ops, OpsObjet, OpsPoste, Mene
  <2>3. MemeSuite
    BY <1>2, <2>1, <2>2, Constantes, PeindreSuite
  <2>4. QED
    BY <1>6, <2>3 DEF EvacuerEfface, VarsSansFile, Discret, TypesMemoire
<1>7. QED  BY <1>3, <1>4, <1>5, <1>6

LEMMA TachesSuite ==
    ASSUME TypesFiles, TypesMemoire,
           FaireTache \/ FinTaskPeint \/ Confirmer \/ PasEncoreCouleur
    PROVE  MemeSuite /\ Discret /\ TypesMemoire'
<1> DEFINE e == Courant
<1>1. appels # <<>>
  BY DEF FaireTache, FinTaskPeint, Confirmer, PasEncoreCouleur, Libre, Peint, Recu, Actif
<1>2. /\ e \in EtapeType /\ EtapeJuste(e) /\ e.arg \in 0..(10 + NB_CUBE)
      /\ e.lues \in LuesType /\ e.op \in Ops
  BY <1>1, Tete
<1>3. /\ "getTime" \in Canaux \ {"getColor"} /\ "getColor" \in Canaux
      /\ {"changeColor", "changeShuttleColor"} \subseteq Canaux
  BY DEF Canaux
<1>4. CASE FaireTache
  <2> DEFINE f == [e EXCEPT !.attend = "getTime"]
  <2>1. Courant.op = "tache" /\ Consomme
    BY <1>4, AttenteLibre DEF FaireTache
  <2>2. Fiche(f, e.op, e.pos, e.arg, e.objet, e.lues, "getTime")
    BY <1>2, <1>3, Changee
  <2>3. /\ Remplace(<<f>>) /\ Demande("getTime", Simple)
        /\ entree' = entree /\ lot' = lot
    BY <1>4 DEF FaireTache, VarsSansFile
  <2>4. Discret /\ TypesMemoire'
    BY <1>4 DEF FaireTache, VarsSansFile, Discret, TypesMemoire, varsMemoire
  <2> HIDE DEF f
  <2>5. EtapeJuste(f)
    BY <1>2, <2>1, <2>2 DEF EtapeJuste, Fiche, OpsPoste, OpsObjet, Lectures
  <2>6. Interroge(f)
    BY <1>3, <2>2, <2>3, Demandee, Constantes DEF Fiche
  <2>7. Mene(Courant.op, f.op) /\ f \in EtapeType /\ f.pos = Courant.pos
    BY <2>1, <2>2 DEF Fiche, Mene
  <2>8. QED  BY <1>1, <2>1, <2>3, <2>4, <2>5, <2>6, <2>7, Continue
<1>5. CASE FinTaskPeint
  <2> DEFINE f == [e EXCEPT !.op = "confirmer", !.attend = ""]
  <2>1. Courant.op = "peindreFin" /\ Consomme
    BY <1>3, <1>5, AttenteRecue DEF FinTaskPeint, Peint
  <2>2. Fiche(f, "confirmer", e.pos, e.arg, e.objet, e.lues, "")
    BY <1>2, Changee DEF Ops
  <2>3. Remplace(<<f>>) /\ requetes' = requetes /\ entree' = entree /\ lot' = lot
    BY <1>5 DEF FinTaskPeint, varsTopics
  <2>4. Discret /\ TypesMemoire'
    BY <1>3, <1>5 DEF FinTaskPeint, Peint, Recu, varsTopics, Discret, TypesMemoire, varsMemoire
  <2> HIDE DEF f
  <2>5. EtapeJuste(f)
    BY <1>2, <2>1, <2>2 DEF EtapeJuste, Fiche, OpsPoste, OpsObjet, Lectures
  <2>6. Interroge(f)
    BY <2>2, <2>3 DEF Interroge, Fiche
  <2>7. Mene(Courant.op, f.op) /\ f \in EtapeType /\ f.pos = Courant.pos
    BY <2>1, <2>2 DEF Fiche, Mene
  <2>8. QED  BY <1>1, <2>1, <2>3, <2>4, <2>5, <2>6, <2>7, Continue
<1>6. CASE Confirmer
  <2> DEFINE f == [e EXCEPT !.attend = "getColor"]
             q == Requete(e.objet, e.arg, SansCube, Pose(0, 0))
  <2>1. Courant.op = "confirmer" /\ Consomme
    BY <1>6, AttenteLibre DEF Confirmer
  <2>2. Fiche(f, e.op, e.pos, e.arg, e.objet, e.lues, "getColor")
    BY <1>2, <1>3, Changee
  <2>3. e.objet \in Objets /\ e.arg \in 0..NB_CUBE
    <3>1. e.arg <= NB_CUBE /\ e.objet \in Objets
      BY <1>2, <2>1 DEF EtapeJuste, OpsObjet
    <3>2. e.arg \in Nat /\ NB_CUBE \in Nat
      BY <1>2, Constantes
    <3>3. QED  BY <3>1, <3>2
  <2>4. q \in RequeteCouleur /\ q.objet = e.objet /\ q.rang = e.arg
    BY <2>3, Constantes DEF Requete, RequeteType, RequeteCouleur
  <2>5. /\ Remplace(<<f>>) /\ Demande("getColor", q)
        /\ entree' = entree /\ lot' = lot
    BY <1>6 DEF Confirmer, VarsSansFile
  <2>6. Discret /\ TypesMemoire'
    BY <1>6 DEF Confirmer, VarsSansFile, Discret, TypesMemoire, varsMemoire
  <2> HIDE DEF f, q
  <2>7. EtapeJuste(f)
    BY <1>2, <2>1, <2>2 DEF EtapeJuste, Fiche, OpsPoste, OpsObjet, Lectures
  <2>8. Interroge(f)
    BY <2>1, <2>2, <2>4, <2>5, DemandeeCouleur DEF Fiche, Pour, RangDemande
  <2>9. Mene(Courant.op, f.op) /\ f \in EtapeType /\ f.pos = Courant.pos
    BY <2>1, <2>2 DEF Fiche, Mene
  <2>10. QED  BY <1>1, <2>1, <2>5, <2>6, <2>7, <2>8, <2>9, Continue
<1>7. CASE PasEncoreCouleur
  <2> DEFINE f == [e EXCEPT !.attend = ""]
  <2>1. Courant.op = "confirmer" /\ Consomme
    BY <1>3, <1>7, AttenteRecue DEF PasEncoreCouleur
  <2>2. Fiche(f, e.op, e.pos, e.arg, e.objet, e.lues, "")
    BY <1>2, Changee
  <2>3. Remplace(<<f>>) /\ requetes' = requetes /\ entree' = entree /\ lot' = lot
    BY <1>7 DEF PasEncoreCouleur, varsTopics
  <2>4. Discret /\ TypesMemoire'
    BY <1>3, <1>7 DEF PasEncoreCouleur, Recu, varsTopics, Discret, TypesMemoire, varsMemoire
  <2> HIDE DEF f
  <2>5. EtapeJuste(f)
    BY <1>2, <2>1, <2>2 DEF EtapeJuste, Fiche, OpsPoste, OpsObjet, Lectures
  <2>6. Interroge(f)
    BY <2>2, <2>3 DEF Interroge, Fiche
  <2>7. Mene(Courant.op, f.op) /\ f \in EtapeType /\ f.pos = Courant.pos
    BY <2>1, <2>2 DEF Fiche, Mene
  <2>8. QED  BY <1>1, <2>1, <2>3, <2>4, <2>5, <2>6, <2>7, Continue
<1>8. QED  BY <1>4, <1>5, <1>6, <1>7

-----------------------------------------------------------------------------
(* A callback that ends, and the code it returns.                          *)
FinMuette == Termine /\ Discret
FinCode(code) == Termine /\ sortie' = Append(sortie, code) /\ tache' = tache

LEMMA FinsDeMouvement ==
    ASSUME TypesFiles, TypesMemoire,
           PositionAtteinte \/ PinceDejaFaite \/ PinceFin \/ ColorerSansNavette \/ FinPrise
             \/ FinPose \/ EvacuerFin \/ TacheContinue
    PROVE  /\ FinMuette \/ \E code \in {2, 4, 5, 6, 7} : FinCode(code)
           /\ Courant.op # "update"
           /\ TypesMemoire'
<1>1. appels # <<>>
  BY DEF PositionAtteinte, PinceDejaFaite, PinceFin, ColorerSansNavette, FinPrise, FinPose,
         EvacuerFin, TacheContinue, Colorer, Peint, Libre, Recu, Actif
<1>2. EtapeJuste(Courant) /\ Courant.lues \in LuesType
  BY <1>1, Tete
<1>3. {"getJointState", "getTime", "changeColor", "changeShuttleColor"} \subseteq Canaux
  BY DEF Canaux
<1>4. CASE PositionAtteinte
  <2>1. Courant.op = "sonder" /\ Consomme
    BY <1>3, <1>4, AttenteRecue DEF PositionAtteinte
  <2>2. Courant.arg \in {2, 4, 5}
    BY <1>2, <2>1 DEF EtapeJuste
  <2>3. FinCode(Courant.arg)
    BY <1>1, <1>4, <2>1 DEF PositionAtteinte, Depile, Publie, FinCode, Termine
  <2>4. TypesMemoire'
    <3>1. retour' = Courant.arg /\ Courant.arg \in 0..10
      BY <1>4, <2>2 DEF PositionAtteinte, Publie
    <3>2. QED  BY <1>4, <3>1 DEF PositionAtteinte, Recu, TypesMemoire
  <2>5. QED  BY <2>1, <2>2, <2>3, <2>4
<1>5. CASE PinceDejaFaite
  <2>1. Courant.op = "pince" /\ Consomme
    BY <1>5, AttenteLibre DEF PinceDejaFaite
  <2>2. QED
    BY <1>1, <1>5, <2>1
    DEF PinceDejaFaite, Depile, FinMuette, Discret, Termine, TypesMemoire, varsMemoire
<1>6. CASE PinceFin
  <2>1. Courant.op = "serrage" /\ Consomme
    BY <1>3, <1>6, AttenteRecue DEF PinceFin
  <2>2. Courant.arg \in {6, 7}
    BY <1>2, <2>1 DEF EtapeJuste
  <2>3. FinCode(Courant.arg)
    BY <1>1, <1>6, <2>1 DEF PinceFin, Depile, Publie, FinCode, Termine
  <2>4. TypesMemoire'
    <3>1. retour' = Courant.arg /\ Courant.arg \in 0..10
      BY <1>6, <2>2 DEF PinceFin, Publie
    <3>2. QED  BY <1>6, <3>1 DEF PinceFin, Recu, TypesMemoire
  <2>5. QED  BY <2>1, <2>2, <2>3, <2>4
<1>7. CASE ColorerSansNavette
  <2>1. Courant.op \in {"prise", "pose"} /\ Consomme
    BY <1>7, AttenteLibre DEF ColorerSansNavette, Colorer
  <2>2. QED
    BY <1>1, <1>7, <2>1, Constantes
    DEF ColorerSansNavette, Depile, FinMuette, Discret, Termine, TypesMemoire, varsTopics
<1>8. CASE FinPrise
  <2>1. Courant.op = "peindrePrise" /\ Consomme
    BY <1>3, <1>8, AttenteRecue DEF FinPrise, Peint
  <2>2. Complete(Courant.lues) \in Cubes
    BY <1>2, Empilements
  <2>3. QED
    BY <1>1, <1>3, <1>8, <2>1, <2>2
    DEF FinPrise, Peint, Recu, Depile, FinMuette, Discret, Termine, TypesMemoire, varsTopics
<1>9. CASE FinPose
  <2>1. Courant.op = "peindrePose" /\ Consomme
    BY <1>3, <1>9, AttenteRecue DEF FinPose, Peint
  <2>2. QED
    BY <1>1, <1>3, <1>9, <2>1, Constantes
    DEF FinPose, Peint, Recu, Depile, FinMuette, Discret, Termine, TypesMemoire, varsTopics
<1>10. CASE EvacuerFin
  <2>1. Courant.op = "peindreEvac" /\ Consomme
    BY <1>3, <1>10, AttenteRecue DEF EvacuerFin, Peint
  <2>2. QED
    BY <1>1, <1>3, <1>10, <2>1
    DEF EvacuerFin, Peint, Recu, Depile, FinMuette, Discret, Termine, TypesMemoire,
        varsTopics, varsMemoire
<1>11. CASE TacheContinue
  <2>1. Courant.op = "verifier" /\ Consomme
    BY <1>11, AttenteLibre DEF TacheContinue
  <2>2. QED
    BY <1>1, <1>11, <2>1
    DEF TacheContinue, Depile, FinMuette, Discret, Termine, TypesMemoire, varsTopics, varsMemoire
<1>12. QED  BY <1>4, <1>5, <1>6, <1>7, <1>8, <1>9, <1>10, <1>11

LEMMA CodesDeTache ==
    \A p \in PositionsPoste : CodeTache(p) = IF p = 1 THEN 8 ELSE 9
BY DEF CodeTache

(* The ends the command waits for, and that of the initialisation.         *)
LEMMA FinsDOrdre ==
    ASSUME TypesFiles, TypesMemoire
    PROVE  /\ RetourFin => /\ Courant.op = "retour" /\ FinCode(10)
                           /\ TypesMemoire'
           /\ InitFin => /\ Courant.op = "init" /\ FinCode(0)
                         /\ TypesMemoire'
           /\ TacheImpossible \/ TacheTerminee =>
                /\ Courant.op \in {"lireDebut", "confirmer"}
                /\ Courant.pos \in PositionsPoste
                /\ FinCode(IF Courant.pos = 1 THEN 8 ELSE 9)
                /\ TypesMemoire'
<1>1. ASSUME RetourFin
      PROVE  Courant.op = "retour" /\ FinCode(10) /\ TypesMemoire'
  <2>1. Courant.op = "retour" /\ Consomme /\ appels # <<>>
    BY <1>1, AttenteLibre DEF RetourFin
  <2>2. Courant.arg = 10
    BY <2>1, Tete DEF EtapeJuste
  <2>3. QED
    BY <1>1, <2>1, <2>2 DEF RetourFin, Publie, Depile, FinCode, Termine, TypesMemoire
<1>2. ASSUME InitFin
      PROVE  Courant.op = "init" /\ FinCode(0) /\ TypesMemoire'
  <2>1. "getObjectHandle" \in Canaux
    BY DEF Canaux
  <2>2. Courant.op = "init" /\ Consomme /\ appels # <<>>
    BY <1>2, <2>1, AttenteRecue DEF InitFin
  <2>3. QED
    BY <1>2, <2>1, <2>2 DEF InitFin, Recu, Publie, Depile, FinCode, Termine, TypesMemoire
<1>3. ASSUME TacheImpossible
      PROVE  /\ Courant.op = "lireDebut" /\ Courant.pos \in PositionsPoste
             /\ FinCode(IF Courant.pos = 1 THEN 8 ELSE 9) /\ TypesMemoire'
  <2>1. Courant.op = "lireDebut" /\ Consomme /\ appels # <<>>
    BY <1>3, AttenteLibre DEF TacheImpossible
  <2>2. Courant.pos \in PositionsPoste
    BY <2>1, Tete DEF EtapeJuste, OpsPoste
  <2>3. CodeTache(Courant.pos) = IF Courant.pos = 1 THEN 8 ELSE 9
    BY <2>2, CodesDeTache
  <2>4. FinCode(CodeTache(Courant.pos))
    BY <1>3, <2>1 DEF TacheImpossible, Publie, Depile, FinCode, Termine
  <2>5. erreurs' \subseteq {1, 2, 3, 66} /\ retour' \in 0..10
    <3>1. erreurs' = erreurs \cup {1} \/ erreurs' = erreurs \cup {2}
      BY <1>3 DEF TacheImpossible
    <3>2. erreurs' \subseteq {1, 2, 3, 66}
      <4>1. erreurs \subseteq {1, 2, 3, 66}
        BY DEF TypesMemoire
      <4>2. QED  BY ONLY <3>1, <4>1
    <3>3. retour' = IF Courant.pos = 1 THEN 8 ELSE 9
      BY <1>3, <2>3 DEF TacheImpossible, Publie
    <3>4. QED  BY <3>2, <3>3
  <2>6. TypesMemoire'
    BY <1>3, <2>5 DEF TacheImpossible, TypesMemoire
  <2>7. QED  BY <2>1, <2>2, <2>3, <2>4, <2>6
<1>4. ASSUME TacheTerminee
      PROVE  /\ Courant.op = "confirmer" /\ Courant.pos \in PositionsPoste
             /\ FinCode(IF Courant.pos = 1 THEN 8 ELSE 9) /\ TypesMemoire'
  <2>1. "getColor" \in Canaux
    BY DEF Canaux
  <2>2. Courant.op = "confirmer" /\ Consomme /\ appels # <<>>
    BY <1>4, <2>1, AttenteRecue DEF TacheTerminee
  <2>3. Courant.pos \in PositionsPoste
    BY <2>2, Tete DEF EtapeJuste, OpsPoste
  <2>4. CodeTache(Courant.pos) = IF Courant.pos = 1 THEN 8 ELSE 9
    BY <2>3, CodesDeTache
  <2>5. QED
    BY <1>4, <2>1, <2>2, <2>3, <2>4
    DEF TacheTerminee, Recu, Publie, Depile, FinCode, Termine, TypesMemoire
<1>5. QED  BY <1>1, <1>2, <1>3, <1>4

LEMMA StopDeTache ==
    ASSUME TypesFiles, TypesMemoire, StopTache
    PROVE  /\ Courant.op = "stopTache" /\ Courant.pos \in PositionsPoste
           /\ Termine /\ sortie' = Append(sortie, IF Courant.pos = 1 THEN 8 ELSE 9)
           /\ tache' = [tache EXCEPT ![Courant.pos] = FALSE]
           /\ TypesMemoire'
<1>1. Courant.op = "stopTache" /\ Consomme /\ appels # <<>>
  BY AttenteLibre DEF StopTache
<1>2. Courant.pos \in PositionsPoste
  BY <1>1, Tete DEF EtapeJuste, OpsPoste
<1>3. CodeTache(Courant.pos) = IF Courant.pos = 1 THEN 8 ELSE 9
  BY <1>2, CodesDeTache
<1>4. QED
  BY <1>1, <1>2, <1>3 DEF StopTache, Publie, Depile, Termine, TypesMemoire

LEMMA DebutDeTache ==
    ASSUME TypesFiles, TypesMemoire, DebutTask
    PROVE  /\ Courant.op = "peindreDebut" /\ Courant.pos \in PositionsPoste
           /\ Termine /\ sortie' = sortie
           /\ tache' = [tache EXCEPT ![Courant.pos] = TRUE]
           /\ TypesMemoire'
<1>1. {"changeColor", "changeShuttleColor"} \subseteq Canaux
  BY DEF Canaux
<1>2. Courant.op = "peindreDebut" /\ Consomme /\ appels # <<>>
  BY <1>1, AttenteRecue DEF DebutTask, Peint
<1>3. Courant.pos \in PositionsPoste
  BY <1>2, Tete DEF EtapeJuste, OpsPoste
<1>4. QED
  BY <1>1, <1>2, <1>3 DEF DebutTask, Peint, Recu, Depile, Termine, TypesMemoire, varsTopics

(* The piece moved on a post whose task is not over.                       *)
LEMMA PieceSurTache ==
    ASSUME TypesFiles, TypesMemoire, ColorerPoste, tache[Courant.pos]
    PROVE  /\ MemeSuite /\ Courant.pos \in PositionsPoste
           /\ sortie' = Append(sortie, IF Courant.pos = 1 THEN 8 ELSE 9)
           /\ TypesMemoire'
<1>1. PICK op \in {"prise", "pose"} :
        /\ Libre(op)
        /\ Courant.pos \in PositionsPoste
        /\ Remplace(<<Lire(LectureDe(op), Courant.pos, NomPoste(Courant.pos))>>)
        /\ erreurs' = erreurs \cup {3}
        /\ tache' = [tache EXCEPT ![Courant.pos] = FALSE]
        /\ Publie(CodeTache(Courant.pos))
        /\ UNCHANGED <<requetes, entree, cmdPince, lot, rep, valeur, Rpos,
                       couleur_transportee, evacues>>
  BY DEF ColorerPoste, Colorer
<1>2. Courant.op = op /\ appels # <<>> /\ Consomme
  BY <1>1, AttenteLibre
<1>3. NomPoste(Courant.pos) \in Objets
  BY DEF NomPoste, Objets
<1>4. /\ LectureDe(op) \in Lectures /\ Mene(op, LectureDe(op))
      /\ LectureDe(op) \notin OpsPoste
      /\ op \notin {"lot", "verifier", "update", "retour"}
  BY DEF LectureDe, Lectures, Mene, OpsPoste
<1>5. MemeSuite
  BY <1>1, <1>2, <1>3, <1>4, LectureDebut
<1>6. CodeTache(Courant.pos) = IF Courant.pos = 1 THEN 8 ELSE 9
  BY <1>1, CodesDeTache
<1>7. QED  BY <1>1, <1>5, <1>6 DEF TypesMemoire, Publie

(* update finds a task over, and reads the post.                           *)
LEMMA TacheQuiFinit ==
    ASSUME TypesFiles, TypesMemoire, TacheEchue
    PROVE  /\ Courant.op = "verifier" /\ Courant.pos \in PositionsPoste
           /\ tache[Courant.pos] /\ tache' = [tache EXCEPT ![Courant.pos] = FALSE]
           /\ sortie' = sortie
           /\ \E f \in EtapeType : /\ Poursuit(f) /\ f.op = "lireFin"
                                   /\ f.pos = Courant.pos /\ f.attend = ""
           /\ TypesMemoire'
<1> DEFINE f == Lire("lireFin", Courant.pos, NomPoste(Courant.pos))
<1>1. Courant.op = "verifier" /\ Consomme /\ appels # <<>>
  BY AttenteLibre DEF TacheEchue
<1>2. Courant.pos \in PositionsPoste /\ Courant.pos \in 0..4 /\ NomPoste(Courant.pos) \in Objets
  BY <1>1, Tete, Constantes DEF EtapeJuste, OpsPoste
<1>3. Fiche(f, "lireFin", Courant.pos, 0, NomPoste(Courant.pos), <<>>, "")
  <2>1. \A x \in Objets : Fiche([Etape("lireFin", Courant.pos, 0) EXCEPT !.objet = x],
                              "lireFin", Courant.pos, 0, x, <<>>, "")
    <3>1. 0 \in 0..10 /\ "lireFin" \in Ops
      BY DEF Ops, Lectures
    <3>2. QED  BY ONLY <1>2, <3>1, Nouvelle
  <2>2. QED  BY <1>2, <2>1 DEF Lire
<1>4. Remplace(<<f>>)
  BY DEF TacheEchue
<1> HIDE DEF f
<1>5. EtapeJuste(f) /\ Travail(f)
  BY <1>2, <1>3 DEF EtapeJuste, Travail, Fiche
<1>6. Interroge(f)
  BY <1>3 DEF Interroge, Fiche, TacheEchue, varsTopics
<1>7. Poursuit(f)
  BY <1>1, <1>3, <1>4, <1>5, <1>6 DEF Poursuit, Remplace, Fiche, TacheEchue, varsTopics
<1>8. /\ tache[Courant.pos] /\ tache' = [tache EXCEPT ![Courant.pos] = FALSE]
      /\ sortie' = sortie /\ TypesMemoire'
  BY DEF TacheEchue, TypesMemoire, varsTopics
<1>9. QED  BY <1>1, <1>2, <1>3, <1>7, <1>8 DEF Fiche

-----------------------------------------------------------------------------
(* The stack after a step, element by element.                             *)
LEMMA PileChangee ==
    ASSUME NEW S, NEW s \in Seq(S), s # <<>>, NEW f \in S, NEW r, r = <<f>> \o Tail(s)
    PROVE  /\ r \in Seq(S) /\ Len(r) = Len(s) /\ Len(s) >= 1 /\ Len(s) \in Nat
           /\ r[1] = f
           /\ \A i \in 2..Len(s) : r[i] = s[i]
<1>1. Tail(s) \in Seq(S) /\ Len(Tail(s)) = Len(s) - 1 /\ Len(s) >= 1 /\ Len(s) \in Nat
  OBVIOUS
<1>2. \A i \in 1..(Len(s) - 1) : Tail(s)[i] = s[i + 1]
  OBVIOUS
<1>3. <<f>> \in Seq(S) /\ Len(<<f>>) = 1 /\ <<f>>[1] = f
  OBVIOUS
<1>4. /\ r \in Seq(S) /\ Len(r) = 1 + (Len(s) - 1)
      /\ \A i \in 1..(1 + (Len(s) - 1)) : r[i] = IF i <= 1 THEN <<f>>[i] ELSE Tail(s)[i - 1]
  BY <1>1, <1>3, ConcatProperties
<1>5. ASSUME NEW i \in 2..Len(s) PROVE r[i] = s[i]
  <2>1. i - 1 \in 1..(Len(s) - 1) /\ i \in 1..(1 + (Len(s) - 1)) /\ ~(i <= 1)
    BY <1>1
  <2>2. r[i] = Tail(s)[i - 1]
    BY <1>4, <2>1
  <2>3. Tail(s)[i - 1] = s[(i - 1) + 1]
    BY <1>2, <2>1
  <2>4. QED  BY <2>2, <2>3
<1>6. QED  BY <1>1, <1>3, <1>4, <1>5

LEMMA PileReduite ==
    ASSUME NEW S, NEW s \in Seq(S), s # <<>>, NEW r, r = Tail(s)
    PROVE  /\ r \in Seq(S) /\ Len(r) = Len(s) - 1 /\ Len(s) >= 1 /\ Len(s) \in Nat
           /\ \A i \in 1..Len(r) : i + 1 \in 1..Len(s) /\ r[i] = s[i + 1]
OBVIOUS

LEMMA PileChargee ==
    ASSUME NEW S, NEW s \in Seq(S), NEW t \in Seq(S), NEW r, r = t \o s
    PROVE  /\ r \in Seq(S) /\ Len(r) = Len(t) + Len(s) /\ Len(s) \in Nat /\ Len(t) \in Nat
           /\ \A i \in 1..Len(t) : r[i] = t[i]
           /\ \A i \in 1..Len(s) : r[i + Len(t)] = s[i]
           /\ \A i \in 1..Len(r) :
                \/ i \in 1..Len(t) /\ r[i] = t[i]
                \/ \E j \in 1..Len(s) : i = j + Len(t) /\ r[i] = s[j]
<1>1. /\ r \in Seq(S) /\ Len(r) = Len(t) + Len(s) /\ Len(s) \in Nat /\ Len(t) \in Nat
      /\ \A i \in 1..(Len(t) + Len(s)) : r[i] = IF i <= Len(t) THEN t[i] ELSE s[i - Len(t)]
  BY ConcatProperties
<1>2. ASSUME NEW i \in 1..Len(s)
      PROVE  r[i + Len(t)] = s[i]
  <2>1. i + Len(t) \in 1..(Len(t) + Len(s)) /\ ~(i + Len(t) <= Len(t))
    BY <1>1
  <2>2. r[i + Len(t)] = s[(i + Len(t)) - Len(t)]
    BY <1>1, <2>1
  <2>3. (i + Len(t)) - Len(t) = i
    BY <1>1
  <2>4. QED  BY <2>2, <2>3
<1>3. \A i \in 1..Len(t) : r[i] = t[i]
  BY <1>1
<1>4. ASSUME NEW i \in 1..Len(r)
      PROVE  \/ i \in 1..Len(t) /\ r[i] = t[i]
             \/ \E j \in 1..Len(s) : i = j + Len(t) /\ r[i] = s[j]
  <2>1. CASE i <= Len(t)
    BY <1>1, <1>3, <2>1
  <2>2. CASE ~(i <= Len(t))
    <3>1. i - Len(t) \in 1..Len(s) /\ i = (i - Len(t)) + Len(t)
      BY <1>1, <2>2
    <3>2. r[i] = s[i - Len(t)]
      BY <1>1, <2>2
    <3>3. QED  BY <3>1, <3>2
  <2>3. QED  BY <2>1, <2>2
<1>5. QED  BY <1>1, <1>2, <1>3, <1>4

LEMMA PilePoursuit ==
    ASSUME TypesFiles, NEW f, Poursuit(f)
    PROVE  /\ appels' \in Seq(EtapeType)
           /\ Len(appels') = Len(appels) /\ Len(appels) \in Nat /\ Len(appels) >= 1
           /\ appels'[1] = f
           /\ \A i \in 2..Len(appels) : appels'[i] = appels[i]
<1>1. appels \in Seq(EtapeType) /\ appels # <<>> /\ f \in EtapeType
  BY DEF TypesFiles, Poursuit
<1>2. appels' = <<f>> \o Tail(appels)
  BY DEF Poursuit
<1>3. QED  BY <1>1, <1>2, PileChangee

LEMMA PileTermine ==
    ASSUME TypesFiles, Termine
    PROVE  /\ appels' \in Seq(EtapeType)
           /\ Len(appels') = Len(appels) - 1 /\ Len(appels) \in Nat /\ Len(appels) >= 1
           /\ \A i \in 1..Len(appels') : i + 1 \in 1..Len(appels) /\ appels'[i] = appels[i + 1]
BY PileReduite DEF TypesFiles, Termine

LEMMA TypesInterroge ==
    ASSUME TypesFiles, NEW f, Interroge(f)
    PROVE  /\ requetes' \in [Canaux -> Seq(RequeteType)]
           /\ requetes'["getColor"] \in Seq(RequeteCouleur)
<1>1. /\ requetes \in [Canaux -> Seq(RequeteType)]
      /\ requetes["getColor"] \in Seq(RequeteCouleur)
      /\ "getColor" \in Canaux
  BY DEF TypesFiles, Canaux
<1>2. CASE requetes' = requetes
  BY <1>1, <1>2
<1>3. ASSUME f.attend \in Canaux, NEW q \in RequeteType,
             requetes' = [requetes EXCEPT ![f.attend] = Append(@, q)],
             f.attend = "getColor" => q \in RequeteCouleur
      PROVE  /\ requetes' \in [Canaux -> Seq(RequeteType)]
             /\ requetes'["getColor"] \in Seq(RequeteCouleur)
  <2>1. Append(requetes[f.attend], q) \in Seq(RequeteType)
    BY <1>1, <1>3
  <2>2. requetes' \in [Canaux -> Seq(RequeteType)]
    BY <1>1, <1>3, <2>1
  <2>3. CASE f.attend = "getColor"
    <3>1. requetes'["getColor"] = Append(requetes["getColor"], q)
      BY <1>1, <1>3, <2>3
    <3>2. QED  BY <1>1, <1>3, <2>2, <2>3, <3>1
  <2>4. CASE f.attend # "getColor"
    <3>1. requetes'["getColor"] = requetes["getColor"]
      BY <1>1, <1>3, <2>4
    <3>2. QED  BY <1>1, <2>2, <3>1
  <2>5. QED  BY <2>3, <2>4
<1>4. QED  BY <1>2, <1>3 DEF Interroge

LEMMA TypesPoursuit ==
    ASSUME TypesFiles, NEW f, Poursuit(f), sortie' \in Seq(0..10)
    PROVE  TypesFiles'
<1>1. /\ requetes' \in [Canaux -> Seq(RequeteType)]
      /\ requetes'["getColor"] \in Seq(RequeteCouleur)
  BY TypesInterroge DEF Poursuit
<1>2. ASSUME NEW i \in 1..Len(appels')
      PROVE  EtapeJuste(appels'[i])
  <2>1. CASE i = 1
    BY <2>1, PilePoursuit DEF Poursuit
  <2>2. CASE i # 1
    <3>1. i \in 2..Len(appels) /\ i \in 1..Len(appels)
      BY <2>2, PilePoursuit
    <3>2. QED  BY <3>1, PilePoursuit DEF TypesFiles
  <2>3. QED  BY <2>1, <2>2
<1>3. entree' = entree /\ lot' = lot
  BY DEF Poursuit
<1>4. QED  BY <1>1, <1>2, <1>3, PilePoursuit DEF TypesFiles

LEMMA TypesTermine ==
    ASSUME TypesFiles, Termine, sortie' \in Seq(0..10)
    PROVE  TypesFiles'
<1>1. \A i \in 1..Len(appels') : EtapeJuste(appels'[i])
  BY PileTermine DEF TypesFiles
<1>2. entree' = entree /\ lot' = lot /\ requetes' = requetes
  BY DEF Termine
<1>3. QED  BY <1>1, <1>2, PileTermine DEF TypesFiles

-----------------------------------------------------------------------------
(* The steps an order stands for.                                          *)
EtapeDOrdre(g, e) ==
    /\ e \in EtapeType /\ EtapeJuste(e) /\ e.attend = ""
    /\ Travail(e) /\ e.op # "update" /\ EtapeDe(g, e)

LEMMA EtapeNeuve ==
    ASSUME NEW g \in Genres, NEW o \in OpsDe(g), NEW p \in 0..4, NEW a \in 0..10,
           o \notin OpsObjet \cup {"consigne", "sonder", "serrage", "update"},
           o \in OpsPoste => p \in PositionsPoste,
           o = "pince" => a \in {6, 7},
           o = "retour" => a = 10,
           g \in {"tache1", "tache4"} => p = PosteDe(g)
    PROVE  EtapeDOrdre(g, Etape(o, p, a)) /\ Etape(o, p, a).op = o
<1> DEFINE e == Etape(o, p, a)
<1>1. o \in Ops /\ o \notin {"lot", "verifier"}
  <2>1. CASE g = "deplacer"
    BY <2>1, OpsDuGenre DEF Ops, Lectures
  <2>2. CASE g = "bras"
    BY <2>2, OpsDuGenre DEF Ops, Lectures
  <2>3. CASE g \in {"tache1", "tache4"}
    BY <2>3, OpsDuGenre DEF Ops, Lectures
  <2>4. CASE g \in {"evacuer", "stopTache"}
    BY <2>4, OpsDuGenre DEF Ops, Lectures
  <2>5. QED  BY <2>1, <2>2, <2>3, <2>4 DEF Genres
<1>2. Fiche(e, o, p, a, "", <<>>, "")
  BY <1>1, Nouvelle
<1> HIDE DEF e
<1>3. o \notin Lectures \cup {"peindreFin", "confirmer"}
  BY DEF OpsObjet
<1>4. EtapeJuste(e)
  BY <1>1, <1>2, <1>3 DEF EtapeJuste, Fiche
<1>5. Travail(e) /\ EtapeDe(g, e)
  BY <1>1, <1>2 DEF Travail, EtapeDe, Fiche
<1>6. EtapeDOrdre(g, e) /\ e.op = o
  BY <1>2, <1>4, <1>5 DEF EtapeDOrdre, Fiche
<1>7. QED  BY <1>6 DEF e

EtapesDOrdre(g, s) ==
    /\ s \in Seq(EtapeType) /\ Len(s) \in Nat
    /\ \A i \in 1..Len(s) : EtapeDOrdre(g, s[i])
    /\ Len(s) <= 1 \/ g \in {"deplacer", "bras"}
    /\ \A i \in 1..Len(s) : s[i].op = "retour" => i = Len(s)

LEMMA UneEtapeDOrdre ==
    ASSUME NEW g, NEW e, EtapeDOrdre(g, e)
    PROVE  EtapesDOrdre(g, <<e>>)
<1>1. e \in EtapeType
  BY DEF EtapeDOrdre
<1>2. /\ <<e>> \in Seq(EtapeType) /\ Len(<<e>>) = 1
      /\ \A i \in 1..Len(<<e>>) : <<e>>[i] = e /\ i = 1
  BY <1>1
<1>3. QED  BY <1>2 DEF EtapesDOrdre

LEMMA AucuneEtapeDOrdre ==
    ASSUME NEW g
    PROVE  EtapesDOrdre(g, <<>>)
BY DEF EtapesDOrdre

LEMMA EtapesDeplacer ==
    ASSUME NEW A \in Positions, NEW B \in Positions
    PROVE  EtapesDOrdre("deplacer", DeplacerPiece(A, B))
<1> DEFINE e1 == Etape("envoyer", A, 0)
           e2 == Etape("descendre", 0, 0)
           e3 == Etape("prise", A, 0)
           e4 == Etape("pince", 0, 6)
           e5 == Etape("monter", 0, 0)
           e6 == Etape("envoyer", B, 0)
           e7 == Etape("pose", B, 0)
           e8 == Etape("pince", 0, 7)
           e9 == Etape("retour", 0, 10)
           s == DeplacerPiece(A, B)
<1>1. A \in 0..4 /\ B \in 0..4 /\ "deplacer" \in Genres
  BY DEF Positions, PositionsPoste, PositionsNavette, Genres
<1>2. {"envoyer", "descendre", "prise", "pince", "monter", "pose", "retour"}
        \subseteq OpsDe("deplacer")
  BY OpsDuGenre
<1>3. \A o \in {"envoyer", "descendre", "prise", "pince", "monter", "pose", "retour"} :
        o \notin OpsObjet \cup {"consigne", "sonder", "serrage", "update"} /\ o \notin OpsPoste
  BY DEF OpsObjet, OpsPoste, Lectures
<1>4. \A o \in {"envoyer", "descendre", "prise", "monter", "pose"} : \A p \in 0..4 :
        EtapeDOrdre("deplacer", Etape(o, p, 0)) /\ Etape(o, p, 0).op = o
  <2>1. TAKE o \in {"envoyer", "descendre", "prise", "monter", "pose"}, p \in 0..4
  <2>2. /\ o \in OpsDe("deplacer") /\ o \notin {"pince", "retour"} /\ 0 \in 0..10
        /\ o \notin OpsObjet \cup {"consigne", "sonder", "serrage", "update"}
        /\ o \notin OpsPoste
    BY <1>2, <1>3
  <2>3. QED  BY <1>1, <2>2, EtapeNeuve
<1>5. /\ \A a \in {6, 7} : EtapeDOrdre("deplacer", Etape("pince", 0, a))
                           /\ Etape("pince", 0, a).op = "pince"
      /\ EtapeDOrdre("deplacer", Etape("retour", 0, 10))
  BY <1>1, <1>2, <1>3, EtapeNeuve
<1>6. /\ EtapeDOrdre("deplacer", e1) /\ EtapeDOrdre("deplacer", e2)
      /\ EtapeDOrdre("deplacer", e3) /\ EtapeDOrdre("deplacer", e4)
      /\ EtapeDOrdre("deplacer", e5) /\ EtapeDOrdre("deplacer", e6)
      /\ EtapeDOrdre("deplacer", e7) /\ EtapeDOrdre("deplacer", e8)
      /\ EtapeDOrdre("deplacer", e9)
  BY <1>1, <1>4, <1>5
<1>7. \A e \in {e1, e2, e3, e4, e5, e6, e7, e8} : e.op # "retour"
  BY <1>1, <1>4, <1>5
<1>8. s = <<e1, e2, e3, e4, e5, e6, e2, e7, e8, e5, e9>>
  BY DEF DeplacerPiece
<1> HIDE DEF e1, e2, e3, e4, e5, e6, e7, e8, e9, s
<1>9. Len(s) = 11 /\ \A i \in 1..11 : s[i] \in {e1, e2, e3, e4, e5, e6, e7, e8, e9}
  BY <1>8
<1>10. \A i \in 1..10 : s[i] \in {e1, e2, e3, e4, e5, e6, e7, e8}
  BY <1>8
<1>11. \A i \in 1..11 : EtapeDOrdre("deplacer", s[i])
  BY <1>6, <1>9
<1>12. \A i \in 1..11 : s[i].op = "retour" => i = 11
  BY <1>7, <1>10
<1>13. s \in Seq(EtapeType)
  <2>1. {e1, e2, e3, e4, e5, e6, e7, e8, e9} \subseteq EtapeType
    BY <1>6 DEF EtapeDOrdre
  <2>2. QED  BY ONLY <1>8, <2>1
<1>14. QED  BY <1>9, <1>11, <1>12, <1>13 DEF EtapesDOrdre, s

LEMMA EtapesControler ==
    ASSUME NEW p \in 0..4, NEW bras, NEW serre
    PROVE  EtapesDOrdre("bras", ControlerRobot(p, bras, serre))
<1> DEFINE o == IF bras = -1 THEN "descendre" ELSE "monter"
           a == IF serre = -1 THEN 7 ELSE 6
           e1 == Etape("envoyer", p, 0)
           e2 == Etape(o, 0, 0)
           e3 == Etape("pince", 0, a)
           s == ControlerRobot(p, bras, serre)
<1>1. "bras" \in Genres /\ {"envoyer", "descendre", "monter", "pince"} \subseteq OpsDe("bras")
  BY OpsDuGenre DEF Genres
<1>2. \A x \in {"envoyer", "descendre", "pince", "monter"} :
        x \notin OpsObjet \cup {"consigne", "sonder", "serrage", "update"} /\ x \notin OpsPoste
  BY DEF OpsObjet, OpsPoste, Lectures
<1>3. o \in {"descendre", "monter"} /\ a \in {6, 7}
  OBVIOUS
<1>4. \A x \in {"envoyer", "descendre", "monter"} : \A y \in 0..4 :
        EtapeDOrdre("bras", Etape(x, y, 0)) /\ Etape(x, y, 0).op = x
  BY <1>1, <1>2, EtapeNeuve
<1>5. \A x \in {6, 7} : EtapeDOrdre("bras", Etape("pince", 0, x))
                           /\ Etape("pince", 0, x).op = "pince"
  BY <1>1, <1>2, EtapeNeuve
<1>6. s = <<e1, e2, e3>>
  BY DEF ControlerRobot
<1> HIDE DEF o, a
<1>7. /\ EtapeDOrdre("bras", e1) /\ EtapeDOrdre("bras", e2) /\ EtapeDOrdre("bras", e3)
      /\ e1.op # "retour" /\ e2.op # "retour" /\ e3.op # "retour"
  BY <1>3, <1>4, <1>5
<1> HIDE DEF e1, e2, e3, s
<1>8. e1 \in EtapeType /\ e2 \in EtapeType /\ e3 \in EtapeType
  BY <1>7 DEF EtapeDOrdre
<1>9. /\ s \in Seq(EtapeType) /\ Len(s) = 3
      /\ \A i \in 1..3 : s[i] \in {e1, e2, e3}
  BY ONLY <1>6, <1>8
<1>10. \A i \in 1..3 : EtapeDOrdre("bras", s[i]) /\ s[i].op # "retour"
  BY <1>7, <1>9
<1>11. QED  BY <1>9, <1>10 DEF EtapesDOrdre, s

LEMMA CallbackEtapes ==
    ASSUME NEW m \in OrdresPossibles
    PROVE  EtapesDOrdre(Genre(m), Callback(m)) /\ Genre(m) \in Genres
<1>1. /\ m.ordre \in {"position", "joints", "controler", "descendre", "monter", "fermer",
                      "ouvrir", "deplacer", "tache", "evacuer", "stopTache"}
      /\ m.posA \in 0..4
      /\ m.ordre = "deplacer" => m.posA \in Positions /\ m.posB \in Positions
      /\ m.ordre \in {"tache", "stopTache"} => m.posA \in PositionsPoste
  BY DEF OrdresPossibles
<1>2. Genre(m) \in Genres
  BY <1>1 DEF Genre, Genres
<1>3. /\ \A o \in {"envoyer", "joints", "descendre", "monter"} : \A p \in 0..4 :
           EtapesDOrdre("bras", <<Etape(o, p, 0)>>)
      /\ \A a \in {6, 7} : EtapesDOrdre("bras", <<Etape("pince", 0, a)>>)
  <2>1. \A o \in {"envoyer", "joints", "descendre", "monter", "pince"} :
          /\ o \in OpsDe("bras") /\ o \notin OpsPoste
          /\ o \notin OpsObjet \cup {"consigne", "sonder", "serrage", "update"}
    BY OpsDuGenre DEF OpsObjet, OpsPoste, Lectures
  <2>2. "bras" \in Genres
    BY DEF Genres
  <2>3. ASSUME NEW o \in {"envoyer", "joints", "descendre", "monter"}, NEW p \in 0..4
        PROVE  EtapesDOrdre("bras", <<Etape(o, p, 0)>>)
    <3>1. /\ o \in OpsDe("bras") /\ o \notin OpsPoste /\ 0 \in 0..10
          /\ o \notin OpsObjet \cup {"consigne", "sonder", "serrage", "update"}
          /\ o \notin {"pince", "retour"}
      BY <2>1
    <3>2. EtapeDOrdre("bras", Etape(o, p, 0))
      BY <2>2, <3>1, EtapeNeuve
    <3>3. QED  BY <3>2, UneEtapeDOrdre
  <2>4. ASSUME NEW a \in {6, 7}
        PROVE  EtapesDOrdre("bras", <<Etape("pince", 0, a)>>)
    <3>1. EtapeDOrdre("bras", Etape("pince", 0, a))
      BY <2>1, <2>2, EtapeNeuve
    <3>2. QED  BY <3>1, UneEtapeDOrdre
  <2>5. QED  BY <2>3, <2>4
<1>4. \A g \in {"tache1", "tache4"} :
        EtapesDOrdre(g, <<Etape("tache", PosteDe(g), 0)>>)
  <2>1. TAKE g \in {"tache1", "tache4"}
  <2>2. /\ "tache" \in OpsDe(g) /\ g \in Genres /\ PosteDe(g) \in 0..4
        /\ PosteDe(g) \in PositionsPoste
        /\ "tache" \notin OpsObjet \cup {"consigne", "sonder", "serrage", "update"}
    BY OpsDuGenre DEF Genres, PosteDe, PositionsPoste, OpsObjet, Lectures
  <2>3. EtapeDOrdre(g, Etape("tache", PosteDe(g), 0))
    BY <2>2, EtapeNeuve
  <2>4. QED  BY <2>3, UneEtapeDOrdre
<1>5. CASE m.ordre = "deplacer"
  <2>1. Genre(m) = "deplacer" /\ Callback(m) = DeplacerPiece(m.posA, m.posB)
    BY <1>5 DEF Genre, Callback
  <2>2. QED  BY <1>1, <1>2, <1>5, <2>1, EtapesDeplacer
<1>6. CASE m.ordre = "controler"
  <2>1. Genre(m) = "bras" /\ Callback(m) = ControlerRobot(m.posA, m.bras, m.serre)
    BY <1>6 DEF Genre, Callback
  <2>2. QED  BY <1>1, <1>2, <2>1, EtapesControler
<1>7. CASE m.ordre = "position"
  <2>1. Genre(m) = "bras" /\ Callback(m) = <<Etape("envoyer", m.posA, 0)>>
    BY <1>7 DEF Genre, Callback
  <2>2. QED  BY <1>1, <1>2, <1>3, <2>1
<1>8. CASE m.ordre \in {"joints", "descendre", "monter"}
  <2>1. PICK o \in {"joints", "descendre", "monter"} :
          Genre(m) = "bras" /\ Callback(m) = <<Etape(o, 0, 0)>>
    BY <1>8 DEF Genre, Callback
  <2>2. 0 \in 0..4
    OBVIOUS
  <2>3. QED  BY <1>2, <1>3, <2>1, <2>2
<1>9. CASE m.ordre \in {"fermer", "ouvrir"}
  <2>1. PICK a \in {6, 7} :
          Genre(m) = "bras" /\ Callback(m) = <<Etape("pince", 0, a)>>
    BY <1>9 DEF Genre, Callback
  <2>2. QED  BY <1>2, <1>3, <2>1
<1>10. CASE m.ordre = "tache"
  <2>1. PICK g \in {"tache1", "tache4"} :
          /\ Genre(m) = g /\ m.posA = PosteDe(g)
          /\ Callback(m) = <<Etape("tache", m.posA, 0)>>
    BY <1>1, <1>10 DEF Genre, Callback, PositionsPoste, PosteDe
  <2>2. QED  BY <1>2, <1>4, <2>1
<1>11. CASE m.ordre = "evacuer"
  <2>1. /\ Genre(m) = "evacuer"
        /\ Callback(m) = <<Etape("evacuer", 1, 0)>> \/ Callback(m) = <<>>
    BY <1>11 DEF Genre, Callback
  <2>2. /\ "evacuer" \in OpsDe("evacuer") /\ "evacuer" \notin OpsPoste
        /\ "evacuer" \notin OpsObjet \cup {"consigne", "sonder", "serrage", "update"}
    BY OpsDuGenre DEF OpsPoste, OpsObjet, Lectures
  <2>3. EtapeDOrdre("evacuer", Etape("evacuer", 1, 0))
    BY <1>2, <2>1, <2>2, EtapeNeuve
  <2>4. QED  BY <1>2, <2>1, <2>3, UneEtapeDOrdre, AucuneEtapeDOrdre
<1>12. CASE m.ordre = "stopTache"
  <2>1. Genre(m) = "stopTache" /\ Callback(m) = <<Etape("stopTache", m.posA, 0)>>
    BY <1>12 DEF Genre, Callback
  <2>2. /\ "stopTache" \in OpsDe("stopTache") /\ m.posA \in PositionsPoste
        /\ "stopTache" \notin OpsObjet \cup {"consigne", "sonder", "serrage", "update"}
    BY <1>1, <1>12, OpsDuGenre DEF OpsObjet, Lectures
  <2>3. EtapeDOrdre("stopTache", Etape("stopTache", m.posA, 0))
    BY <1>1, <1>2, <2>1, <2>2, EtapeNeuve
  <2>4. QED  BY <1>2, <2>1, <2>3, UneEtapeDOrdre
<1>13. QED
  BY <1>1, <1>5, <1>6, <1>7, <1>8, <1>9, <1>10, <1>11, <1>12

-----------------------------------------------------------------------------
(* The other steps of the node: spinOnce and what it treats, update.       *)
Lot == Etape("lot", 0, 0)

LEMMA LotJuste == Lot \in EtapeType /\ EtapeJuste(Lot) /\ Lot.op = "lot" /\ Lot.attend = ""
<1>1. "lot" \in Ops /\ 0 \in 0..4 /\ 0 \in 0..10
  BY DEF Ops
<1>2. Fiche(Lot, "lot", 0, 0, "", <<>>, "")
  BY <1>1, Nouvelle DEF Lot
<1>3. QED
  BY <1>2 DEF Fiche, EtapeJuste, OpsPoste, OpsObjet, Lectures

LEMMA PrendLotSuite ==
    ASSUME TypesFiles, TypesMemoire, PrendLot
    PROVE  /\ Len(appels) \in Nat /\ Len(appels') = Len(appels) + 1
           /\ appels'[1] = Lot
           /\ \A i \in 1..Len(appels) : appels'[i + 1] = appels[i]
           /\ \A i \in 1..Len(appels') :
                i = 1 \/ \E j \in 1..Len(appels) : i = j + 1 /\ appels'[i] = appels[j]
           /\ UNCHANGED <<varsTopics, rep, valeur, varsMemoire>>
           /\ TypesFiles' /\ TypesMemoire'
<1>1. <<Lot>> \in Seq(EtapeType) /\ Len(<<Lot>>) = 1 /\ <<Lot>>[1] = Lot
  <2>1. Lot \in EtapeType
    BY LotJuste
  <2>2. QED  BY ONLY <2>1
<1>2. appels \in Seq(EtapeType) /\ appels' = <<Lot>> \o appels
  BY DEF PrendLot, Lot, TypesFiles
<1>3. /\ appels' \in Seq(EtapeType) /\ Len(appels') = 1 + Len(appels) /\ Len(appels) \in Nat
      /\ \A i \in 1..1 : appels'[i] = <<Lot>>[i]
      /\ \A i \in 1..Len(appels) : appels'[i + 1] = appels[i]
      /\ \A i \in 1..Len(appels') :
                \/ i \in 1..1 /\ appels'[i] = <<Lot>>[i]
                \/ \E j \in 1..Len(appels) : i = j + 1 /\ appels'[i] = appels[j]
  <2>1. Len(<<Lot>>) = 1
    BY <1>1
  <2>2. QED  BY <1>1, <1>2, <2>1, PileChargee
<1>4. /\ Len(appels) \in Nat /\ Len(appels') = Len(appels) + 1
      /\ appels'[1] = Lot
      /\ \A i \in 1..Len(appels') :
           i = 1 \/ \E j \in 1..Len(appels) : i = j + 1 /\ appels'[i] = appels[j]
  BY <1>1, <1>3
<1>5. ASSUME NEW i \in 1..Len(appels')
      PROVE  EtapeJuste(appels'[i])
  BY <1>4, LotJuste DEF TypesFiles
<1>6. UNCHANGED <<varsTopics, rep, valeur, varsMemoire>> /\ lot' = Len(entree)
  BY DEF PrendLot
<1>7. TypesFiles'
  BY <1>3, <1>5, <1>6 DEF TypesFiles, varsTopics
<1>8. TypesMemoire'
  BY <1>6 DEF TypesMemoire, varsMemoire
<1>9. QED  BY <1>3, <1>4, <1>6, <1>7, <1>8

LEMMA EntreeLue ==
    ASSUME TypesFiles, lot > 0
    PROVE  /\ entree # <<>> /\ Head(entree) = entree[1] /\ Head(entree) \in Messages
           /\ Tail(entree) \in Seq(Messages) /\ Len(Tail(entree)) = Len(entree) - 1
           /\ Len(entree) \in Nat /\ 1 \in 1..Len(entree)
           /\ \A i \in 1..Len(Tail(entree)) :
                i + 1 \in 1..Len(entree) /\ Tail(entree)[i] = entree[i + 1]
<1>1. entree \in Seq(Messages) /\ lot <= Len(entree) /\ lot \in Nat
  BY DEF TypesFiles
<1>2. entree # <<>>
  BY <1>1
<1>3. QED  BY <1>1, <1>2, PileReduite

LEMMA CallbackReponseSuite ==
    ASSUME TypesFiles, TypesMemoire, CallbackReponse
    PROVE  /\ appels # <<>> /\ appels[1].op = "lot" /\ appels' = appels
           /\ lot > 0 /\ Head(entree).type = "reponse" /\ Head(entree) \in ReponseType
           /\ rep' = [rep EXCEPT ![Head(entree).canal] = TRUE]
           /\ Head(entree).canal = "getColor" =>
                valeur'.objet = Head(entree).objet /\ valeur'.rang = Head(entree).rang
           /\ Head(entree).canal # "getColor" =>
                valeur'.objet = valeur.objet /\ valeur'.rang = valeur.rang
           /\ entree' = Tail(entree)
           /\ UNCHANGED <<requetes, sortie, tache>>
           /\ TypesFiles' /\ TypesMemoire'
<1> DEFINE m == Head(entree)
<1>1. /\ appels # <<>> /\ appels' = appels /\ lot > 0 /\ m.type = "reponse"
      /\ rep' = [rep EXCEPT ![m.canal] = TRUE]
      /\ entree' = Tail(entree) /\ lot' = lot - 1
      /\ UNCHANGED <<requetes, sortie, cmdPince, appels, varsMemoire>>
  BY DEF CallbackReponse, Actif
<1>2. appels[1].op = "lot"
  BY <1>1 DEF CallbackReponse, Actif, TypesFiles
<1>3. m \in ReponseType
  BY <1>1, EntreeLue DEF Messages, OrdresPossibles
<1>4. /\ m.canal \in Canaux /\ m.couleur \in Couleurs /\ m.pose \in PoseType
      /\ m.objet \in Objets \cup {""} /\ m.rang \in 0..NB_CUBE
  BY <1>3 DEF ReponseType
<1>5. valeur' = CASE m.canal = "getColor" ->
                   [valeur EXCEPT !.couleur = m.couleur, !.objet = m.objet,
                                  !.rang = m.rang]
                  [] m.canal = "getJointState" -> [valeur EXCEPT !.pose = m.pose]
                  [] OTHER -> valeur
  BY DEF CallbackReponse
<1>6. valeur \in ValeurType
  BY DEF TypesMemoire
<1> HIDE DEF m
<1>7. /\ valeur' \in ValeurType
      /\ m.canal = "getColor" => valeur'.objet = m.objet /\ valeur'.rang = m.rang
      /\ m.canal # "getColor" => valeur'.objet = valeur.objet /\ valeur'.rang = valeur.rang
  <2>1. CASE m.canal = "getColor"
    <3>1. valeur' = [valeur EXCEPT !.couleur = m.couleur, !.objet = m.objet, !.rang = m.rang]
      BY <1>5, <2>1
    <3>2. QED  BY <1>4, <1>6, <2>1, <3>1 DEF ValeurType
  <2>2. CASE m.canal = "getJointState"
    <3>1. valeur' = [valeur EXCEPT !.pose = m.pose]
      BY <1>5, <2>2
    <3>2. QED  BY <1>4, <1>6, <2>2, <3>1 DEF ValeurType
  <2>3. CASE m.canal \notin {"getColor", "getJointState"}
    <3>1. valeur' = valeur
      BY <1>5, <2>3
    <3>2. QED  BY <1>6, <2>3, <3>1
  <2>4. QED  BY <2>1, <2>2, <2>3
<1>8. TypesMemoire'
  BY <1>1, <1>4, <1>7 DEF TypesMemoire, varsMemoire
<1>9. TypesFiles'
  <2>1. Tail(entree) \in Seq(Messages) /\ Len(Tail(entree)) = Len(entree) - 1
    BY <1>1, EntreeLue
  <2>2. lot - 1 \in 0..(Len(entree) - 1)
    BY <1>1, EntreeLue DEF TypesFiles
  <2>3. QED  BY <1>1, <2>1, <2>2 DEF TypesFiles
<1>10. UNCHANGED <<requetes, sortie, tache>>
  BY <1>1 DEF varsMemoire
<1>11. QED  BY <1>1, <1>2, <1>3, <1>7, <1>8, <1>9, <1>10 DEF m

LEMMA CallbackOrdreSuite ==
    ASSUME TypesFiles, TypesMemoire, CallbackOrdre
    PROVE  /\ appels # <<>> /\ appels[1].op = "lot" /\ lot > 0
           /\ Head(entree).type = "ordre" /\ Head(entree) \in OrdresPossibles
           /\ entree' = Tail(entree)
           /\ appels' = Callback(Head(entree)) \o appels
           /\ EtapesDOrdre(Genre(Head(entree)), Callback(Head(entree)))
           /\ Genre(Head(entree)) \in Genres
           /\ UNCHANGED <<requetes, sortie, rep, valeur, tache>>
           /\ TypesFiles' /\ TypesMemoire'
<1> DEFINE m == Head(entree)
           s == Callback(m)
<1>1. /\ appels # <<>> /\ appels' = s \o appels /\ lot > 0 /\ m.type = "ordre"
      /\ entree' = Tail(entree) /\ lot' = lot - 1
      /\ UNCHANGED <<requetes, sortie, cmdPince, rep, valeur, varsMemoire>>
  BY DEF CallbackOrdre, Actif
<1>2. appels[1].op = "lot"
  BY <1>1 DEF CallbackOrdre, Actif, TypesFiles
<1>3. m \in OrdresPossibles
  BY <1>1, EntreeLue DEF Messages, ReponseType
<1>4. EtapesDOrdre(Genre(m), s) /\ Genre(m) \in Genres
  BY <1>3, CallbackEtapes
<1> HIDE DEF s
<1>5. TypesFiles'
  <2>1. Tail(entree) \in Seq(Messages) /\ Len(Tail(entree)) = Len(entree) - 1
    BY <1>1, EntreeLue
  <2>2. lot - 1 \in 0..(Len(entree) - 1)
    BY <1>1, EntreeLue DEF TypesFiles
  <2>3. s \in Seq(EtapeType) /\ \A i \in 1..Len(s) : EtapeJuste(s[i])
    BY <1>4 DEF EtapesDOrdre, EtapeDOrdre
  <2>4. appels \in Seq(EtapeType) /\ \A i \in 1..Len(appels) : EtapeJuste(appels[i])
    BY DEF TypesFiles
  <2>5. /\ appels' \in Seq(EtapeType)
        /\ \A i \in 1..Len(appels') :
                \/ i \in 1..Len(s) /\ appels'[i] = s[i]
                \/ \E j \in 1..Len(appels) : i = j + Len(s) /\ appels'[i] = appels[j]
    BY <1>1, <2>3, <2>4, PileChargee
  <2>6. \A i \in 1..Len(appels') : EtapeJuste(appels'[i])
    BY <2>3, <2>4, <2>5
  <2>7. QED  BY <1>1, <2>1, <2>2, <2>5, <2>6 DEF TypesFiles
<1>6. TypesMemoire' /\ UNCHANGED <<requetes, sortie, rep, valeur, tache>>
  BY <1>1 DEF TypesMemoire, varsMemoire
<1>7. QED  BY <1>1, <1>2, <1>3, <1>4, <1>5, <1>6 DEF s

LEMMA FinLotSuite ==
    ASSUME TypesFiles, TypesMemoire, FinLot
    PROVE  /\ appels # <<>> /\ appels[1].op = "lot"
           /\ Len(appels') = Len(appels) - 1 /\ Len(appels) \in Nat
           /\ \A i \in 1..Len(appels') : i + 1 \in 1..Len(appels) /\ appels'[i] = appels[i + 1]
           /\ UNCHANGED <<varsTopics, rep, valeur, tache>>
           /\ TypesFiles' /\ TypesMemoire'
<1>1. /\ appels # <<>> /\ Head(appels).op = "lot" /\ appels' = Tail(appels)
      /\ UNCHANGED <<varsTopics, lot, rep, valeur, varsMemoire>>
  BY DEF FinLot, Actif, Depile
<1>2. appels[1].op = "lot" /\ appels \in Seq(EtapeType)
  BY <1>1 DEF TypesFiles
<1>3. /\ appels' \in Seq(EtapeType)
      /\ Len(appels') = Len(appels) - 1 /\ Len(appels) \in Nat
      /\ \A i \in 1..Len(appels') : i + 1 \in 1..Len(appels) /\ appels'[i] = appels[i + 1]
  BY <1>1, <1>2, PileReduite
<1>4. TypesFiles'
  BY <1>1, <1>3 DEF TypesFiles, varsTopics
<1>5. TypesMemoire' /\ UNCHANGED <<varsTopics, rep, valeur, tache>>
  BY <1>1 DEF TypesMemoire, varsMemoire
<1>6. QED  BY <1>1, <1>2, <1>3, <1>4, <1>5

LEMMA UpdateSuite ==
    ASSUME TypesFiles, TypesMemoire, Update
    PROVE  /\ appels = <<>>
           /\ \E p \in PositionsPoste : tache[p]
           /\ Len(appels') = 1
           /\ appels'[1].op = "update" /\ appels'[1].attend = "getTimeUpdate"
           /\ Interroge(appels'[1])
           /\ UNCHANGED <<entree, sortie, rep, valeur, tache>>
           /\ TypesFiles' /\ TypesMemoire'
<1> DEFINE f == [Etape("update", 0, 0) EXCEPT !.attend = "getTimeUpdate"]
<1>1. Fiche(f, "update", 0, 0, "", <<>>, "getTimeUpdate")
  <2>1. "update" \in Ops /\ "getTimeUpdate" \in Canaux /\ 0 \in 0..4 /\ 0 \in 0..10
    BY DEF Ops, Canaux
  <2>2. QED  BY <2>1, Nouvelle
<1>2. /\ appels = <<>> /\ appels' = <<f>> /\ Demande("getTimeUpdate", Simple)
      /\ \E p \in PositionsPoste : tache[p]
      /\ UNCHANGED <<VarsSansFile, rep, valeur, varsMemoire>>
  BY DEF Update
<1> HIDE DEF f
<1>3. EtapeJuste(f) /\ f \in EtapeType
  BY <1>1 DEF Fiche, EtapeJuste, OpsPoste, OpsObjet, Lectures
<1>4. Interroge(f)
  <2>1. "getTimeUpdate" \in Canaux \ {"getColor"} /\ f.attend = "getTimeUpdate"
    BY <1>1 DEF Canaux, Fiche
  <2>2. QED  BY <1>2, <2>1, Demandee, Constantes
<1>5. appels' \in Seq(EtapeType) /\ Len(appels') = 1 /\ appels'[1] = f
  BY <1>2, <1>3
<1>6. TypesFiles'
  <2>1. /\ requetes' \in [Canaux -> Seq(RequeteType)]
        /\ requetes'["getColor"] \in Seq(RequeteCouleur)
    BY <1>4, TypesInterroge
  <2>2. \A i \in 1..Len(appels') : EtapeJuste(appels'[i])
    BY <1>3, <1>5
  <2>3. QED  BY <1>2, <1>5, <2>1, <2>2 DEF TypesFiles, VarsSansFile
<1>7. TypesMemoire'
  BY <1>2 DEF TypesMemoire, varsMemoire
<1>8. UNCHANGED <<entree, sortie, rep, valeur, tache>>
  BY <1>2 DEF VarsSansFile, varsMemoire
<1>9. QED  BY <1>1, <1>2, <1>4, <1>5, <1>6, <1>7, <1>8 DEF Fiche

LEMMA UpdateHeureSuite ==
    ASSUME TypesFiles, TypesMemoire, UpdateHeure
    PROVE  /\ appels # <<>> /\ Courant.op = "update" /\ Consomme
           /\ Len(appels') = Len(appels) + 1 /\ Len(appels) \in Nat
           /\ \A i \in 1..2 : appels'[i].op = "verifier" /\ appels'[i].attend = ""
           /\ \A i \in 2..Len(appels) : appels'[i + 1] = appels[i]
           /\ \A i \in 1..Len(appels') :
                i \in 1..2 \/ \E j \in 2..Len(appels) : i = j + 1 /\ appels'[i] = appels[j]
           /\ UNCHANGED <<varsTopics, valeur, tache>>
           /\ TypesFiles' /\ TypesMemoire'
<1> DEFINE v1 == Etape("verifier", 1, 0)
           v4 == Etape("verifier", 4, 0)
<1>1. /\ Fiche(v1, "verifier", 1, 0, "", <<>>, "")
      /\ Fiche(v4, "verifier", 4, 0, "", <<>>, "")
  <2>1. "verifier" \in Ops /\ 1 \in 0..4 /\ 4 \in 0..4 /\ 0 \in 0..10
    BY DEF Ops
  <2>2. QED  BY <2>1, Nouvelle
<1>2. "getTimeUpdate" \in Canaux
  BY DEF Canaux
<1>3. appels # <<>> /\ Courant.op = "update" /\ Consomme
  BY <1>2, AttenteRecue DEF UpdateHeure
<1>4. /\ appels' = <<v1, v4>> \o Tail(appels)
      /\ rep' = [rep EXCEPT !["getTimeUpdate"] = FALSE]
      /\ UNCHANGED <<varsTopics, lot, valeur, varsMemoire>>
  BY DEF UpdateHeure, Remplace, Recu
<1> HIDE DEF v1, v4
<1>5. /\ EtapeJuste(v1) /\ v1 \in EtapeType /\ v1.op = "verifier" /\ v1.attend = ""
      /\ EtapeJuste(v4) /\ v4 \in EtapeType /\ v4.op = "verifier" /\ v4.attend = ""
  BY <1>1 DEF Fiche, EtapeJuste, OpsPoste, OpsObjet, Lectures, PositionsPoste
<1>7. /\ Tail(appels) \in Seq(EtapeType) /\ Len(Tail(appels)) = Len(appels) - 1
      /\ Len(appels) \in Nat /\ Len(appels) >= 1
      /\ \A i \in 1..Len(Tail(appels)) : Tail(appels)[i] = appels[i + 1]
  BY <1>3, PileReduite DEF TypesFiles
<1>8. /\ appels' \in Seq(EtapeType) /\ Len(appels') = 2 + Len(Tail(appels))
      /\ appels'[1] = v1 /\ appels'[2] = v4
      /\ \A i \in 1..Len(Tail(appels)) : appels'[i + 2] = Tail(appels)[i]
  <2> DEFINE t == <<v1, v4>>
             u == Tail(appels)
  <2>1. t \in Seq(EtapeType) /\ Len(t) = 2 /\ t[1] = v1 /\ t[2] = v4
    <3>1. v1 \in EtapeType /\ v4 \in EtapeType
      BY <1>5
    <3>2. QED  BY ONLY <3>1
  <2>2. appels' = t \o u /\ u \in Seq(EtapeType)
    BY <1>4, <1>7
  <2> HIDE DEF t, u
  <2>3. /\ t \o u \in Seq(EtapeType) /\ Len(t \o u) = Len(t) + Len(u) /\ Len(u) \in Nat
        /\ \A i \in 1..(Len(t) + Len(u)) :
             (t \o u)[i] = IF i <= Len(t) THEN t[i] ELSE u[i - Len(t)]
    <3>1. t \in Seq(EtapeType) /\ u \in Seq(EtapeType)
      BY <2>1, <2>2
    <3>2. QED  BY ONLY <3>1, ConcatProperties
  <2>4. appels'[1] = v1 /\ appels'[2] = v4
    BY <2>1, <2>2, <2>3
  <2>5. ASSUME NEW i \in 1..Len(u)
        PROVE  appels'[i + 2] = u[i]
    <3>1. i + 2 \in 1..(Len(t) + Len(u)) /\ ~(i + 2 <= Len(t)) /\ (i + 2) - Len(t) = i
      BY <2>1, <2>3
    <3>2. QED  BY <2>2, <2>3, <3>1
  <2>6. QED  BY <2>1, <2>2, <2>3, <2>4, <2>5 DEF u
<1>9. \A i \in 1..2 : /\ appels'[i].op = "verifier" /\ appels'[i].attend = ""
                      /\ EtapeJuste(appels'[i])
  <2>1. \A i \in 1..2 : i = 1 \/ i = 2
    OBVIOUS
  <2>2. QED  BY <1>5, <1>8, <2>1
<1>10. Len(appels') = Len(appels) + 1
  BY <1>7, <1>8
<1>11. ASSUME NEW i \in 2..Len(appels)
       PROVE  appels'[i + 1] = appels[i]
  <2>1. i - 1 \in 1..Len(Tail(appels))
    BY <1>7
  <2>2. /\ appels'[(i - 1) + 2] = Tail(appels)[i - 1]
        /\ Tail(appels)[i - 1] = appels[(i - 1) + 1]
    BY <1>7, <1>8, <2>1
  <2>3. (i - 1) + 2 = i + 1 /\ (i - 1) + 1 = i
    OBVIOUS
  <2>4. QED  BY <2>2, <2>3
<1>12. ASSUME NEW i \in 1..Len(appels')
       PROVE  i \in 1..2 \/ \E j \in 2..Len(appels) : i = j + 1 /\ appels'[i] = appels[j]
  <2>1. CASE i <= 2
    BY <2>1
  <2>2. CASE ~(i <= 2)
    <3>1. i - 1 \in 2..Len(appels) /\ i = (i - 1) + 1
      BY <1>7, <1>10, <2>2
    <3>2. appels'[(i - 1) + 1] = appels[i - 1]
      BY <1>11, <3>1
    <3>3. QED  BY <3>1, <3>2
  <2>3. QED  BY <2>1, <2>2
<1>13. TypesFiles'
  <2>1. ASSUME NEW i \in 1..Len(appels')
        PROVE  EtapeJuste(appels'[i])
    <3>1. CASE i \in 1..2
      BY <1>9, <3>1
    <3>2. CASE \E j \in 2..Len(appels) : i = j + 1 /\ appels'[i] = appels[j]
      <4>1. PICK j \in 2..Len(appels) : appels'[i] = appels[j]
        BY <3>2
      <4>2. j \in 1..Len(appels)
        BY <1>7, <4>1
      <4>3. QED  BY <4>1, <4>2 DEF TypesFiles
    <3>3. QED  BY <1>12, <3>1, <3>2
  <2>2. QED  BY <1>4, <1>8, <2>1 DEF TypesFiles, varsTopics
<1>14. TypesMemoire' /\ UNCHANGED <<varsTopics, valeur, tache>>
  BY <1>4 DEF TypesMemoire, varsMemoire
<1>15. QED
  BY <1>3, <1>7, <1>9, <1>10, <1>11, <1>12, <1>13, <1>14

-----------------------------------------------------------------------------
(* The types are kept by every step.                                       *)
LEMMA CodeRange ==
    ASSUME TypesFiles, NEW code \in 0..10, sortie' = Append(sortie, code)
    PROVE  sortie' \in Seq(0..10)
BY DEF TypesFiles

LEMMA TypesSuite ==
    ASSUME TypesFiles, MemeSuite, sortie' \in Seq(0..10)
    PROVE  TypesFiles'
BY TypesPoursuit DEF MemeSuite

LEMMA TypesMouvement ==
    ASSUME TypesFiles, TypesMemoire, Mouvement
    PROVE  TypesFiles' /\ TypesMemoire'
<1>1. sortie \in Seq(0..10)
  BY DEF TypesFiles
<1>2. CASE \/ EnvoyerRobot \/ EnvoyerJoints \/ DescendreBras \/ MonterBras
           \/ ConsigneRecue \/ PositionNonAtteinte \/ PinceCommande \/ PinceAttend
  <2>1. MemeSuite /\ Discret /\ TypesMemoire'
    BY <1>2, RposSuite, MouvementSuite
  <2>2. QED  BY <1>1, <2>1, TypesSuite DEF Discret
<1>3. CASE PositionAtteinte \/ PinceDejaFaite \/ PinceFin
  <2>1. TypesMemoire' /\ (FinMuette \/ \E code \in {2, 4, 5, 6, 7} : FinCode(code))
    BY <1>3, FinsDeMouvement
  <2>2. Termine /\ (sortie' = sortie \/ \E code \in 0..10 : sortie' = Append(sortie, code))
    BY <2>1 DEF FinMuette, FinCode, Discret
  <2>3. QED  BY <1>1, <2>1, <2>2, CodeRange, TypesTermine
<1>4. CASE RetourFin
  <2>1. FinCode(10) /\ TypesMemoire'
    BY <1>4, FinsDOrdre
  <2>2. 10 \in 0..10
    OBVIOUS
  <2>3. QED  BY <2>1, <2>2, CodeRange, TypesTermine DEF FinCode
<1>5. QED  BY <1>2, <1>3, <1>4 DEF Mouvement

LEMMA TypesPieces ==
    ASSUME TypesFiles, TypesMemoire, TypesScene, Pieces
    PROVE  TypesFiles' /\ TypesMemoire'
<1>1. sortie \in Seq(0..10)
  BY DEF TypesFiles
<1>2. \A c : c \in {8, 9} => c \in 0..10
  OBVIOUS
<1>3. CASE \/ LireCouleur \/ CouleurRecue \/ ColorerNavette \/ ColorerPeint \/ FaireTache
           \/ TacheHeure \/ TacheColore \/ FinTask \/ FinTaskPeint \/ Confirmer
           \/ PasEncoreCouleur \/ Evacuer \/ EvacuerEfface
           \/ (ColorerPoste /\ ~tache[Courant.pos])
  <2>1. MemeSuite /\ Discret /\ TypesMemoire'
    BY <1>3, LectureSuite, DebutsDeLecture, PeinturesSuite, TachesSuite
  <2>2. QED  BY <1>1, <2>1, TypesSuite DEF Discret
<1>4. CASE ColorerPoste /\ tache[Courant.pos]
  <2>1. /\ MemeSuite /\ TypesMemoire'
        /\ sortie' = Append(sortie, IF Courant.pos = 1 THEN 8 ELSE 9)
    BY <1>4, PieceSurTache
  <2>2. sortie' \in Seq(0..10)
    BY <1>2, <2>1, CodeRange
  <2>3. QED  BY <2>1, <2>2, TypesSuite
<1>5. CASE ColorerSansNavette \/ FinPrise \/ FinPose \/ EvacuerFin \/ TacheContinue
  <2>1. TypesMemoire' /\ (FinMuette \/ \E code \in {2, 4, 5, 6, 7} : FinCode(code))
    BY <1>5, FinsDeMouvement
  <2>2. Termine /\ (sortie' = sortie \/ \E code \in 0..10 : sortie' = Append(sortie, code))
    BY <2>1 DEF FinMuette, FinCode, Discret
  <2>3. QED  BY <1>1, <2>1, <2>2, CodeRange, TypesTermine
<1>6. CASE TacheImpossible \/ TacheTerminee \/ StopTache
  <2>1. /\ Termine /\ TypesMemoire'
        /\ sortie' = Append(sortie, IF Courant.pos = 1 THEN 8 ELSE 9)
    BY <1>6, FinsDOrdre, StopDeTache DEF FinCode
  <2>2. sortie' \in Seq(0..10)
    BY <1>2, <2>1, CodeRange
  <2>3. QED  BY <2>1, <2>2, TypesTermine
<1>7. CASE DebutTask
  BY <1>1, <1>7, DebutDeTache, TypesTermine
<1>8. CASE UpdateHeure
  BY <1>8, UpdateHeureSuite
<1>9. CASE TacheEchue
  <2>1. /\ TypesMemoire' /\ sortie' = sortie
        /\ \E f \in EtapeType : Poursuit(f)
    BY <1>9, TacheQuiFinit
  <2>2. QED  BY <1>1, <2>1, TypesPoursuit
<1>10. QED
  BY <1>3, <1>4, <1>5, <1>6, <1>7, <1>8, <1>9 DEF Pieces

LEMMA TypesAppels ==
    ASSUME TypesFiles, TypesMemoire, Appels
    PROVE  TypesFiles' /\ TypesMemoire'
<1>1. sortie \in Seq(0..10)
  BY DEF TypesFiles
<1>2. CASE SpinPrincipal \/ SpinOnce
  BY <1>2, PrendLotSuite DEF SpinPrincipal, SpinOnce
<1>3. CASE CallbackReponse \/ CallbackOrdre \/ FinLot \/ Update
  BY <1>3, CallbackReponseSuite, CallbackOrdreSuite, FinLotSuite, UpdateSuite
<1>4. CASE InitDemande
  <2>1. MemeSuite /\ Discret /\ TypesMemoire'
    BY <1>4, MouvementSuite
  <2>2. QED  BY <1>1, <2>1, TypesSuite DEF Discret
<1>5. CASE InitFin
  <2>1. FinCode(0) /\ TypesMemoire'
    BY <1>5, FinsDOrdre
  <2>2. 0 \in 0..10
    OBVIOUS
  <2>3. QED  BY <2>1, <2>2, CodeRange, TypesTermine DEF FinCode
<1>6. QED  BY <1>2, <1>3, <1>4, <1>5 DEF Appels

LEMMA TypesRobot ==
    ASSUME InvTypes, Robot
    PROVE  InvTypes'
<1>1. TypesFiles' /\ TypesMemoire'
  BY TypesMouvement, TypesPieces, TypesAppels DEF InvTypes, Robot, RobotNext
<1>2. TypesScene' /\ TypesCommande'
  BY DEF InvTypes, Robot, TypesScene, TypesCommande, varsInterface, varsSimulateur
<1>3. QED  BY <1>1, <1>2 DEF InvTypes

(* The other side of the topics. *)
LEMMA TypesDonneOrdre ==
    ASSUME InvTypes, NEW m \in UNION Programmes, DonneOrdre(m)
    PROVE  /\ m \in OrdresPossibles /\ m.type = "ordre" /\ Genre(m) \in Genres
           /\ entree' = Append(entree, m) /\ demandes' = demandes \cup {Genre(m)}
           /\ UNCHANGED <<requetes, sortie, varsRobot>>
           /\ InvTypes'
<1>1. m \in OrdresPossibles
  BY CommandeAssumption
<1>2. m.type = "ordre" /\ m.posA \in 0..4
  BY <1>1 DEF OrdresPossibles
<1>3. Genre(m) \in Genres
  BY <1>1, CallbackEtapes
<1>4. /\ entree' = Append(entree, m) /\ demandes' = demandes \cup {Genre(m)}
      /\ UNCHANGED <<requetes, sortie, varsRobot, varsSimulateur, navette, programme>>
      /\ UNCHANGED robotInit
      /\ robotMacroDeplacement' = IF m.ordre = "deplacer" THEN 0 ELSE robotMacroDeplacement
      /\ robotTask' = IF m.ordre = "tache" THEN [robotTask EXCEPT ![m.posA] = 0]
                      ELSE robotTask
  BY DEF DonneOrdre, PublieOrdre, Efface
<1>5. TypesFiles'
  <2>1. entree \in Seq(Messages) /\ m \in Messages /\ lot \in 0..Len(entree)
    BY <1>1 DEF InvTypes, TypesFiles, Messages
  <2>2. entree' \in Seq(Messages) /\ Len(entree') = Len(entree) + 1 /\ Len(entree) \in Nat
    BY <1>4, <2>1
  <2>3. lot' \in 0..Len(entree')
    BY <1>4, <2>1, <2>2 DEF varsRobot
  <2>4. QED  BY <1>4, <2>2, <2>3 DEF InvTypes, TypesFiles, varsRobot
<1>6. TypesMemoire' /\ TypesScene'
  BY <1>4 DEF InvTypes, TypesMemoire, TypesScene, varsRobot, varsMemoire, varsSimulateur
<1>7. TypesCommande'
  BY <1>3, <1>4 DEF InvTypes, TypesCommande
<1>8. QED  BY <1>1, <1>2, <1>3, <1>4, <1>5, <1>6, <1>7 DEF InvTypes

LEMMA TypesConstate ==
    ASSUME InvTypes, NEW k \in Genres, Constate(k)
    PROVE  InvTypes'
<1>1. UNCHANGED <<varsRobot, varsInterface, varsMonde, programme>> /\ demandes' = demandes \ {k}
  BY DEF Constate
<1>2. TypesFiles' /\ TypesMemoire' /\ TypesScene' /\ TypesCommande'
  BY <1>1 DEF InvTypes, TypesFiles, TypesMemoire, TypesScene, TypesCommande, varsRobot,
              varsMemoire, varsInterface, varsMonde, varsSimulateur, varsTopics
<1>3. QED  BY <1>2 DEF InvTypes

LEMMA SortieLue ==
    ASSUME TypesFiles, sortie # <<>>
    PROVE  /\ Head(sortie) = sortie[1] /\ 1 \in 1..Len(sortie) /\ Head(sortie) \in 0..10
           /\ Tail(sortie) \in Seq(0..10) /\ Len(Tail(sortie)) = Len(sortie) - 1
           /\ \A i \in 1..Len(Tail(sortie)) :
                i + 1 \in 1..Len(sortie) /\ Tail(sortie)[i] = sortie[i + 1]
<1>1. sortie \in Seq(0..10)
  BY DEF TypesFiles
<1>2. /\ Tail(sortie) \in Seq(0..10) /\ Len(Tail(sortie)) = Len(sortie) - 1
      /\ Len(sortie) >= 1 /\ Len(sortie) \in Nat
      /\ \A i \in 1..Len(Tail(sortie)) :
           i + 1 \in 1..Len(sortie) /\ Tail(sortie)[i] = sortie[i + 1]
  BY <1>1, PileReduite
<1>3. QED  BY <1>1, <1>2

LEMMA TypesRetour ==
    ASSUME InvTypes, Retour
    PROVE  InvTypes'
<1> DEFINE code == Head(sortie)
<1>1. /\ sortie # <<>> /\ sortie' = Tail(sortie)
      /\ robotInit' = IF code = 0 THEN 1 ELSE robotInit
      /\ robotTask' = CASE code = 8 -> [robotTask EXCEPT ![1] = 1]
                        [] code = 9 -> [robotTask EXCEPT ![4] = 1]
                        [] OTHER -> robotTask
      /\ robotMacroDeplacement' = IF code = 10 THEN 1 ELSE robotMacroDeplacement
      /\ UNCHANGED <<requetes, entree, varsRobot, varsSimulateur, navette, programme, demandes>>
  BY DEF Retour, RetourRobotCallback
<1> HIDE DEF code
<1>2. sortie' \in Seq(0..10) /\ Len(sortie') = Len(sortie) - 1 /\ Len(sortie) \in Nat
  BY <1>1, SortieLue DEF InvTypes, TypesFiles
<1>3. TypesFiles' /\ TypesMemoire' /\ TypesScene'
  BY <1>1, <1>2 DEF InvTypes, TypesFiles, TypesMemoire, TypesScene, varsRobot,
                    varsMemoire, varsSimulateur
<1>4. Len(sortie') <= MaxSortie
  BY <1>2, CommandeAssumption DEF InvTypes, TypesCommande
<1>5. robotTask' \in [PositionsPoste -> {0, 1}]
  <2>1. robotTask \in [PositionsPoste -> {0, 1}]
    BY DEF InvTypes, TypesCommande
  <2>2. \/ robotTask' = [robotTask EXCEPT ![1] = 1]
        \/ robotTask' = [robotTask EXCEPT ![4] = 1]
        \/ robotTask' = robotTask
    BY <1>1
  <2>3. QED  BY <2>1, <2>2
<1>6. TypesCommande'
  BY <1>1, <1>4, <1>5 DEF InvTypes, TypesCommande
<1>7. QED  BY <1>3, <1>6 DEF InvTypes

(* An answer is put at the end of what the node has yet to read. *)
LEMMA TypesReponse ==
    ASSUME InvTypes, NEW c \in Canaux, Scene(c)
    PROVE  /\ requetes[c] # <<>> /\ requetes[c] \in Seq(RequeteType)
           /\ LET q == requetes[c][1]
                  r == Reponse(c, q) IN
              /\ q \in RequeteType /\ r \in ReponseType
              /\ r.type = "reponse" /\ r.canal = c /\ r.objet = q.objet /\ r.rang = q.rang
              /\ entree' = Append(entree, r)
           /\ requetes' = [requetes EXCEPT ![c] = Tail(@)]
           /\ UNCHANGED <<sortie, varsRobot, varsInterface, programme, demandes>>
           /\ InvTypes'
<1> DEFINE q == requetes[c][1]
           r == Reponse(c, q)
<1>1. requetes[c] # <<>> /\ requetes[c] \in Seq(RequeteType)
  BY DEF Scene, Repond, InvTypes, TypesFiles
<1>2. /\ 1 \in 1..Len(requetes[c]) /\ Head(requetes[c]) = q /\ q \in RequeteType
      /\ Tail(requetes[c]) \in Seq(RequeteType)
  BY <1>1
<1>3. c = "getColor" => /\ q \in RequeteCouleur
                        /\ Tail(requetes[c]) \in Seq(RequeteCouleur)
  <2>1. CASE c = "getColor"
    <3>1. requetes[c] \in Seq(RequeteCouleur)
      BY <2>1 DEF InvTypes, TypesFiles
    <3>2. QED  BY <1>1, <3>1
  <2>2. QED  BY <2>1
<1>4. /\ entree' = Append(entree, r)
      /\ cubes' = IF c \in {"changeColor", "changeShuttleColor"}
                  THEN [cubes EXCEPT ![q.objet] = q.cubes] ELSE cubes
      /\ consigne' = IF c = "setJointState" THEN q.pose ELSE consigne
      /\ requetes' = [requetes EXCEPT ![c] = Tail(@)]
      /\ UNCHANGED <<sortie, cmdPince, pose, varsRobot, varsInterface, navette, programme,
                     demandes>>
  BY <1>2 DEF Scene, Repond
<1>5. q.objet \in Objets \cup {""} /\ q.rang \in 0..NB_CUBE /\ q.cubes \in Cubes
      /\ q.pose \in PoseType
  BY <1>2 DEF RequeteType
<1>6. r \in ReponseType /\ r.type = "reponse" /\ r.canal = c /\ r.objet = q.objet
      /\ r.rang = q.rang
  <2>1. pose \in PoseType /\ Pose(0, 0) \in PoseType /\ 0 \in Couleurs
    BY Constantes DEF InvTypes, TypesScene
  <2>2. c = "getColor" => CouleurDe(q.objet, q.rang) \in Couleurs
    BY <1>3, <2>1 DEF InvTypes, TypesScene, CouleurDe, RequeteCouleur, Cubes
  <2>3. QED  BY <1>5, <2>1, <2>2 DEF ReponseType, Reponse
<1> HIDE DEF r, q
<1>7. TypesFiles'
  <2>1. entree \in Seq(Messages) /\ r \in Messages /\ lot \in 0..Len(entree)
    BY <1>6 DEF InvTypes, TypesFiles, Messages
  <2>2. entree' \in Seq(Messages) /\ Len(entree') = Len(entree) + 1 /\ Len(entree) \in Nat
    BY <1>4, <2>1
  <2>3. lot' \in 0..Len(entree')
    BY <1>4, <2>1, <2>2 DEF varsRobot
  <2>4. requetes \in [Canaux -> Seq(RequeteType)] /\ requetes["getColor"] \in Seq(RequeteCouleur)
    BY DEF InvTypes, TypesFiles
  <2>5. requetes' \in [Canaux -> Seq(RequeteType)]
    BY <1>2, <1>4, <2>4
  <2>6. requetes'["getColor"] \in Seq(RequeteCouleur)
    BY <1>3, <1>4, <2>4 DEF Canaux
  <2>7. QED  BY <1>4, <2>2, <2>3, <2>5, <2>6 DEF InvTypes, TypesFiles, varsRobot
<1>8. TypesScene'
  BY <1>4, <1>5 DEF InvTypes, TypesScene
<1>9. TypesMemoire' /\ TypesCommande'
  BY <1>4 DEF InvTypes, TypesMemoire, TypesCommande, varsRobot, varsMemoire, varsInterface
<1>10. QED  BY <1>1, <1>2, <1>4, <1>6, <1>7, <1>8, <1>9 DEF InvTypes, r, q

LEMMA TypesInit ==
    ASSUME Init
    PROVE  InvTypes
<1>1. TypesFiles
  <2> DEFINE e == Etape("init", 0, 0)
             s == appels
  <2>1. Fiche(e, "init", 0, 0, "", <<>>, "")
    <3>1. "init" \in Ops /\ 0 \in 0..4 /\ 0 \in 0..10
      BY DEF Ops
    <3>2. QED  BY <3>1, Nouvelle
  <2>2. s = <<e>>
    BY DEF Init, InitRobot
  <2> HIDE DEF e, s
  <2>3. e \in EtapeType /\ EtapeJuste(e)
    BY <2>1 DEF Fiche, EtapeJuste, OpsPoste, OpsObjet, Lectures
  <2>4. e \in EtapeType
    BY <2>3
  <2>5. s \in Seq(EtapeType) /\ Len(s) = 1 /\ s[1] = e
    BY ONLY <2>2, <2>4
  <2>6. \A i \in 1..Len(s) : EtapeJuste(s[i])
    BY <2>3, <2>5
  <2>7. requetes = [c \in Canaux |-> <<>>] /\ entree = <<>> /\ sortie = <<>> /\ lot = 0
    BY DEF Init, InitTopics, InitRobot
  <2>8. requetes \in [Canaux -> Seq(RequeteType)] /\ requetes["getColor"] = <<>>
    BY <2>7 DEF Canaux
  <2>9. requetes["getColor"] \in Seq(RequeteCouleur)
    BY <2>8
  <2>10. entree \in Seq(Messages) /\ Len(entree) = 0 /\ sortie \in Seq(0..10)
    BY <2>7
  <2>11. QED  BY <2>5, <2>6, <2>7, <2>8, <2>9, <2>10 DEF TypesFiles, s
<1>2. TypesMemoire
  <2> DEFINE vide == ""
  <2>1. vide \in Objets \cup {""} /\ 0 \in 0..NB_CUBE /\ 0 \in Couleurs
        /\ Pose(0, 0) \in PoseType /\ SansCube \in Cubes
    BY Constantes
  <2>2. valeur = [couleur |-> 0, objet |-> vide, rang |-> 0, pose |-> Pose(0, 0)]
    BY DEF Init, InitRobot
  <2> HIDE DEF vide
  <2>3. valeur \in ValeurType
    BY <2>1, <2>2 DEF ValeurType
  <2>4. tache \in [PositionsPoste -> BOOLEAN] /\ rep \in [Canaux -> BOOLEAN]
    BY DEF Init, InitRobot
  <2>5. Rpos = Pose(0, 0) /\ couleur_transportee = SansCube /\ retour = 0 /\ erreurs = {}
    BY DEF Init, InitRobot
  <2>6. Rpos \in PoseType /\ couleur_transportee \in Cubes
    BY <2>1, <2>5
  <2>7. retour \in 0..10 /\ erreurs \subseteq {1, 2, 3, 66}
    BY <2>5
  <2>8. QED  BY <2>3, <2>4, <2>6, <2>7 DEF TypesMemoire
<1>3. TypesScene
  BY Constantes, SceneAssumption DEF Init, InitSimulateur, TypesScene
<1>4. TypesCommande
  BY CommandeAssumption DEF Init, InitInterface, InitTopics, TypesCommande
<1>5. QED  BY <1>1, <1>2, <1>3, <1>4 DEF InvTypes

LEMMA TypesPas ==
    ASSUME InvTypes, [Next]_vars
    PROVE  InvTypes'
<1>1. CASE UNCHANGED vars
  BY <1>1 DEF InvTypes, TypesFiles, TypesMemoire, TypesScene, TypesCommande, vars, varsRobot,
              varsMemoire, varsInterface, varsMonde, varsSimulateur, varsTopics
<1>2. CASE \E m \in UNION Programmes : DonneOrdre(m)
  BY <1>2, TypesDonneOrdre
<1>3. CASE \E k \in Genres : Constate(k)
  BY <1>3, TypesConstate
<1>4. CASE Retour
  BY <1>4, TypesRetour
<1>5. CASE Robot
  BY <1>5, TypesRobot
<1>6. CASE \E c \in Canaux : Scene(c)
  BY <1>6, TypesReponse
<1>7. CASE Bras
  BY <1>7 DEF InvTypes, TypesFiles, TypesMemoire, TypesScene, TypesCommande, Bras, BrasBouge,
              varsRobot, varsMemoire, varsInterface, varsTopics
<1>8. CASE \E p \in PositionsNavette : Navette(p)
  BY <1>8 DEF InvTypes, TypesFiles, TypesMemoire, TypesScene, TypesCommande, Navette,
              NavetteBouge, varsRobot, varsMemoire, varsInterface, varsTopics
<1>9. QED  BY <1>1, <1>2, <1>3, <1>4, <1>5, <1>6, <1>7, <1>8 DEF Next
-----------------------------------------------------------------------------
(* One order at a time.                                                    *)
UneALaFois == Compatibles \subseteq {{g} : g \in Genres}

TacheDe(p) == IF p = 1 THEN "tache1" ELSE "tache4"

(* What the command waits for to know that an order is finished. *)
Signales == {"deplacer", "tache1", "tache4"}
FinDe(g) == IF g = "deplacer" THEN 10 ELSE IF g = "tache1" THEN 8 ELSE 9
Signale(g) ==
    IF g = "deplacer" THEN robotMacroDeplacement = 1 ELSE robotTask[PosteDe(g)] = 1
Annonce(c) == \E i \in 1..Len(sortie) : sortie[i] = c

Oisif == \A i \in 1..Len(appels) : ~Travail(appels[i])
SansOrdre == \A i \in 1..Len(entree) : entree[i].type # "ordre"
SansTache == \A p \in PositionsPoste : ~tache[p]
Vacant == Oisif /\ SansOrdre /\ SansTache
Initialise == robotInit = 0 /\ demandes = {} /\ ~Annonce(0)
EnCours(g) ==
    /\ demandes = {g}
    /\ g \in Signales => ~Signale(g) /\ ~Annonce(FinDe(g))

(* The node has no work left, is still at its init, or has the only order  *)
(* given, whose end the command cannot have read yet.                      *)
UnTravail == Vacant \/ Initialise \/ \E g \in Genres : EnCours(g)

(* An order on its way finds the node without work. *)
OrdreEnRoute ==
    \A i \in 1..Len(entree) : entree[i].type = "ordre" =>
        /\ Oisif /\ SansTache
        /\ demandes = {Genre(entree[i])}
        /\ \A j \in 1..Len(entree) : entree[j].type = "ordre" => i = j

(* The steps are those of the order given; only a movement has several,    *)
(* and its end is the last of them.                                        *)
EtapesAttendues ==
    \A i \in 1..Len(appels) : Travail(appels[i]) =>
        \/ appels[i].op = "init" /\ demandes = {}
        \/ \E g \in Genres : demandes = {g} /\ EtapeDe(g, appels[i])
UneEtape ==
    \A i, j \in 1..Len(appels) :
        Travail(appels[i]) /\ Travail(appels[j]) =>
            i = j \/ demandes \in {{"deplacer"}, {"bras"}}
RetourEnDernier ==
    \A i, j \in 1..Len(appels) : appels[i].op = "retour" /\ j > i => ~Travail(appels[j])
UpdateAuFond ==
    \A i \in 1..Len(appels) : appels[i].op = "update" =>
        i = Len(appels) /\ \A j \in 1..Len(appels) : appels[j].op # "verifier"

(* While a post works nothing else is done. *)
TacheSeule ==
    \A p \in PositionsPoste : tache[p] =>
        /\ demandes = {TacheDe(p)}
        /\ \A i \in 1..Len(appels) : Travail(appels[i]) => appels[i].op = "update"

(* An end is under way once, and only that of the order given. *)
FinsAttendues ==
    \A g \in Signales : Annonce(FinDe(g)) =>
        \/ /\ demandes = {g} /\ ~Signale(g)
           /\ \A i, j \in 1..Len(sortie) :
                sortie[i] = FinDe(g) /\ sortie[j] = FinDe(g) => i = j
        \/ demandes = {"stopTache"} /\ g # "deplacer"

InvEtapes == EtapesAttendues /\ UneEtape /\ RetourEnDernier /\ UpdateAuFond
InvOrdre == TacheSeule /\ OrdreEnRoute
InvFins == UnTravail /\ FinsAttendues
InvTravail == InvEtapes /\ InvOrdre /\ InvFins

(* What the new stack keeps of the old one: its works were there before,   *)
(* d places further, for the same order.                                   *)
Herite(d) ==
    \A i \in 1..Len(appels') : Travail(appels'[i]) =>
        /\ i + d \in 1..Len(appels) /\ Travail(appels[i + d])
        /\ \A g \in Genres : EtapeDe(g, appels[i + d]) => EtapeDe(g, appels'[i])
        /\ appels[i + d].op = "init" => appels'[i].op = "init"
        /\ appels'[i].op = "retour" => appels[i + d].op = "retour"
        /\ appels[i + d].op = "update" <=> appels'[i].op = "update"
        /\ appels'[i].op = "update" => i = Len(appels')
SansNouveauVerifier ==
    (\E j \in 1..Len(appels') : appels'[j].op = "verifier")
        => \/ \E j \in 1..Len(appels) : appels[j].op = "verifier"
           \/ \A i \in 1..Len(appels') : appels'[i].op # "update"
MemesOrdres(d) ==
    \A i \in 1..Len(entree') : entree'[i].type = "ordre" =>
        i + d \in 1..Len(entree) /\ entree'[i] = entree[i + d]

LEMMA EtapesHeritees ==
    ASSUME InvTypes, InvTypes', InvEtapes, NEW d \in Int, Herite(d), SansNouveauVerifier,
           demandes' = demandes
    PROVE  InvEtapes' /\ (Oisif => Oisif')
<1>1. Len(appels') \in Nat /\ Len(appels) \in Nat
  BY DEF InvTypes, TypesFiles
<1>2. EtapesAttendues'
  <2> SUFFICES ASSUME NEW i \in 1..Len(appels'), Travail(appels'[i])
               PROVE  \/ appels'[i].op = "init" /\ demandes' = {}
                      \/ \E g \in Genres : demandes' = {g} /\ EtapeDe(g, appels'[i])
    BY DEF EtapesAttendues
  <2>1. /\ i + d \in 1..Len(appels) /\ Travail(appels[i + d])
        /\ \A g \in Genres : EtapeDe(g, appels[i + d]) => EtapeDe(g, appels'[i])
        /\ appels[i + d].op = "init" => appels'[i].op = "init"
    BY DEF Herite
  <2>2. \/ appels[i + d].op = "init" /\ demandes = {}
        \/ \E g \in Genres : demandes = {g} /\ EtapeDe(g, appels[i + d])
    BY <2>1 DEF InvEtapes, EtapesAttendues
  <2>3. QED  BY <2>1, <2>2
<1>3. UneEtape'
  <2> SUFFICES ASSUME NEW i \in 1..Len(appels'), NEW j \in 1..Len(appels'),
                      Travail(appels'[i]), Travail(appels'[j])
               PROVE  i = j \/ demandes' \in {{"deplacer"}, {"bras"}}
    BY DEF UneEtape
  <2>1. /\ i + d \in 1..Len(appels) /\ Travail(appels[i + d])
        /\ j + d \in 1..Len(appels) /\ Travail(appels[j + d])
    BY DEF Herite
  <2>2. i + d = j + d \/ demandes \in {{"deplacer"}, {"bras"}}
    BY <2>1 DEF InvEtapes, UneEtape
  <2>3. QED  BY <1>1, <2>2
<1>4. RetourEnDernier'
  <2> SUFFICES ASSUME NEW i \in 1..Len(appels'), NEW j \in 1..Len(appels'),
                      appels'[i].op = "retour", j > i, Travail(appels'[j])
               PROVE  FALSE
    BY DEF RetourEnDernier
  <2>1. Travail(appels'[i])
    BY DEF Travail
  <2>2. /\ i + d \in 1..Len(appels) /\ appels[i + d].op = "retour"
        /\ j + d \in 1..Len(appels) /\ Travail(appels[j + d])
    BY <2>1 DEF Herite
  <2>3. j + d > i + d
    BY <1>1
  <2>4. QED  BY <2>2, <2>3 DEF InvEtapes, RetourEnDernier
<1>5. UpdateAuFond'
  <2> SUFFICES ASSUME NEW i \in 1..Len(appels'), appels'[i].op = "update"
               PROVE  /\ i = Len(appels')
                      /\ \A j \in 1..Len(appels') : appels'[j].op # "verifier"
    BY DEF UpdateAuFond
  <2>1. Travail(appels'[i])
    BY DEF Travail
  <2>2. i + d \in 1..Len(appels) /\ appels[i + d].op = "update" /\ i = Len(appels')
    BY <2>1 DEF Herite
  <2>3. ~\E j \in 1..Len(appels) : appels[j].op = "verifier"
    BY <2>2 DEF InvEtapes, UpdateAuFond
  <2>4. QED  BY <2>2, <2>3 DEF SansNouveauVerifier
<1>6. Oisif => Oisif'
  BY DEF Oisif, Herite
<1>7. QED  BY <1>2, <1>3, <1>4, <1>5, <1>6 DEF InvEtapes

LEMMA OrdreHerite ==
    ASSUME InvTypes, InvTypes', InvOrdre, NEW d \in Int, Herite(d), NEW n \in Int,
           MemesOrdres(n), Oisif => Oisif', demandes' = demandes,
           \A p \in PositionsPoste : tache'[p] => tache[p]
    PROVE  InvOrdre' /\ (Vacant => Vacant')
<1>1. TacheSeule'
  <2> SUFFICES ASSUME NEW p \in PositionsPoste, tache'[p]
               PROVE  /\ demandes' = {TacheDe(p)}
                      /\ \A i \in 1..Len(appels') :
                           Travail(appels'[i]) => appels'[i].op = "update"
    BY DEF TacheSeule
  <2>1. /\ demandes = {TacheDe(p)}
        /\ \A i \in 1..Len(appels) : Travail(appels[i]) => appels[i].op = "update"
    BY DEF InvOrdre, TacheSeule
  <2>2. QED  BY <2>1 DEF Herite
<1>2. SansTache => SansTache'
  BY DEF SansTache
<1>3. OrdreEnRoute'
  <2> SUFFICES ASSUME NEW i \in 1..Len(entree'), entree'[i].type = "ordre"
               PROVE  /\ Oisif' /\ SansTache'
                      /\ demandes' = {Genre(entree'[i])}
                      /\ \A j \in 1..Len(entree') : entree'[j].type = "ordre" => i = j
    BY DEF OrdreEnRoute
  <2>1. i + n \in 1..Len(entree) /\ entree'[i] = entree[i + n]
    BY DEF MemesOrdres
  <2>2. /\ Oisif /\ SansTache
        /\ demandes = {Genre(entree[i + n])}
        /\ \A j \in 1..Len(entree) : entree[j].type = "ordre" => i + n = j
    BY <2>1 DEF InvOrdre, OrdreEnRoute
  <2>3. ASSUME NEW j \in 1..Len(entree'), entree'[j].type = "ordre"
        PROVE  i = j
    <3>1. j + n \in 1..Len(entree) /\ entree[j + n].type = "ordre"
      BY <2>3 DEF MemesOrdres
    <3>2. i + n = j + n
      BY <2>2, <3>1
    <3>3. QED  BY <3>2
  <2>4. QED  BY <1>2, <2>1, <2>2, <2>3
<1>4. SansOrdre => SansOrdre'
  BY DEF SansOrdre, MemesOrdres
<1>5. QED  BY <1>1, <1>2, <1>3, <1>4 DEF InvOrdre, Vacant

(* What is told to the command. *)
LEMMA AnnoncesAjoutees ==
    ASSUME TypesFiles, NEW code \in 0..10, sortie' = Append(sortie, code)
    PROVE  /\ \A c : Annonce(c)' <=> Annonce(c) \/ c = code
           /\ \A c : c # code /\ (\A i, j \in 1..Len(sortie) :
                                    sortie[i] = c /\ sortie[j] = c => i = j)
                => \A i, j \in 1..Len(sortie') : sortie'[i] = c /\ sortie'[j] = c => i = j
           /\ ~Annonce(code) => \A i, j \in 1..Len(sortie') :
                                  sortie'[i] = code /\ sortie'[j] = code => i = j
<1>1. sortie \in Seq(0..10) /\ Len(sortie) \in Nat
  BY DEF TypesFiles
<1>2. /\ Len(sortie') = Len(sortie) + 1
      /\ \A i \in 1..Len(sortie) : sortie'[i] = sortie[i]
      /\ sortie'[Len(sortie) + 1] = code
  BY <1>1
<1>3. \A i \in 1..Len(sortie') : i \in 1..Len(sortie) \/ i = Len(sortie) + 1
  BY <1>1, <1>2
<1>4. \A i \in 1..Len(sortie) : i \in 1..Len(sortie')
  BY <1>1, <1>2
<1>5. Len(sortie) + 1 \in 1..Len(sortie')
  BY <1>1, <1>2
<1>6. \A c : Annonce(c)' <=> Annonce(c) \/ c = code
  BY <1>2, <1>3, <1>4, <1>5 DEF Annonce
<1>7. QED  BY <1>2, <1>3, <1>6 DEF Annonce

(* Without a new end, what was known of the ends is still so. *)
LEMMA FinsGardees ==
    ASSUME InvTypes, InvFins, demandes' = demandes, UNCHANGED varsInterface,
           \/ sortie' = sortie
           \/ \E code \in {2, 4, 5, 6, 7} : sortie' = Append(sortie, code),
           Vacant => Vacant'
    PROVE  InvFins'
<1>1. /\ \A c \in {0, 8, 9, 10} : Annonce(c)' <=> Annonce(c)
      /\ \A c \in {0, 8, 9, 10} :
           (\A i, j \in 1..Len(sortie) : sortie[i] = c /\ sortie[j] = c => i = j)
             => \A i, j \in 1..Len(sortie') : sortie'[i] = c /\ sortie'[j] = c => i = j
  <2>1. CASE sortie' = sortie
    <3>1. \A c : Annonce(c)' <=> Annonce(c)
      BY <2>1, Zenon DEF Annonce
    <3>2. \A c : (\A i, j \in 1..Len(sortie) : sortie[i] = c /\ sortie[j] = c => i = j)
             => \A i, j \in 1..Len(sortie') : sortie'[i] = c /\ sortie'[j] = c => i = j
      BY <2>1, Zenon
    <3>3. QED  BY <3>1, <3>2, Zenon
  <2>2. CASE \E code \in {2, 4, 5, 6, 7} : sortie' = Append(sortie, code)
    <3>1. PICK code \in {2, 4, 5, 6, 7} : sortie' = Append(sortie, code)
      BY <2>2
    <3>2. code \in 0..10 /\ \A c \in {0, 8, 9, 10} : c # code
      OBVIOUS
    <3>3. /\ \A c \in {0, 8, 9, 10} : Annonce(c)' <=> Annonce(c)
          /\ \A c \in {0, 8, 9, 10} :
               (\A i, j \in 1..Len(sortie) : sortie[i] = c /\ sortie[j] = c => i = j)
               => \A i, j \in 1..Len(sortie') : sortie'[i] = c /\ sortie'[j] = c => i = j
      BY <3>1, <3>2, AnnoncesAjoutees, SMTT(20) DEF InvTypes
    <3>4. QED  BY <3>3, Zenon
  <2>3. QED  BY <2>1, <2>2, Zenon
<1>2. \A g \in Signales : FinDe(g) \in {8, 9, 10}
  BY DEF FinDe
<1>3. \A g : Signale(g)' <=> Signale(g)
  BY DEF Signale, varsInterface
<1>4. UnTravail'
  <2>1. CASE Vacant
    BY <2>1 DEF UnTravail
  <2>2. CASE Initialise
    BY <1>1, <2>2 DEF UnTravail, Initialise, varsInterface
  <2>3. CASE \E g \in Genres : EnCours(g)
    BY <1>1, <1>2, <1>3, <2>3 DEF UnTravail, EnCours
  <2>4. QED  BY <2>1, <2>2, <2>3 DEF InvFins, UnTravail
<1>5. FinsAttendues'
  <2> SUFFICES ASSUME NEW g \in Signales, Annonce(FinDe(g))'
               PROVE  \/ /\ demandes' = {g} /\ ~Signale(g)'
                         /\ \A i, j \in 1..Len(sortie') :
                              sortie'[i] = FinDe(g) /\ sortie'[j] = FinDe(g) => i = j
                      \/ demandes' = {"stopTache"} /\ g # "deplacer"
    BY DEF FinsAttendues, FinDe
  <2>1. Annonce(FinDe(g))
    BY <1>1, <1>2 DEF Annonce, FinDe
  <2>2. \/ /\ demandes = {g} /\ ~Signale(g)
           /\ \A i, j \in 1..Len(sortie) :
                sortie[i] = FinDe(g) /\ sortie[j] = FinDe(g) => i = j
        \/ demandes = {"stopTache"} /\ g # "deplacer"
    BY <2>1 DEF InvFins, FinsAttendues
  <2>3. (\A i, j \in 1..Len(sortie) :
            sortie[i] = FinDe(g) /\ sortie[j] = FinDe(g) => i = j)
          => \A i, j \in 1..Len(sortie') :
               sortie'[i] = FinDe(g) /\ sortie'[j] = FinDe(g) => i = j
    <3> DEFINE c == FinDe(g)
    <3>1. c \in {0, 8, 9, 10}
      BY <1>2
    <3> HIDE DEF c
    <3>2. QED  BY <1>1, <3>1, Zenon DEF c
  <2>4. QED  BY <1>3, <2>2, <2>3, Zenon
<1>6. QED  BY <1>4, <1>5 DEF InvFins
-----------------------------------------------------------------------------
(* Who works, and for what.                                                *)
LEMMA EtapeUtile ==
    ASSUME NEW g \in Genres, NEW e, EtapeDe(g, e)
    PROVE  /\ e.op = "retour" => g = "deplacer"
           /\ e.op = "stopTache" => g = "stopTache"
           /\ e.op \in {"lireDebut", "peindreDebut", "confirmer"} =>
                g \in {"tache1", "tache4"} /\ e.pos = PosteDe(g)
           /\ e.op # "init"
<1>1. /\ e.op \in OpsDe(g)
      /\ g \in {"tache1", "tache4"} /\ e.op # "update" => e.pos = PosteDe(g)
  BY DEF EtapeDe
<1>2. CASE g = "deplacer"
  BY <1>1, <1>2, OpsDuGenre
<1>3. CASE g = "bras"
  BY <1>1, <1>3, OpsDuGenre
<1>4. CASE g \in {"tache1", "tache4"}
  <2>1. e.op \in {"tache", "lireDebut", "peindreDebut", "update", "lireFin",
                  "peindreFin", "confirmer"}
    BY <1>1, <1>4, OpsDuGenre
  <2>2. QED  BY <1>1, <1>4, <2>1
<1>5. CASE g = "evacuer"
  BY <1>1, <1>5, OpsDuGenre
<1>6. CASE g = "stopTache"
  BY <1>1, <1>6, OpsDuGenre
<1>7. QED  BY <1>2, <1>3, <1>4, <1>5, <1>6 DEF Genres

LEMMA Occupee ==
    ASSUME InvTypes, InvTravail, NEW i \in 1..Len(appels), Travail(appels[i]),
           appels[i].op # "update"
    PROVE  /\ SansOrdre /\ SansTache /\ ~Vacant
           /\ \/ appels[i].op = "init" /\ Initialise
              \/ \E g \in Genres : EtapeDe(g, appels[i]) /\ EnCours(g)
<1>1. ~Oisif
  BY DEF Oisif
<1>2. SansOrdre /\ ~Vacant
  BY <1>1 DEF SansOrdre, Vacant, InvTravail, InvOrdre, OrdreEnRoute
<1>3. SansTache
  BY DEF SansTache, InvTravail, InvOrdre, TacheSeule
<1>4. Initialise \/ \E g \in Genres : EnCours(g)
  BY <1>2 DEF InvTravail, InvFins, UnTravail
<1>5. CASE appels[i].op = "init" /\ demandes = {}
  BY <1>2, <1>3, <1>4, <1>5 DEF EnCours
<1>6. CASE \E g \in Genres : demandes = {g} /\ EtapeDe(g, appels[i])
  <2>1. PICK g \in Genres : demandes = {g} /\ EtapeDe(g, appels[i])
    BY <1>6
  <2>2. EnCours(g)
    BY <1>4, <2>1 DEF Initialise, EnCours
  <2>3. QED  BY <1>2, <1>3, <2>1, <2>2
<1>7. QED
  BY <1>5, <1>6 DEF InvTravail, InvEtapes, EtapesAttendues

LEMMA RienDePlus ==
    ASSUME InvTypes', Vacant'
    PROVE  InvOrdre' /\ (appels' = appels /\ InvEtapes => InvEtapes')
<1>1. InvOrdre'
  BY DEF Vacant, SansOrdre, SansTache, InvOrdre, TacheSeule, OrdreEnRoute
<1>2. ASSUME appels' = appels, InvEtapes
      PROVE  InvEtapes'
  <2>1. EtapesAttendues' /\ UneEtape'
    BY DEF Vacant, Oisif, EtapesAttendues, UneEtape
  <2>2. RetourEnDernier' /\ UpdateAuFond'
    BY <1>2 DEF InvEtapes, RetourEnDernier, UpdateAuFond
  <2>3. QED  BY <2>1, <2>2 DEF InvEtapes
<1>3. QED  BY <1>1, <1>2
-----------------------------------------------------------------------------
(* How each kind of step changes the stack.                                *)
LEMMA PoursuitHerite ==
    ASSUME InvTypes, InvEtapes, NEW f, Poursuit(f), MemeTravail(f)
    PROVE  Herite(0) /\ SansNouveauVerifier /\ 1 \in 1..Len(appels) /\ Courant = appels[1]
<1>1. /\ appels # <<>> /\ 1 \in 1..Len(appels) /\ Courant = appels[1]
  BY Tete DEF Poursuit, InvTypes
<1>2. /\ Len(appels') = Len(appels) /\ appels'[1] = f
      /\ \A i \in 2..Len(appels) : appels'[i] = appels[i]
      /\ Len(appels) \in Nat
  BY PilePoursuit DEF InvTypes
<1>3. /\ Travail(appels[1]) /\ appels[1].op # "update" /\ Travail(f)
      /\ \A g \in Genres : EtapeDe(g, appels[1]) => EtapeDe(g, f)
      /\ appels[1].op = "init" => f.op = "init"
      /\ f.op # "retour" /\ f.op # "update"
  BY <1>1 DEF MemeTravail, Poursuit
<1>4. \A i \in 1..Len(appels') : i = 1 \/ i \in 2..Len(appels)
  BY <1>2
<1>5. \A i \in 1..Len(appels) : appels[i].op = "update" => i = Len(appels)
  BY DEF InvEtapes, UpdateAuFond
<1>6. ASSUME NEW i \in 1..Len(appels'), Travail(appels'[i])
      PROVE  /\ i + 0 \in 1..Len(appels) /\ Travail(appels[i + 0])
             /\ \A g \in Genres : EtapeDe(g, appels[i + 0]) => EtapeDe(g, appels'[i])
             /\ appels[i + 0].op = "init" => appels'[i].op = "init"
             /\ appels'[i].op = "retour" => appels[i + 0].op = "retour"
             /\ appels[i + 0].op = "update" <=> appels'[i].op = "update"
             /\ appels'[i].op = "update" => i = Len(appels')
  <2>1. i + 0 = i /\ i \in 1..Len(appels)
    BY <1>2
  <2>2. CASE i = 1
    BY <1>2, <1>3, <2>1, <2>2
  <2>3. CASE i \in 2..Len(appels)
    BY <1>2, <1>5, <1>6, <2>1, <2>3
  <2>4. QED  BY <1>4, <2>2, <2>3
<1>7. SansNouveauVerifier
  <2>1. f.op # "verifier"
    BY <1>3 DEF Travail
  <2>2. ASSUME NEW j \in 1..Len(appels'), appels'[j].op = "verifier"
        PROVE  \E k \in 1..Len(appels) : appels[k].op = "verifier"
    <3>1. j \in 2..Len(appels)
      BY <1>2, <1>4, <2>1, <2>2
    <3>2. j \in 1..Len(appels) /\ appels[j].op = "verifier"
      BY <1>2, <2>2, <3>1
    <3>3. QED  BY <3>2
  <2>3. QED  BY <2>2 DEF SansNouveauVerifier
<1>8. QED  BY <1>1, <1>6, <1>7 DEF Herite

(* The stack shifted by one place, up or down. *)
LEMMA DecaleHerite ==
    ASSUME InvTypes, InvTypes', InvEtapes, NEW d \in {-1, 0, 1},
           \A i \in 1..Len(appels') :
             \/ appels'[i].op = "lot"
             \/ i + d \in 1..Len(appels) /\ appels'[i] = appels[i + d],
           Len(appels') = Len(appels) - d
    PROVE  Herite(d) /\ SansNouveauVerifier
<1>1. Len(appels) \in Nat
  BY DEF InvTypes, TypesFiles
<1>2. \A i \in 1..Len(appels) : appels[i].op = "update" => i = Len(appels)
  BY DEF InvEtapes, UpdateAuFond
<1>3. ASSUME NEW i \in 1..Len(appels'), appels'[i].op # "lot"
      PROVE  /\ i + d \in 1..Len(appels) /\ appels'[i] = appels[i + d]
             /\ appels'[i].op = "update" => i = Len(appels')
  <2>1. i + d \in 1..Len(appels) /\ appels'[i] = appels[i + d]
    BY <1>3
  <2>2. appels'[i].op = "update" => i + d = Len(appels)
    BY <1>2, <2>1
  <2>3. QED  BY <1>1, <2>1, <2>2
<1>4. Herite(d)
  BY <1>3 DEF Herite, Travail
<1>5. SansNouveauVerifier
  BY <1>3 DEF SansNouveauVerifier
<1>6. QED  BY <1>4, <1>5

LEMMA TermineHerite ==
    ASSUME InvTypes, InvTypes', InvEtapes, Termine
    PROVE  /\ Herite(1) /\ SansNouveauVerifier
           /\ 1 \in 1..Len(appels) /\ Courant = appels[1]
           /\ \A i \in 1..Len(appels') : /\ i + 1 \in 1..Len(appels)
                                         /\ appels'[i] = appels[i + 1]
<1>1. 1 \in 1..Len(appels) /\ Courant = appels[1]
  BY Tete DEF Termine, InvTypes
<1>2. /\ Len(appels') = Len(appels) - 1
      /\ \A i \in 1..Len(appels') : i + 1 \in 1..Len(appels) /\ appels'[i] = appels[i + 1]
  BY PileTermine DEF InvTypes
<1>3. Herite(1) /\ SansNouveauVerifier
  BY <1>2, DecaleHerite
<1>4. QED  BY <1>1, <1>2, <1>3

LEMMA PileInchangee ==
    ASSUME InvTypes, InvTypes', InvEtapes, appels' = appels
    PROVE  Herite(0) /\ SansNouveauVerifier
<1>1. Len(appels) \in Nat
  BY DEF InvTypes, TypesFiles
<1>2. \A i \in 1..Len(appels') : i + 0 \in 1..Len(appels) /\ appels'[i] = appels[i + 0]
  BY <1>1
<1>3. Len(appels') = Len(appels) - 0
  BY <1>1
<1>4. QED  BY <1>2, <1>3, DecaleHerite

LEMMA EntreeInchangee ==
    ASSUME InvTypes, entree' = entree
    PROVE  MemesOrdres(0)
<1>1. Len(entree) \in Nat
  BY DEF InvTypes, TypesFiles
<1>2. QED  BY <1>1 DEF MemesOrdres

(* A step that gives no new work and tells no end of an order. *)
LEMMA TravailGarde ==
    ASSUME InvTypes, InvTypes', InvTravail,
           NEW d \in Int, Herite(d), SansNouveauVerifier, NEW n \in Int, MemesOrdres(n),
           demandes' = demandes, \A p \in PositionsPoste : tache'[p] => tache[p]
    PROVE  /\ InvEtapes' /\ InvOrdre' /\ (Oisif => Oisif') /\ (Vacant => Vacant')
           /\ /\ UNCHANGED varsInterface
              /\ \/ sortie' = sortie
                 \/ \E code \in {2, 4, 5, 6, 7} : sortie' = Append(sortie, code)
              => InvTravail'
<1>1. InvEtapes' /\ (Oisif => Oisif')
  BY EtapesHeritees DEF InvTravail
<1>2. InvOrdre' /\ (Vacant => Vacant')
  BY <1>1, OrdreHerite DEF InvTravail
<1>3. QED  BY <1>1, <1>2, FinsGardees DEF InvTravail
-----------------------------------------------------------------------------
(* The ends of the orders. *)
LEMMA SeulEtape ==
    ASSUME InvTypes, InvTypes', InvTravail, Termine, Travail(Courant), Courant.op # "update",
           \A p \in PositionsPoste : tache'[p] => tache[p], demandes' = demandes,
           demandes \notin {{"deplacer"}, {"bras"}} \/ Courant.op = "retour"
    PROVE  InvEtapes' /\ InvOrdre' /\ Vacant'
<1>1. /\ Herite(1) /\ SansNouveauVerifier
      /\ 1 \in 1..Len(appels) /\ Courant = appels[1]
      /\ \A i \in 1..Len(appels') : i + 1 \in 1..Len(appels) /\ appels'[i] = appels[i + 1]
  BY TermineHerite DEF InvTravail
<1>2. entree' = entree
  BY DEF Termine
<1>3. InvEtapes' /\ InvOrdre'
  BY <1>1, <1>2, EntreeInchangee, TravailGarde
<1>4. SansOrdre /\ SansTache
  BY <1>1, Occupee
<1>5. ASSUME NEW i \in 1..Len(appels'), Travail(appels'[i])
      PROVE  FALSE
  <2>1. i + 1 \in 1..Len(appels) /\ Travail(appels[i + 1]) /\ i + 1 > 1 /\ i + 1 # 1
    BY <1>1, <1>5
  <2>2. CASE demandes \notin {{"deplacer"}, {"bras"}}
    BY <1>1, <2>1, <2>2 DEF InvTravail, InvEtapes, UneEtape
  <2>3. CASE Courant.op = "retour"
    BY <1>1, <2>1, <2>3 DEF InvTravail, InvEtapes, RetourEnDernier
  <2>4. QED  BY <2>2, <2>3
<1>6. Vacant'
  BY <1>2, <1>4, <1>5 DEF Vacant, Oisif, SansOrdre, SansTache
<1>7. QED  BY <1>3, <1>6

LEMMA FinInit ==
    ASSUME InvTypes, InvTypes', InvTravail, Termine, Courant.op = "init",
           sortie' = Append(sortie, 0), tache' = tache, UNCHANGED <<varsInterface, demandes>>
    PROVE  InvTravail'
<1>1. Travail(Courant) /\ Courant.op # "update" /\ 1 \in 1..Len(appels) /\ Courant = appels[1]
  BY Tete DEF Termine, InvTypes, Travail
<1>2. Initialise
  BY <1>1, Occupee, EtapeUtile
<1>3. demandes = {}
  BY <1>2 DEF Initialise
<1>4. demandes \notin {{"deplacer"}, {"bras"}}
  BY <1>3
<1>5. InvEtapes' /\ InvOrdre' /\ Vacant'
  BY <1>1, <1>4, SeulEtape
<1>6. FinsAttendues'
  <2>1. \A g \in Signales : FinDe(g) # 0
    BY DEF FinDe
  <2>2. \A g \in Signales : ~Annonce(FinDe(g))
    BY <1>3 DEF InvTravail, InvFins, FinsAttendues
  <2>3. 0 \in 0..10
    OBVIOUS
  <2>4. \A g \in Signales : ~Annonce(FinDe(g))'
    BY <2>1, <2>2, <2>3, AnnoncesAjoutees DEF InvTypes, FinDe
  <2>5. QED  BY <2>4 DEF FinsAttendues, FinDe, Annonce
<1>7. QED  BY <1>5, <1>6 DEF InvTravail, InvFins, UnTravail

LEMMA FinOrdre ==
    ASSUME InvTypes, InvTypes', InvTravail, NEW g \in Signales, EnCours(g), Vacant',
           InvEtapes', InvOrdre', sortie' = Append(sortie, FinDe(g)),
           UNCHANGED <<varsInterface, demandes>>
    PROVE  InvTravail'
<1>1. FinDe(g) \in 0..10 /\ \A h \in Signales : FinDe(h) = FinDe(g) => h = g
  BY DEF FinDe, Signales
<1>2. demandes = {g} /\ ~Signale(g) /\ ~Annonce(FinDe(g))
  BY DEF EnCours
<1>3. Signale(g)' <=> Signale(g)
  BY DEF Signale, varsInterface
<1>4. \A i, j \in 1..Len(sortie') : sortie'[i] = FinDe(g) /\ sortie'[j] = FinDe(g) => i = j
  BY <1>1, <1>2, AnnoncesAjoutees DEF InvTypes
<1>5. FinsAttendues'
  <2> SUFFICES ASSUME NEW h \in Signales, Annonce(FinDe(h))'
               PROVE  h = g
    BY <1>2, <1>3, <1>4 DEF FinsAttendues, FinDe
  <2>1. CASE FinDe(h) = FinDe(g)
    BY <1>1, <2>1
  <2>2. CASE FinDe(h) # FinDe(g)
    <3>1. \A c : Annonce(c)' <=> Annonce(c) \/ c = FinDe(g)
      BY <1>1, AnnoncesAjoutees DEF InvTypes
    <3>2. Annonce(FinDe(h))
      BY <2>2, <3>1 DEF Annonce, FinDe
    <3>3. demandes = {h} \/ demandes = {"stopTache"}
      BY <3>2 DEF InvTravail, InvFins, FinsAttendues
    <3>4. QED  BY <1>2, <3>3 DEF Signales
  <2>3. QED  BY <2>1, <2>2
<1>6. QED  BY <1>5 DEF InvTravail, InvFins, UnTravail

LEMMA TravailFinsDOrdre ==
    ASSUME InvTypes, InvTypes', InvTravail, UNCHANGED <<varsInterface, demandes>>,
           RetourFin \/ TacheImpossible \/ TacheTerminee
    PROVE  InvTravail'
<1>1. CASE RetourFin
  <2>1. Courant.op = "retour" /\ Termine /\ tache' = tache /\ sortie' = Append(sortie, 10)
    BY <1>1, FinsDOrdre DEF InvTypes, FinCode
  <2>2. Travail(Courant) /\ Courant.op # "update" /\ 1 \in 1..Len(appels) /\ Courant = appels[1]
    BY <2>1, Tete DEF Termine, InvTypes, Travail
  <2>3. EnCours("deplacer")
    BY <2>1, <2>2, Occupee, EtapeUtile
  <2>4. InvEtapes' /\ InvOrdre' /\ Vacant'
    BY <2>1, <2>2, SeulEtape
  <2>5. sortie' = Append(sortie, FinDe("deplacer")) /\ "deplacer" \in Signales
    BY <2>1 DEF FinDe, Signales
  <2>6. QED  BY <2>3, <2>4, <2>5, FinOrdre
<1>2. CASE TacheImpossible \/ TacheTerminee
  <2>1. /\ Courant.op \in {"lireDebut", "confirmer"} /\ Courant.pos \in PositionsPoste
        /\ Termine /\ tache' = tache
        /\ sortie' = Append(sortie, IF Courant.pos = 1 THEN 8 ELSE 9)
    BY <1>2, FinsDOrdre DEF InvTypes, FinCode
  <2>2. Travail(Courant) /\ Courant.op # "update" /\ 1 \in 1..Len(appels) /\ Courant = appels[1]
    BY <2>1, Tete DEF Termine, InvTypes, Travail
  <2>3. PICK g \in Genres : EtapeDe(g, Courant) /\ EnCours(g)
    BY <2>1, <2>2, Occupee
  <2>4. g \in {"tache1", "tache4"} /\ Courant.pos = PosteDe(g)
    BY <2>1, <2>3, EtapeUtile
  <2>5. demandes = {g}
    BY <2>3 DEF EnCours
  <2>6. demandes \notin {{"deplacer"}, {"bras"}}
    BY <2>4, <2>5
  <2>7. InvEtapes' /\ InvOrdre' /\ Vacant'
    BY <2>1, <2>2, <2>6, SeulEtape
  <2>8. sortie' = Append(sortie, FinDe(g)) /\ g \in Signales
    BY <2>1, <2>4 DEF FinDe, Signales, PosteDe
  <2>9. QED  BY <2>3, <2>7, <2>8, FinOrdre
<1>3. QED  BY <1>1, <1>2

LEMMA TravailStop ==
    ASSUME InvTypes, InvTypes', InvTravail, UNCHANGED <<varsInterface, demandes>>, StopTache
    PROVE  InvTravail'
<1> DEFINE code == IF Courant.pos = 1 THEN 8 ELSE 9
<1>1. /\ Courant.op = "stopTache" /\ Courant.pos \in PositionsPoste
      /\ Termine /\ sortie' = Append(sortie, code)
      /\ tache' = [tache EXCEPT ![Courant.pos] = FALSE]
  BY StopDeTache DEF InvTypes
<1>2. Travail(Courant) /\ Courant.op # "update" /\ 1 \in 1..Len(appels) /\ Courant = appels[1]
  BY <1>1, Tete DEF Termine, InvTypes, Travail
<1>3. demandes = {"stopTache"}
  BY <1>1, <1>2, Occupee, EtapeUtile DEF EnCours
<1>4. demandes \notin {{"deplacer"}, {"bras"}}
  BY <1>3
<1>5. \A p \in PositionsPoste : tache'[p] => tache[p]
  BY <1>1 DEF InvTypes, TypesMemoire
<1>6. InvEtapes' /\ InvOrdre' /\ Vacant'
  BY <1>1, <1>2, <1>4, <1>5, SeulEtape
<1>7. FinsAttendues'
  <2>1. code \in 0..10 /\ code # FinDe("deplacer")
    BY DEF FinDe
  <2>2. ~Annonce(FinDe("deplacer"))
    BY <1>3 DEF InvTravail, InvFins, FinsAttendues, Signales
  <2>3. \A c : Annonce(c)' <=> Annonce(c) \/ c = code
    BY <1>1, <2>1, AnnoncesAjoutees DEF InvTypes
  <2>4. ~Annonce(FinDe("deplacer"))'
    BY <2>1, <2>2, <2>3 DEF Annonce, FinDe
  <2>5. QED  BY <1>3, <2>4 DEF FinsAttendues
<1>8. QED  BY <1>6, <1>7 DEF InvTravail, InvFins, UnTravail

(* A task begins. *)
LEMMA TravailDebut ==
    ASSUME InvTypes, InvTypes', InvTravail, UNCHANGED <<varsInterface, demandes>>, DebutTask
    PROVE  InvTravail'
<1>1. /\ Courant.op = "peindreDebut" /\ Courant.pos \in PositionsPoste
      /\ Termine /\ sortie' = sortie /\ tache' = [tache EXCEPT ![Courant.pos] = TRUE]
  BY DebutDeTache DEF InvTypes
<1>2. Travail(Courant) /\ Courant.op # "update"
  BY <1>1 DEF Travail
<1>3. /\ Herite(1) /\ SansNouveauVerifier
      /\ 1 \in 1..Len(appels) /\ Courant = appels[1]
      /\ \A i \in 1..Len(appels') : i + 1 \in 1..Len(appels) /\ appels'[i] = appels[i + 1]
  BY <1>1, TermineHerite DEF InvTravail
<1>4. InvEtapes'
  BY <1>3, EtapesHeritees DEF InvTravail
<1>5. SansOrdre /\ SansTache /\ ~Vacant
  BY <1>2, <1>3, Occupee
<1>6. PICK g \in Genres : EtapeDe(g, Courant) /\ EnCours(g)
  BY <1>1, <1>2, <1>3, Occupee
<1>7. g \in {"tache1", "tache4"} /\ Courant.pos = PosteDe(g) /\ demandes = {g}
  BY <1>1, <1>6, EtapeUtile DEF EnCours
<1>8. g = TacheDe(Courant.pos) /\ demandes \notin {{"deplacer"}, {"bras"}}
  BY <1>7 DEF TacheDe, PosteDe
<1>9. Oisif'
  <2> SUFFICES ASSUME NEW i \in 1..Len(appels'), Travail(appels'[i])
               PROVE  FALSE
    BY DEF Oisif
  <2>1. i + 1 \in 1..Len(appels) /\ Travail(appels[i + 1]) /\ i + 1 # 1
    BY <1>3
  <2>2. QED
    BY <1>2, <1>3, <1>8, <2>1 DEF InvTravail, InvEtapes, UneEtape
<1>10. TacheSeule'
  <2>1. \A p \in PositionsPoste : tache'[p] => p = Courant.pos
    BY <1>1, <1>5 DEF InvTypes, TypesMemoire, SansTache
  <2>2. QED  BY <1>7, <1>8, <1>9, <2>1 DEF TacheSeule, Oisif
<1>11. OrdreEnRoute'
  BY <1>1, <1>5 DEF OrdreEnRoute, SansOrdre, Termine
<1>12. UnTravail'
  BY <1>1, <1>6 DEF UnTravail, EnCours, Signale, Annonce, varsInterface
<1>13. FinsAttendues'
  BY <1>1 DEF InvTravail, InvFins, FinsAttendues, Signale, Annonce, varsInterface
<1>14. QED
  BY <1>4, <1>10, <1>11, <1>12, <1>13 DEF InvTravail, InvOrdre, InvFins
-----------------------------------------------------------------------------
(* update and its ends. *)
LEMMA TravailUpdate ==
    ASSUME InvTypes, InvTypes', InvTravail, UNCHANGED <<varsInterface, demandes>>, Update
    PROVE  InvTravail'
<1>1. /\ appels = <<>> /\ \E p \in PositionsPoste : tache[p]
      /\ Len(appels') = 1 /\ appels'[1].op = "update"
      /\ UNCHANGED <<entree, sortie, tache>>
  BY UpdateSuite DEF InvTypes
<1>2. PICK p \in PositionsPoste : tache[p]
  BY <1>1
<1>3. demandes = {TacheDe(p)} /\ ~SansTache /\ ~Vacant
  BY <1>2 DEF InvTravail, InvOrdre, TacheSeule, SansTache, Vacant
<1>4. TacheDe(p) \in Genres /\ EtapeDe(TacheDe(p), appels'[1])
  <2>1. TacheDe(p) \in {"tache1", "tache4"}
    BY DEF TacheDe
  <2>2. "update" \in OpsDe(TacheDe(p))
    BY <2>1, OpsDuGenre
  <2>3. QED  BY <1>1, <2>1, <2>2 DEF EtapeDe, Genres
<1>5. \A i \in 1..Len(appels') : i = 1
  BY <1>1
<1>6. InvEtapes'
  <2>1. EtapesAttendues' /\ UneEtape'
    BY <1>3, <1>4, <1>5 DEF EtapesAttendues, UneEtape
  <2>2. RetourEnDernier'
    BY <1>1, <1>5 DEF RetourEnDernier
  <2>3. UpdateAuFond'
    BY <1>1, <1>5 DEF UpdateAuFond
  <2>4. QED  BY <2>1, <2>2, <2>3 DEF InvEtapes
<1>7. TacheSeule'
  BY <1>1, <1>5 DEF InvTravail, InvOrdre, TacheSeule
<1>8. OrdreEnRoute'
  BY <1>1, <1>3 DEF InvTravail, InvOrdre, OrdreEnRoute, SansTache
<1>9. UnTravail'
  BY <1>1, <1>3 DEF InvTravail, InvFins, UnTravail, EnCours, Initialise, Signale, Annonce,
                    varsInterface
<1>10. FinsAttendues'
  BY <1>1 DEF InvTravail, InvFins, FinsAttendues, Signale, Annonce, varsInterface
<1>11. QED  BY <1>6, <1>7, <1>8, <1>9, <1>10 DEF InvTravail, InvOrdre, InvFins

LEMMA TravailHeure ==
    ASSUME InvTypes, InvTypes', InvTravail, UNCHANGED <<varsInterface, demandes>>, UpdateHeure
    PROVE  InvTravail'
<1>1. /\ appels # <<>> /\ Courant.op = "update"
      /\ Len(appels') = Len(appels) + 1 /\ Len(appels) \in Nat
      /\ \A i \in 1..2 : appels'[i].op = "verifier"
      /\ \A i \in 1..Len(appels') :
           i \in 1..2 \/ \E j \in 2..Len(appels) : i = j + 1 /\ appels'[i] = appels[j]
      /\ UNCHANGED <<varsTopics, tache>>
  BY UpdateHeureSuite DEF InvTypes
<1>2. 1 \in 1..Len(appels) /\ appels[1].op = "update"
  BY <1>1, Tete DEF InvTypes
<1>3. Len(appels) = 1
  BY <1>2 DEF InvTravail, InvEtapes, UpdateAuFond
<1>4. \A i \in 1..Len(appels') : appels'[i].op = "verifier"
  BY <1>1, <1>3
<1>5. Herite(-1) /\ SansNouveauVerifier
  BY <1>4 DEF Herite, SansNouveauVerifier, Travail
<1>6. MemesOrdres(0)
  BY <1>1, EntreeInchangee DEF varsTopics
<1>7. QED  BY <1>1, <1>5, <1>6, TravailGarde DEF varsTopics

LEMMA TravailEchue ==
    ASSUME InvTypes, InvTypes', InvTravail, UNCHANGED <<varsInterface, demandes>>, TacheEchue
    PROVE  InvTravail'
<1>1. /\ Courant.op = "verifier" /\ Courant.pos \in PositionsPoste
      /\ tache[Courant.pos] /\ tache' = [tache EXCEPT ![Courant.pos] = FALSE]
      /\ sortie' = sortie
  BY TacheQuiFinit DEF InvTypes
<1>2. PICK f \in EtapeType : /\ Poursuit(f) /\ f.op = "lireFin" /\ f.pos = Courant.pos
  BY TacheQuiFinit DEF InvTypes
<1>3. /\ Len(appels') = Len(appels) /\ appels'[1] = f
      /\ \A i \in 2..Len(appels) : appels'[i] = appels[i]
      /\ Len(appels) \in Nat
  BY <1>2, PilePoursuit DEF InvTypes
<1>4. 1 \in 1..Len(appels) /\ appels[1].op = "verifier" /\ entree' = entree
  BY <1>1, <1>2, Tete DEF Poursuit, InvTypes
<1> DEFINE g == TacheDe(Courant.pos)
<1>5. /\ demandes = {g} /\ ~SansTache /\ ~Vacant
      /\ \A i \in 1..Len(appels) : Travail(appels[i]) => appels[i].op = "update"
  BY <1>1 DEF InvTravail, InvOrdre, TacheSeule, SansTache, Vacant
<1>6. \A i \in 1..Len(appels) : appels[i].op # "update" /\ ~Travail(appels[i])
  BY <1>4, <1>5 DEF InvTravail, InvEtapes, UpdateAuFond
<1>7. g \in Genres /\ EtapeDe(g, f)
  <2>1. g \in {"tache1", "tache4"} /\ Courant.pos = PosteDe(g)
    BY <1>1 DEF TacheDe, PosteDe, PositionsPoste
  <2>2. "lireFin" \in OpsDe(g)
    BY <2>1, OpsDuGenre
  <2>3. QED  BY <1>2, <2>1, <2>2 DEF EtapeDe, Genres
<1>8. \A i \in 1..Len(appels') :
        /\ Travail(appels'[i]) => i = 1
        /\ appels'[i].op # "update" /\ appels'[i].op # "retour"
  <2>1. f.op = "lireFin"
    BY <1>2
  <2>2. \A i \in 1..Len(appels') : i = 1 \/ (i \in 2..Len(appels) /\ i \in 1..Len(appels))
    BY <1>3
  <2>3. \A e : e.op = "retour" => Travail(e)
    BY DEF Travail
  <2>4. QED  BY <1>3, <1>6, <2>1, <2>2, <2>3
<1> HIDE DEF g
<1>9. InvEtapes'
  <2>1. EtapesAttendues'
    BY <1>3, <1>5, <1>7, <1>8 DEF EtapesAttendues
  <2>2. UneEtape' /\ RetourEnDernier' /\ UpdateAuFond'
    BY <1>8 DEF UneEtape, RetourEnDernier, UpdateAuFond
  <2>3. QED  BY <2>1, <2>2 DEF InvEtapes
<1>10. SansTache'
  <2> SUFFICES ASSUME NEW p \in PositionsPoste, tache'[p]
               PROVE  FALSE
    BY DEF SansTache
  <2>1. p # Courant.pos /\ tache[p]
    BY <1>1 DEF InvTypes, TypesMemoire
  <2>2. demandes = {TacheDe(p)}
    BY <2>1 DEF InvTravail, InvOrdre, TacheSeule
  <2>3. TacheDe(p) # g
    BY <1>1, <2>1 DEF TacheDe, PositionsPoste, g
  <2>4. QED  BY <1>5, <2>2, <2>3
<1>11. InvOrdre'
  BY <1>4, <1>5, <1>10 DEF InvTravail, InvOrdre, TacheSeule, SansTache, OrdreEnRoute
<1>12. UnTravail'
  BY <1>1, <1>5 DEF InvTravail, InvFins, UnTravail, EnCours, Initialise, Signale, Annonce,
                    varsInterface
<1>13. FinsAttendues'
  BY <1>1 DEF InvTravail, InvFins, FinsAttendues, Signale, Annonce, varsInterface
<1>14. QED  BY <1>9, <1>11, <1>12, <1>13 DEF InvTravail, InvFins

(* An order begins. *)
LEMMA TeteOrdre ==
    ASSUME InvTypes, InvTravail, lot > 0, Head(entree).type = "ordre"
    PROVE  /\ Oisif /\ SansTache /\ demandes = {Genre(Head(entree))}
           /\ \A i \in 1..Len(Tail(entree)) : Tail(entree)[i].type # "ordre"
<1>1. /\ Head(entree) = entree[1] /\ 1 \in 1..Len(entree)
      /\ \A i \in 1..Len(Tail(entree)) :
           i + 1 \in 1..Len(entree) /\ Tail(entree)[i] = entree[i + 1]
  BY EntreeLue DEF InvTypes
<1>2. /\ Oisif /\ SansTache /\ demandes = {Genre(entree[1])}
      /\ \A j \in 1..Len(entree) : entree[j].type = "ordre" => 1 = j
  BY <1>1 DEF InvTravail, InvOrdre, OrdreEnRoute
<1>3. ASSUME NEW i \in 1..Len(Tail(entree))
      PROVE  Tail(entree)[i].type # "ordre"
  <2>1. i + 1 \in 1..Len(entree) /\ Tail(entree)[i] = entree[i + 1] /\ i + 1 # 1
    BY <1>1
  <2>2. QED  BY <1>2, <2>1
<1>4. QED  BY <1>1, <1>2, <1>3

LEMMA TravailOrdre ==
    ASSUME InvTypes, InvTypes', InvTravail, UNCHANGED <<varsInterface, demandes>>,
           CallbackOrdre
    PROVE  InvTravail'
<1> DEFINE m == Head(entree)
           s == Callback(m)
           g == Genre(m)
<1>1. /\ lot > 0 /\ m.type = "ordre" /\ entree' = Tail(entree)
      /\ appels' = s \o appels /\ EtapesDOrdre(g, s) /\ g \in Genres
      /\ UNCHANGED <<sortie, tache>>
  BY CallbackOrdreSuite DEF InvTypes
<1>2. /\ Oisif /\ SansTache /\ demandes = {g}
      /\ \A i \in 1..Len(Tail(entree)) : Tail(entree)[i].type # "ordre"
  BY <1>1, TeteOrdre
<1> HIDE DEF s, g
<1>3. /\ s \in Seq(EtapeType) /\ Len(s) \in Nat
      /\ \A i \in 1..Len(s) : EtapeDOrdre(g, s[i])
      /\ Len(s) <= 1 \/ g \in {"deplacer", "bras"}
      /\ \A i \in 1..Len(s) : s[i].op = "retour" => i = Len(s)
  BY <1>1 DEF EtapesDOrdre
<1>4. /\ Len(appels') = Len(s) + Len(appels) /\ Len(appels) \in Nat
      /\ \A i \in 1..Len(appels') :
                \/ i \in 1..Len(s) /\ appels'[i] = s[i]
                \/ \E j \in 1..Len(appels) : i = j + Len(s) /\ appels'[i] = appels[j]
  <2>1. appels \in Seq(EtapeType)
    BY DEF InvTypes, TypesFiles
  <2>2. s \in Seq(EtapeType) /\ appels' = s \o appels
    BY <1>1, <1>3
  <2>3. QED  BY ONLY <2>1, <2>2, PileChargee
<1>5. ASSUME NEW i \in 1..Len(appels'), Travail(appels'[i])
      PROVE  /\ i \in 1..Len(s) /\ EtapeDe(g, appels'[i]) /\ appels'[i].op # "update"
             /\ appels'[i].op = "retour" => i = Len(s)
  <2>1. CASE i \in 1..Len(s) /\ appels'[i] = s[i]
    BY <1>3, <2>1 DEF EtapeDOrdre
  <2>2. CASE \E j \in 1..Len(appels) : appels'[i] = appels[j]
    BY <1>2, <1>5, <2>2 DEF Oisif
  <2>3. QED  BY <1>4, <2>1, <2>2
<1>6. InvEtapes'
  <2>1. EtapesAttendues'
    BY <1>1, <1>2, <1>5 DEF EtapesAttendues
  <2>2. UneEtape'
    <3> SUFFICES ASSUME NEW i \in 1..Len(appels'), NEW j \in 1..Len(appels'),
                        Travail(appels'[i]), Travail(appels'[j])
                 PROVE  i = j \/ demandes' \in {{"deplacer"}, {"bras"}}
      BY DEF UneEtape
    <3>1. i \in 1..Len(s) /\ j \in 1..Len(s)
      BY <1>5
    <3>2. CASE Len(s) <= 1
      BY <1>3, <3>1, <3>2
    <3>3. CASE g \in {"deplacer", "bras"}
      BY <1>2, <3>3
    <3>4. QED  BY <1>3, <3>2, <3>3
  <2>3. RetourEnDernier'
    <3> SUFFICES ASSUME NEW i \in 1..Len(appels'), NEW j \in 1..Len(appels'),
                        appels'[i].op = "retour", j > i, Travail(appels'[j])
                 PROVE  FALSE
      BY DEF RetourEnDernier
    <3>1. Travail(appels'[i])
      BY DEF Travail
    <3>2. i = Len(s) /\ j \in 1..Len(s)
      BY <1>5, <3>1
    <3>3. QED  BY <1>3, <3>2
  <2>4. UpdateAuFond'
    <3>1. \A e : e.op = "update" => Travail(e)
      BY DEF Travail
    <3>2. QED  BY <1>5, <3>1 DEF UpdateAuFond
  <2>5. QED  BY <2>1, <2>2, <2>3, <2>4 DEF InvEtapes
<1>7. InvOrdre'
  BY <1>1, <1>2 DEF InvOrdre, TacheSeule, OrdreEnRoute, SansTache
<1>8. UnTravail'
  <2>1. ~Vacant
    <3>1. 1 \in 1..Len(entree) /\ entree[1].type = "ordre"
      BY <1>1, EntreeLue DEF InvTypes
    <3>2. QED  BY <3>1 DEF Vacant, SansOrdre
  <2>2. QED
    BY <1>1, <2>1 DEF InvTravail, InvFins, UnTravail, EnCours, Initialise, Signale, Annonce,
                      varsInterface
<1>9. FinsAttendues'
  BY <1>1 DEF InvTravail, InvFins, FinsAttendues, Signale, Annonce, varsInterface
<1>10. QED  BY <1>6, <1>7, <1>8, <1>9 DEF InvTravail, InvFins

(* The steps that only move the messages and the spinOnce. *)
LEMMA LotPose ==
    ASSUME InvTypes, InvTypes', InvEtapes, PrendLot
    PROVE  /\ Herite(-1) /\ SansNouveauVerifier
           /\ UNCHANGED <<varsTopics, rep, valeur, tache>>
           /\ Len(appels) \in Nat /\ Len(appels') = Len(appels) + 1
           /\ appels'[1].op = "lot" /\ appels'[1].attend = ""
           /\ \A i \in 1..Len(appels) : appels'[i + 1] = appels[i]
           /\ \A i \in 1..Len(appels') :
                i = 1 \/ \E j \in 1..Len(appels) : i = j + 1 /\ appels'[i] = appels[j]
<1>1. /\ Len(appels) \in Nat /\ Len(appels') = Len(appels) + 1
      /\ appels'[1].op = "lot" /\ appels'[1].attend = ""
      /\ \A i \in 1..Len(appels) : appels'[i + 1] = appels[i]
      /\ \A i \in 1..Len(appels') :
           i = 1 \/ \E j \in 1..Len(appels) : i = j + 1 /\ appels'[i] = appels[j]
      /\ UNCHANGED <<varsTopics, rep, valeur, varsMemoire>>
  BY PrendLotSuite, LotJuste DEF InvTypes
<1>2. /\ Len(appels) \in Int /\ Len(appels') = Len(appels) + 1
      /\ \A j \in 1..Len(appels) : j \in Int
  BY PrendLotSuite DEF InvTypes
<1> DEFINE d == -1
<1>3. d \in {-1, 0, 1} /\ d \in Int /\ d + 1 = 0
  OBVIOUS
<1> HIDE DEF d
<1>4. Herite(d) /\ SansNouveauVerifier
  <2>1. ASSUME NEW i \in 1..Len(appels')
        PROVE  \/ appels'[i].op = "lot"
               \/ i + d \in 1..Len(appels) /\ appels'[i] = appels[i + d]
    <3>1. CASE i = 1
      BY <1>1, <3>1
    <3>2. CASE \E j \in 1..Len(appels) : i = j + 1 /\ appels'[i] = appels[j]
      <4>1. PICK j \in 1..Len(appels) : i = j + 1 /\ appels'[i] = appels[j]
        BY <3>2
      <4>2. j \in Int
        BY <1>2
      <4>3. i + d = j
        BY ONLY <1>3, <4>1, <4>2
      <4>4. QED  BY <4>1, <4>3
    <3>3. QED  BY <1>1, <3>1, <3>2
  <2>2. Len(appels') = Len(appels) - d
    BY ONLY <1>2, <1>3
  <2>3. QED  BY <1>3, <2>1, <2>2, DecaleHerite
<1>5. QED  BY <1>1, <1>4 DEF varsMemoire, d

LEMMA TravailMessages ==
    ASSUME InvTypes, InvTypes', InvTravail, UNCHANGED <<varsInterface, demandes>>,
           PrendLot \/ CallbackReponse \/ FinLot
    PROVE  InvTravail'
<1>1. CASE PrendLot
  <2>1. /\ Herite(-1) /\ SansNouveauVerifier /\ UNCHANGED <<varsTopics, rep, valeur, tache>>
    BY <1>1, LotPose DEF InvTravail
  <2>2. MemesOrdres(0)
    BY <2>1, EntreeInchangee DEF varsTopics
  <2>3. QED  BY <2>1, <2>2, TravailGarde DEF varsTopics
<1>2. CASE CallbackReponse
  <2>1. /\ appels' = appels /\ lot > 0 /\ entree' = Tail(entree)
        /\ UNCHANGED <<sortie, tache>>
    BY <1>2, CallbackReponseSuite DEF InvTypes
  <2>2. Herite(0) /\ SansNouveauVerifier
    BY <2>1, PileInchangee DEF InvTravail
  <2>3. MemesOrdres(1)
    BY <2>1, EntreeLue DEF InvTypes, MemesOrdres
  <2>4. QED  BY <2>1, <2>2, <2>3, TravailGarde
<1>3. CASE FinLot
  <2>1. /\ Len(appels') = Len(appels) - 1
        /\ \A i \in 1..Len(appels') : i + 1 \in 1..Len(appels) /\ appels'[i] = appels[i + 1]
        /\ UNCHANGED <<varsTopics, rep, valeur, tache>>
    BY <1>3, FinLotSuite DEF InvTypes
  <2>2. Herite(1) /\ SansNouveauVerifier
    BY <2>1, DecaleHerite DEF InvTravail
  <2>3. MemesOrdres(0)
    BY <2>1, EntreeInchangee DEF varsTopics
  <2>4. QED  BY <2>1, <2>2, <2>3, TravailGarde DEF varsTopics
<1>4. QED  BY <1>1, <1>2, <1>3

LEMMA TravailSuite ==
    ASSUME InvTypes, InvTypes', InvTravail, UNCHANGED <<varsInterface, demandes>>,
           MemeSuite, Discret
    PROVE  InvTravail'
<1>1. PICK f : Poursuit(f) /\ MemeTravail(f)
  BY DEF MemeSuite
<1>2. Herite(0) /\ SansNouveauVerifier
  BY <1>1, PoursuitHerite DEF InvTravail
<1>3. MemesOrdres(0)
  BY <1>1, EntreeInchangee DEF Poursuit
<1>4. QED  BY <1>2, <1>3, TravailGarde DEF Discret

(* A piece is never moved from or to a post that works. *)
LEMMA JamaisPieceSurTache ==
    ASSUME InvTypes, InvTravail, ColorerPoste
    PROVE  ~tache[Courant.pos]
<1> SUFFICES ASSUME tache[Courant.pos] PROVE FALSE
  OBVIOUS
<1>1. MemeSuite /\ Courant.pos \in PositionsPoste
  BY PieceSurTache DEF InvTypes
<1>2. appels # <<>> /\ Travail(Courant) /\ Courant.op # "update"
  BY <1>1 DEF MemeSuite, MemeTravail, Poursuit
<1>3. SansTache
  BY <1>2, Tete, Occupee DEF InvTypes
<1>4. QED  BY <1>1, <1>3 DEF SansTache

LEMMA TravailFin ==
    ASSUME InvTypes, InvTypes', InvTravail, UNCHANGED <<varsInterface, demandes>>,
           FinMuette \/ \E code \in {2, 4, 5, 6, 7} : FinCode(code)
    PROVE  InvTravail'
<1>1. /\ Termine /\ tache' = tache
      /\ \/ sortie' = sortie
         \/ \E code \in {2, 4, 5, 6, 7} : sortie' = Append(sortie, code)
  BY DEF FinMuette, FinCode, Discret
<1>2. Herite(1) /\ SansNouveauVerifier
  BY <1>1, TermineHerite DEF InvTravail
<1>3. MemesOrdres(0)
  BY <1>1, EntreeInchangee DEF Termine
<1>4. QED  BY <1>1, <1>2, <1>3, TravailGarde

(* The steps of the node, sorted by what they do to the stack. *)
SuiteDuRobot ==
    \/ EnvoyerRobot \/ EnvoyerJoints \/ DescendreBras \/ MonterBras
    \/ ConsigneRecue \/ PositionNonAtteinte \/ PinceCommande \/ PinceAttend \/ InitDemande
    \/ LireCouleur \/ CouleurRecue \/ ColorerNavette \/ ColorerPeint \/ FaireTache
    \/ TacheHeure \/ TacheColore \/ FinTask \/ FinTaskPeint \/ Confirmer
    \/ PasEncoreCouleur \/ Evacuer \/ EvacuerEfface \/ ColorerPoste
FinDuRobot ==
    \/ PositionAtteinte \/ PinceDejaFaite \/ PinceFin \/ ColorerSansNavette \/ FinPrise
    \/ FinPose \/ EvacuerFin \/ TacheContinue

LEMMA SuitesDuRobot ==
    ASSUME InvTypes, InvTravail, SuiteDuRobot
    PROVE  MemeSuite /\ Discret
<1>1. CASE ColorerPoste
  BY <1>1, JamaisPieceSurTache, DebutsDeLecture DEF InvTypes
<1>2. CASE \/ EnvoyerRobot \/ EnvoyerJoints \/ DescendreBras \/ MonterBras
           \/ ConsigneRecue \/ PositionNonAtteinte \/ PinceCommande \/ PinceAttend
           \/ InitDemande
  BY <1>2, RposSuite, MouvementSuite DEF InvTypes
<1>3. CASE \/ LireCouleur \/ CouleurRecue \/ ColorerNavette \/ ColorerPeint \/ FaireTache
           \/ TacheHeure \/ TacheColore \/ FinTask \/ FinTaskPeint \/ Confirmer
           \/ PasEncoreCouleur \/ Evacuer \/ EvacuerEfface
  BY <1>3, LectureSuite, DebutsDeLecture, PeinturesSuite, TachesSuite DEF InvTypes
<1>4. QED  BY <1>1, <1>2, <1>3 DEF SuiteDuRobot

LEMMA FinsDuRobot ==
    ASSUME InvTypes, FinDuRobot
    PROVE  FinMuette \/ \E code \in {2, 4, 5, 6, 7} : FinCode(code)
BY FinsDeMouvement DEF FinDuRobot, InvTypes

LEMMA PasDuRobot ==
    ASSUME InvTypes, InvTravail, RobotNext
    PROVE  \/ MemeSuite /\ Discret
           \/ FinMuette \/ \E code \in {2, 4, 5, 6, 7} : FinCode(code)
           \/ InitFin \/ RetourFin \/ TacheImpossible \/ TacheTerminee \/ StopTache
           \/ DebutTask \/ TacheEchue \/ Update \/ UpdateHeure
           \/ SpinPrincipal \/ SpinOnce \/ CallbackReponse \/ CallbackOrdre \/ FinLot
BY SuitesDuRobot, FinsDuRobot
   DEF RobotNext, Appels, Mouvement, Pieces, SuiteDuRobot, FinDuRobot

LEMMA TravailRobot ==
    ASSUME InvTypes, InvTypes', InvTravail, Robot
    PROVE  InvTravail'
<1>1. RobotNext /\ UNCHANGED <<varsInterface, demandes>>
  BY DEF Robot
<1>2. CASE InitFin
  <2>1. Courant.op = "init" /\ Termine /\ tache' = tache /\ sortie' = Append(sortie, 0)
    BY <1>2, FinsDOrdre DEF InvTypes, FinCode
  <2>2. QED  BY <1>1, <2>1, FinInit
<1>3. CASE RetourFin \/ TacheImpossible \/ TacheTerminee
  BY <1>1, <1>3, TravailFinsDOrdre
<1>4. CASE StopTache \/ DebutTask \/ TacheEchue \/ Update \/ UpdateHeure
  BY <1>1, <1>4, TravailStop, TravailDebut, TravailEchue, TravailUpdate, TravailHeure
<1>5. CASE SpinPrincipal \/ SpinOnce \/ CallbackReponse \/ CallbackOrdre \/ FinLot
  BY <1>1, <1>5, TravailMessages, TravailOrdre DEF SpinPrincipal, SpinOnce
<1>6. CASE MemeSuite /\ Discret
  BY <1>1, <1>6, TravailSuite
<1>7. CASE FinMuette \/ \E code \in {2, 4, 5, 6, 7} : FinCode(code)
  BY <1>1, <1>7, TravailFin
<1>8. QED  BY <1>1, <1>2, <1>3, <1>4, <1>5, <1>6, <1>7, PasDuRobot
-----------------------------------------------------------------------------
(* The command and the simulator. *)
LEMMA TravailDonneOrdre ==
    ASSUME UneALaFois, InvTypes, InvTypes', InvTravail,
           NEW m \in UNION Programmes, DonneOrdre(m)
    PROVE  InvTravail' /\ demandes = {} /\ Vacant
<1> DEFINE g == Genre(m)
<1>1. /\ m.type = "ordre" /\ g \in Genres /\ entree' = Append(entree, m)
      /\ demandes' = demandes \cup {g} /\ UNCHANGED <<requetes, sortie, varsRobot>>
      /\ m \in OrdresPossibles
  BY TypesDonneOrdre
<1>2. /\ robotInit = 1 /\ g \notin demandes /\ demandes \cup {g} \in Compatibles
      /\ Efface(m)
  BY DEF DonneOrdre, PublieOrdre
<1> HIDE DEF g
<1>3. demandes = {} /\ demandes' = {g}
  <2>1. PICK h \in Genres : demandes \cup {g} = {h}
    BY <1>2 DEF UneALaFois
  <2>2. g = h
    BY <2>1
  <2>3. \A x \in demandes : x = g
    BY <2>1, <2>2
  <2>4. demandes = {}
    BY <1>2, <2>3
  <2>5. QED  BY <1>1, <2>4
<1>4. Vacant
  BY <1>2, <1>3 DEF InvTravail, InvFins, UnTravail, Initialise, EnCours
<1>5. appels' = appels /\ tache' = tache
  BY <1>1 DEF varsRobot, varsMemoire
<1>6. Oisif' /\ SansTache'
  BY <1>4, <1>5 DEF Vacant, Oisif, SansTache
<1>7. InvEtapes'
  <2>1. EtapesAttendues' /\ UneEtape'
    BY <1>6 DEF Oisif, EtapesAttendues, UneEtape
  <2>2. RetourEnDernier' /\ UpdateAuFond'
    BY <1>5 DEF InvTravail, InvEtapes, RetourEnDernier, UpdateAuFond
  <2>3. QED  BY <2>1, <2>2 DEF InvEtapes
<1>8. \A i \in 1..Len(entree') : entree'[i].type = "ordre" =>
          i = Len(entree) + 1 /\ entree'[i] = m
  <2>1. entree \in Seq(Messages) /\ Len(entree) \in Nat
    BY DEF InvTypes, TypesFiles
  <2>2. /\ Len(entree') = Len(entree) + 1 /\ entree'[Len(entree) + 1] = m
        /\ \A i \in 1..Len(entree) : entree'[i] = entree[i]
    BY <1>1, <2>1
  <2>3. \A i \in 1..Len(entree) : entree[i].type # "ordre"
    BY <1>4 DEF Vacant, SansOrdre
  <2>4. \A i \in 1..Len(entree') : i \in 1..Len(entree) \/ i = Len(entree) + 1
    BY <2>1, <2>2
  <2>5. QED  BY <2>2, <2>3, <2>4
<1>9. TacheSeule' /\ OrdreEnRoute'
  BY <1>3, <1>6, <1>8 DEF TacheSeule, OrdreEnRoute, SansTache, g
<1>10. \A h \in Signales : ~Annonce(FinDe(h))
  BY <1>3 DEF InvTravail, InvFins, FinsAttendues
<1>11. \A h \in Signales : ~Annonce(FinDe(h))'
  BY <1>1, <1>10 DEF Annonce, FinDe
<1>12. g \in Signales => ~Signale(g)'
  <2>1. m.ordre = "tache" => m.posA \in {1, 4}
    BY <1>1 DEF OrdresPossibles, PositionsPoste
  <2>2. robotTask \in [PositionsPoste -> {0, 1}]
    BY DEF InvTypes, TypesCommande
  <2>3. CASE g = "deplacer"
    <3>1. m.ordre = "deplacer"
      BY <2>3 DEF g, Genre
    <3>2. robotMacroDeplacement' = 0
      BY <1>2, <3>1 DEF Efface
    <3>3. QED  BY <2>3, <3>2 DEF Signale
  <2>4. CASE g \in {"tache1", "tache4"}
    <3>1. m.ordre = "tache" /\ m.posA = PosteDe(g)
      BY <2>1, <2>4 DEF g, Genre, PosteDe
    <3>2. robotTask' = [robotTask EXCEPT ![m.posA] = 0]
      BY <1>2, <3>1 DEF Efface
    <3>3. robotTask'[PosteDe(g)] = 0
      BY <2>1, <2>2, <3>1, <3>2 DEF PositionsPoste
    <3>4. Signale(g)' <=> robotTask'[PosteDe(g)] = 1
      BY <2>4 DEF Signale, PosteDe
    <3>5. QED  BY <3>3, <3>4
  <2>5. QED  BY <2>3, <2>4 DEF Signales
<1>13. UnTravail'
  BY <1>1, <1>3, <1>11, <1>12 DEF UnTravail, EnCours
<1>14. FinsAttendues'
  BY <1>11 DEF FinsAttendues
<1>15. QED
  BY <1>3, <1>4, <1>7, <1>9, <1>13, <1>14 DEF InvTravail, InvOrdre, InvFins

LEMMA TravailConstate ==
    ASSUME InvTypes, InvTypes', InvTravail, NEW k \in Genres, Constate(k)
    PROVE  InvTravail'
<1>1. /\ k \in demandes /\ demandes' = demandes \ {k}
      /\ UNCHANGED <<varsRobot, varsInterface, varsMonde, programme>>
      /\ CASE k = "deplacer" -> FinDeplacerPiece = 1
           [] k = "tache1"   -> TacheFinie(1) = 1
           [] k = "tache4"   -> TacheFinie(4) = 1
           [] OTHER          -> AuRepos
  BY DEF Constate
<1>2. /\ appels' = appels /\ entree' = entree /\ sortie' = sortie /\ tache' = tache
      /\ UNCHANGED varsInterface
  BY <1>1 DEF varsRobot, varsMemoire, varsMonde, varsTopics
<1>3. k \in Signales => Signale(k)
  BY <1>1 DEF Signales, Signale, PosteDe, FinDeplacerPiece, TacheFinie
<1>4. k \notin Signales => appels = <<>> /\ entree = <<>> /\ sortie = <<>>
  BY <1>1 DEF Signales, AuRepos
<1>5. k \notin Signales => Vacant /\ \A c : ~Annonce(c)
  <2> SUFFICES ASSUME k \notin Signales PROVE Vacant /\ \A c : ~Annonce(c)
    OBVIOUS
  <2>1. Oisif /\ SansOrdre /\ \A c : ~Annonce(c)
    BY <1>4 DEF Oisif, SansOrdre, Annonce
  <2>2. \A p \in PositionsPoste : TacheDe(p) \in Signales
    BY DEF TacheDe, Signales
  <2>3. SansTache
    BY <1>1, <2>2 DEF InvTravail, InvOrdre, TacheSeule, SansTache
  <2>4. QED  BY <2>1, <2>3 DEF Vacant
<1>6. k \in Signales => Vacant
  <2>1. ~Initialise
    BY <1>1 DEF Initialise
  <2>2. \A g \in Genres : EnCours(g) => g = k
    BY <1>1 DEF EnCours
  <2>3. QED
    BY <1>3, <2>1, <2>2 DEF InvTravail, InvFins, UnTravail, EnCours
<1>7. Vacant'
  BY <1>2, <1>5, <1>6 DEF Vacant, Oisif, SansOrdre, SansTache
<1>8. InvOrdre' /\ InvEtapes'
  BY <1>2, <1>7, RienDePlus DEF InvTravail
<1>9. \A g \in Signales : ~Annonce(FinDe(g))
  BY <1>1, <1>3, <1>5 DEF InvTravail, InvFins, FinsAttendues, Signales
<1>10. FinsAttendues'
  BY <1>2, <1>9 DEF FinsAttendues, Annonce, FinDe
<1>11. QED  BY <1>7, <1>8, <1>10 DEF InvTravail, InvFins, UnTravail

LEMMA TravailRetour ==
    ASSUME InvTypes, InvTypes', InvTravail, Retour
    PROVE  InvTravail'
<1> DEFINE code == Head(sortie)
<1>1. /\ sortie # <<>> /\ sortie' = Tail(sortie)
      /\ robotInit' = IF code = 0 THEN 1 ELSE robotInit
      /\ robotTask' = CASE code = 8 -> [robotTask EXCEPT ![1] = 1]
                        [] code = 9 -> [robotTask EXCEPT ![4] = 1]
                        [] OTHER -> robotTask
      /\ robotMacroDeplacement' = IF code = 10 THEN 1 ELSE robotMacroDeplacement
      /\ UNCHANGED <<entree, varsRobot, demandes>>
  BY DEF Retour, RetourRobotCallback
<1>2. /\ code = sortie[1] /\ 1 \in 1..Len(sortie)
      /\ \A i \in 1..Len(sortie') : i + 1 \in 1..Len(sortie) /\ sortie'[i] = sortie[i + 1]
      /\ Len(sortie') = Len(sortie) - 1 /\ Len(sortie) \in Nat
  BY <1>1, SortieLue DEF InvTypes, TypesFiles
<1> HIDE DEF code
<1>3. appels' = appels /\ tache' = tache
  BY <1>1 DEF varsRobot, varsMemoire
<1>4. Herite(0) /\ SansNouveauVerifier /\ MemesOrdres(0)
  BY <1>1, <1>3, PileInchangee, EntreeInchangee DEF InvTravail
<1>5. InvEtapes' /\ InvOrdre' /\ (Vacant => Vacant')
  BY <1>1, <1>3, <1>4, TravailGarde
<1>6. \A c : Annonce(c)' => Annonce(c)
  BY <1>2 DEF Annonce
<1>7. \A g \in Signales : Signale(g)' => Signale(g) \/ code = FinDe(g)
  <2>1. robotTask \in [PositionsPoste -> {0, 1}]
    BY DEF InvTypes, TypesCommande
  <2>2. Signale("deplacer")' => Signale("deplacer") \/ code = 10
    BY <1>1 DEF Signale
  <2>3. robotTask'[1] = 1 => robotTask[1] = 1 \/ code = 8
    BY <1>1, <2>1 DEF PositionsPoste
  <2>4. robotTask'[4] = 1 => robotTask[4] = 1 \/ code = 9
    BY <1>1, <2>1 DEF PositionsPoste
  <2>5. QED  BY <2>2, <2>3, <2>4 DEF Signale, Signales, FinDe, PosteDe
<1>8. UnTravail'
  <2>1. CASE Vacant
    BY <1>5, <2>1 DEF UnTravail
  <2>2. CASE Initialise
    <3>1. code # 0
      BY <1>2, <2>2 DEF Initialise, Annonce
    <3>2. QED  BY <1>1, <1>6, <2>2, <3>1 DEF UnTravail, Initialise
  <2>3. CASE \E g \in Genres : EnCours(g)
    <3>1. PICK g \in Genres : EnCours(g)
      BY <2>3
    <3>2. g \in Signales => ~Signale(g)' /\ ~Annonce(FinDe(g))'
      <4> SUFFICES ASSUME g \in Signales PROVE ~Signale(g)' /\ ~Annonce(FinDe(g))'
        OBVIOUS
      <4>1. ~Signale(g) /\ ~Annonce(FinDe(g))
        BY <3>1 DEF EnCours
      <4>2. code # FinDe(g)
        BY <1>2, <4>1 DEF Annonce
      <4>3. ~Annonce(FinDe(g))'
        BY <1>6, <4>1 DEF Annonce, FinDe
      <4>4. QED  BY <1>7, <4>1, <4>2, <4>3
    <3>3. demandes' = {g}
      BY <1>1, <3>1 DEF EnCours
    <3>4. QED  BY <3>2, <3>3 DEF UnTravail, EnCours
  <2>4. QED  BY <2>1, <2>2, <2>3 DEF InvTravail, InvFins, UnTravail
<1>9. FinsAttendues'
  <2> SUFFICES ASSUME NEW g \in Signales, Annonce(FinDe(g))'
               PROVE  \/ /\ demandes' = {g} /\ ~Signale(g)'
                         /\ \A i, j \in 1..Len(sortie') :
                              sortie'[i] = FinDe(g) /\ sortie'[j] = FinDe(g) => i = j
                      \/ demandes' = {"stopTache"} /\ g # "deplacer"
    BY DEF FinsAttendues, FinDe
  <2>1. PICK n \in 1..Len(sortie') : sortie'[n] = FinDe(g)
    BY DEF Annonce, FinDe
  <2>2. n + 1 \in 1..Len(sortie) /\ sortie[n + 1] = FinDe(g) /\ n + 1 # 1
    BY <1>2, <2>1
  <2>3. \/ /\ demandes = {g} /\ ~Signale(g)
           /\ \A i, j \in 1..Len(sortie) :
                sortie[i] = FinDe(g) /\ sortie[j] = FinDe(g) => i = j
        \/ demandes = {"stopTache"} /\ g # "deplacer"
    BY <2>2 DEF InvTravail, InvFins, FinsAttendues, Annonce
  <2>4. CASE /\ demandes = {g} /\ ~Signale(g)
             /\ \A i, j \in 1..Len(sortie) :
                  sortie[i] = FinDe(g) /\ sortie[j] = FinDe(g) => i = j
    <3>1. code # FinDe(g)
      BY <1>2, <2>2, <2>4
    <3>2. ~Signale(g)'
      BY <1>7, <2>4, <3>1
    <3>3. ASSUME NEW i \in 1..Len(sortie'), NEW j \in 1..Len(sortie'),
                 sortie'[i] = FinDe(g), sortie'[j] = FinDe(g)
          PROVE  i = j
      <4>1. /\ i + 1 \in 1..Len(sortie) /\ sortie[i + 1] = FinDe(g)
            /\ j + 1 \in 1..Len(sortie) /\ sortie[j + 1] = FinDe(g)
        BY <1>2, <3>3
      <4>2. i + 1 = j + 1
        BY <2>4, <4>1
      <4>3. QED  BY <4>2
    <3>4. QED  BY <1>1, <2>4, <3>2, <3>3
  <2>5. QED  BY <1>1, <2>3, <2>4
<1>10. QED  BY <1>5, <1>8, <1>9 DEF InvTravail, InvFins

LEMMA TravailAilleurs ==
    ASSUME InvTypes, InvTypes', InvTravail,
           UNCHANGED <<sortie, appels, tache, varsInterface, demandes>>,
           entree' = entree \/ \E r : r.type = "reponse" /\ entree' = Append(entree, r)
    PROVE  InvTravail'
<1>1. Herite(0) /\ SansNouveauVerifier
  BY PileInchangee DEF InvTravail
<1>2. MemesOrdres(0)
  <2>1. CASE entree' = entree
    BY <2>1, EntreeInchangee
  <2>2. CASE \E r : r.type = "reponse" /\ entree' = Append(entree, r)
    <3>1. PICK r : r.type = "reponse" /\ entree' = Append(entree, r)
      BY <2>2
    <3>2. entree \in Seq(Messages) /\ Len(entree) \in Nat
      BY DEF InvTypes, TypesFiles
    <3>3. /\ Len(entree') = Len(entree) + 1 /\ entree'[Len(entree) + 1] = r
          /\ \A i \in 1..Len(entree) : entree'[i] = entree[i] /\ i + 0 = i
      BY <3>1, <3>2
    <3>4. \A i \in 1..Len(entree') : i \in 1..Len(entree) \/ i = Len(entree) + 1
      BY <3>2, <3>3
    <3>5. ASSUME NEW i \in 1..Len(entree'), entree'[i].type = "ordre"
          PROVE  i + 0 \in 1..Len(entree) /\ entree'[i] = entree[i + 0]
      BY <3>1, <3>3, <3>4, <3>5
    <3>6. QED  BY <3>5 DEF MemesOrdres
  <2>3. QED  BY <2>1, <2>2
<1>3. QED  BY <1>1, <1>2, TravailGarde

LEMMA TravailPas ==
    ASSUME UneALaFois, InvTypes, InvTypes', InvTravail, [Next]_vars
    PROVE  InvTravail'
<1>1. CASE UNCHANGED vars
  BY <1>1, TravailAilleurs DEF vars, varsRobot, varsMemoire, varsMonde, varsTopics
<1>2. CASE \E m \in UNION Programmes : DonneOrdre(m)
  BY <1>2, TravailDonneOrdre
<1>3. CASE \E k \in Genres : Constate(k)
  BY <1>3, TravailConstate
<1>4. CASE Retour
  BY <1>4, TravailRetour
<1>5. CASE Robot
  BY <1>5, TravailRobot
<1>6. CASE \E c \in Canaux : Scene(c)
  <2>1. PICK c \in Canaux : Scene(c)
    BY <1>6
  <2>2. /\ \E r : r.type = "reponse" /\ entree' = Append(entree, r)
        /\ UNCHANGED <<sortie, varsRobot, varsInterface, programme, demandes>>
    BY <2>1, TypesReponse
  <2>3. QED  BY <2>2, TravailAilleurs DEF varsRobot, varsMemoire
<1>7. CASE Bras
  BY <1>7, TravailAilleurs DEF Bras, BrasBouge, varsRobot, varsMemoire, varsTopics
<1>8. CASE \E p \in PositionsNavette : Navette(p)
  BY <1>8, TravailAilleurs DEF Navette, NavetteBouge, varsRobot, varsMemoire, varsTopics
<1>9. QED  BY <1>1, <1>2, <1>3, <1>4, <1>5, <1>6, <1>7, <1>8 DEF Next

LEMMA TravailInit ==
    ASSUME Init, InvTypes
    PROVE  InvTravail
<1> DEFINE e == Etape("init", 0, 0)
<1>1. e.op = "init"
  BY DEF Etape
<1>2. /\ appels = <<e>> /\ entree = <<>> /\ sortie = <<>> /\ demandes = {} /\ robotInit = 0
      /\ tache = [p \in PositionsPoste |-> FALSE]
  BY DEF Init, InitRobot, InitTopics, InitInterface
<1> HIDE DEF e
<1>3. Len(appels) = 1 /\ appels[1] = e
  BY <1>2
<1>4. \A i \in 1..Len(appels) : i = 1 /\ appels[i].op = "init"
  BY <1>1, <1>3
<1>5. InvEtapes
  BY <1>2, <1>4 DEF InvEtapes, EtapesAttendues, UneEtape, RetourEnDernier, UpdateAuFond
<1>6. InvOrdre
  BY <1>2 DEF InvOrdre, TacheSeule, OrdreEnRoute
<1>7. InvFins
  BY <1>2 DEF InvFins, UnTravail, Initialise, FinsAttendues, Annonce
<1>8. QED  BY <1>5, <1>6, <1>7 DEF InvTravail
-----------------------------------------------------------------------------
(* Questions and answers.  One callback at most waits, the innermost, and  *)
(* for one answer that is under way; a question about a colour is asked    *)
(* only when no answer to an older one is left.                            *)
UneAttente ==
    \A i \in 1..Len(appels) :
        appels[i].attend # "" => i = 1 \/ (i = 2 /\ appels[1].op = "lot")

Repondue(c) == \E i \in 1..Len(entree) : entree[i].type = "reponse" /\ entree[i].canal = c
EnVol(c) == requetes[c] # <<>> \/ Repondue(c) \/ rep[c]
Servie == \A i \in 1..Len(appels) : appels[i].attend # "" => EnVol(appels[i].attend)

UneQuestion ==
    /\ requetes["getColor"] # <<>> =>
         Len(requetes["getColor"]) = 1 /\ ~Repondue("getColor") /\ ~rep["getColor"]
    /\ \A i \in 1..Len(entree) : entree[i].type = "reponse" /\ entree[i].canal = "getColor" =>
         /\ ~rep["getColor"]
         /\ \A j \in 1..Len(entree) :
              entree[j].type = "reponse" /\ entree[j].canal = "getColor" => i = j
PourElle(e) ==
    /\ requetes["getColor"] # <<>> => Pour(e, requetes["getColor"][1])
    /\ \A j \in 1..Len(entree) :
         entree[j].type = "reponse" /\ entree[j].canal = "getColor" => Pour(e, entree[j])
    /\ rep["getColor"] => Pour(e, valeur)
QuestionPosee ==
    EnVol("getColor") =>
        \E i \in 1..Len(appels) : appels[i].attend = "getColor" /\ PourElle(appels[i])

InvQuestions == UneAttente /\ Servie /\ UneQuestion /\ QuestionPosee

Personne == \A i \in 1..Len(appels) : appels[i].attend = ""

LEMMA PersonneDemande ==
    ASSUME InvQuestions, Personne
    PROVE  ~EnVol("getColor")
BY DEF InvQuestions, QuestionPosee, Personne

LEMMA PersonneServie ==
    ASSUME Personne, ~EnVol("getColor")
    PROVE  InvQuestions
<1>1. UneAttente /\ Servie
  BY DEF Personne, UneAttente, Servie
<1>2. UneQuestion
  BY DEF EnVol, Repondue, UneQuestion
<1>3. QED  BY <1>1, <1>2 DEF InvQuestions, QuestionPosee

(* The step that goes on has taken its answer: nothing is left of it. *)
LEMMA Consommee ==
    ASSUME InvTypes, InvQuestions, appels # <<>>, Courant.op # "lot", Consomme
    PROVE  /\ requetes["getColor"] = <<>> /\ ~Repondue("getColor") /\ ~rep'["getColor"]
           /\ \A i \in 2..Len(appels) : appels[i].attend = ""
<1>1. Courant = appels[1] /\ 1 \in 1..Len(appels) /\ Courant.attend \in Canaux \cup {""}
  BY Tete DEF InvTypes
<1>2. \A i \in 2..Len(appels) : i \in 1..Len(appels) /\ i # 1
  OBVIOUS
<1>3. \A i \in 2..Len(appels) : appels[i].attend = ""
  BY <1>1, <1>2 DEF InvQuestions, UneAttente
<1>4. rep \in [Canaux -> BOOLEAN] /\ "getColor" \in Canaux
  BY DEF InvTypes, TypesMemoire, Canaux
<1>5. CASE Courant.attend = "getColor"
  <2>1. rep["getColor"] /\ rep' = [rep EXCEPT !["getColor"] = FALSE]
    BY <1>5 DEF Consomme
  <2>2. requetes["getColor"] = <<>> /\ ~Repondue("getColor")
    BY <2>1 DEF InvQuestions, UneQuestion, Repondue
  <2>3. QED  BY <1>3, <1>4, <2>1, <2>2
<1>6. CASE Courant.attend # "getColor"
  <2>1. \A i \in 1..Len(appels) : i = 1 \/ i \in 2..Len(appels)
    OBVIOUS
  <2>2. \A i \in 1..Len(appels) : appels[i].attend # "getColor"
    BY <1>1, <1>3, <1>6, <2>1
  <2>3. ~EnVol("getColor")
    BY <2>2 DEF InvQuestions, QuestionPosee
  <2>4. rep'["getColor"] <=> rep["getColor"]
    <3>1. CASE Courant.attend = ""
      BY <3>1 DEF Consomme
    <3>2. CASE Courant.attend # ""
      <4>1. rep' = [rep EXCEPT ![Courant.attend] = FALSE]
        BY <3>2 DEF Consomme
      <4>2. QED  BY <1>4, <1>6, <4>1
    <3>3. QED  BY <3>1, <3>2
  <2>5. QED  BY <1>3, <2>3, <2>4 DEF EnVol
<1>7. QED  BY <1>5, <1>6

LEMMA RienEnVol ==
    ASSUME requetes'["getColor"] = <<>>, entree' = entree, ~Repondue("getColor"),
           ~rep'["getColor"]
    PROVE  ~EnVol("getColor")'
BY DEF EnVol, Repondue

(* A callback goes on, perhaps with a new question. *)
LEMMA QuestionsPoursuit ==
    ASSUME InvTypes, InvTypes', InvQuestions, NEW f \in EtapeType, Poursuit(f)
    PROVE  InvQuestions'
<1>1. /\ Len(appels') = Len(appels) /\ appels'[1] = f
      /\ \A i \in 2..Len(appels) : appels'[i] = appels[i]
      /\ Len(appels) \in Nat /\ Len(appels) >= 1
  BY PilePoursuit DEF InvTypes
<1>2. /\ requetes["getColor"] = <<>> /\ ~Repondue("getColor") /\ ~rep'["getColor"]
      /\ \A i \in 2..Len(appels) : appels[i].attend = ""
  BY Consommee DEF Poursuit
<1>3. Interroge(f) /\ entree' = entree
  BY DEF Poursuit
<1>4. \A i \in 1..Len(appels') : appels'[i].attend # "" => i = 1
  <2>1. \A i \in 1..Len(appels') : i = 1 \/ i \in 2..Len(appels)
    BY <1>1
  <2>2. QED  BY <1>1, <1>2, <2>1
<1>5. UneAttente'
  BY <1>4 DEF UneAttente
<1>6. requetes \in [Canaux -> Seq(RequeteType)] /\ "getColor" \in Canaux
  BY DEF InvTypes, TypesFiles, Canaux
<1>7. ~Repondue("getColor")'
  BY <1>2, <1>3 DEF Repondue
<1>8. CASE f.attend = ""
  <2>1. requetes'["getColor"] = <<>>
    BY <1>2, <1>3, <1>8 DEF Interroge, Canaux
  <2>2. ~EnVol("getColor")'
    BY <1>2, <1>3, <2>1, RienEnVol
  <2>3. Personne'
    BY <1>1, <1>4, <1>8 DEF Personne
  <2>4. QED  BY <2>2, <2>3, PersonneServie DEF Personne, InvQuestions, UneAttente, Servie,
             UneQuestion, QuestionPosee, EnVol, Repondue, PourElle
<1>9. CASE f.attend # ""
  <2>1. PICK q \in RequeteType :
          /\ requetes' = [requetes EXCEPT ![f.attend] = Append(@, q)]
          /\ f.attend = "getColor" => q \in RequeteCouleur /\ Pour(f, q)
    BY <1>3, <1>9 DEF Interroge
  <2>2. f.attend \in Canaux
    BY <1>3, <1>9 DEF Interroge
  <2>3. requetes[f.attend] \in Seq(RequeteType)
    BY <1>6, <2>2
  <2>4. requetes'[f.attend] = Append(requetes[f.attend], q)
    BY <1>6, <2>1, <2>2
  <2>5. requetes'[f.attend] # <<>>
    BY <2>3, <2>4
  <2>6. Servie'
    <3>1. \A i \in 1..Len(appels') :
            appels'[i].attend # "" => requetes'[appels'[i].attend] # <<>>
      BY <1>1, <1>4, <2>5
    <3>2. QED  BY <3>1 DEF Servie, EnVol
  <2>7. CASE f.attend = "getColor"
    <3>1. requetes'["getColor"] = Append(requetes["getColor"], q) /\ Pour(f, q)
      BY <2>1, <2>4, <2>7
    <3>2. Len(requetes'["getColor"]) = 1 /\ requetes'["getColor"][1] = q
      <4> DEFINE s == requetes["getColor"]
                 t == requetes'["getColor"]
      <4>1. s \in Seq(RequeteType) /\ t = Append(s, q)
        BY <1>6, <3>1
      <4>2. s = <<>>
        BY <1>2
      <4> HIDE DEF s, t
      <4>3. Len(s) = 0
        BY ONLY <4>2
      <4>4. Len(t) = 1 /\ t[1] = q
        BY <4>1, <4>3
      <4>5. QED  BY <4>4 DEF t
    <3>3. UneQuestion'
      BY <1>2, <1>7, <3>2 DEF UneQuestion, Repondue
    <3>4. PourElle(f)'
      BY <1>2, <1>7, <3>1, <3>2 DEF PourElle, Repondue, Pour
    <3>5. 1 \in 1..Len(appels')
      BY <1>1
    <3>6. QuestionPosee'
      BY <1>1, <2>7, <3>4, <3>5 DEF QuestionPosee, PourElle, Pour
    <3>7. QED  BY <1>5, <2>6, <3>3, <3>6 DEF InvQuestions
  <2>8. CASE f.attend # "getColor"
    <3>1. requetes'["getColor"] = <<>>
      BY <1>2, <1>6, <2>1, <2>2, <2>8
    <3>2. ~EnVol("getColor")'
      BY <1>2, <1>3, <3>1, RienEnVol
    <3>3. UneQuestion' /\ QuestionPosee'
      BY <1>7, <3>1, <3>2 DEF UneQuestion, QuestionPosee, Repondue
    <3>4. QED  BY <1>5, <2>6, <3>3 DEF InvQuestions
  <2>9. QED  BY <2>7, <2>8
<1>10. QED  BY <1>8, <1>9

LEMMA QuestionsTermine ==
    ASSUME InvTypes, InvTypes', InvQuestions, Termine
    PROVE  InvQuestions'
<1>1. /\ Len(appels') = Len(appels) - 1 /\ Len(appels) \in Nat
      /\ \A i \in 1..Len(appels') : i + 1 \in 1..Len(appels) /\ appels'[i] = appels[i + 1]
  BY PileTermine DEF InvTypes
<1>2. /\ requetes["getColor"] = <<>> /\ ~Repondue("getColor") /\ ~rep'["getColor"]
      /\ \A i \in 2..Len(appels) : appels[i].attend = ""
  BY Consommee DEF Termine
<1>3. Personne'
  <2> SUFFICES ASSUME NEW i \in 1..Len(appels') PROVE appels'[i].attend = ""
    BY DEF Personne
  <2>1. i + 1 \in 2..Len(appels)
    BY <1>1
  <2>2. QED  BY <1>1, <1>2, <2>1
<1>4. ~EnVol("getColor")'
  BY <1>2, RienEnVol DEF Termine
<1>5. QED  BY <1>3, <1>4, PersonneServie DEF Personne, InvQuestions, UneAttente, Servie,
                UneQuestion, QuestionPosee, EnVol, Repondue, PourElle

(* A spinOnce is started by main, or by the callback that waits; it ends,  *)
(* or runs the callback of an answer.                                      *)
(* The question is still that of the callback, wherever it is now. *)
LEMMA QuestionGardee ==
    ASSUME UNCHANGED <<requetes, entree, rep, valeur>>,
           NEW i \in 1..Len(appels), appels[i].attend = "getColor", PourElle(appels[i]),
           NEW k \in 1..Len(appels'), appels'[k] = appels[i]
    PROVE  QuestionPosee'
<1> DEFINE e == appels[i]
<1>1. /\ requetes'["getColor"] # <<>> => Pour(e, requetes'["getColor"][1])
      /\ \A j \in 1..Len(entree') :
           entree'[j].type = "reponse" /\ entree'[j].canal = "getColor" => Pour(e, entree'[j])
      /\ rep'["getColor"] => Pour(e, valeur')
  BY DEF PourElle
<1> HIDE DEF e
<1>2. appels'[k] = e /\ e.attend = "getColor"
  BY DEF e
<1>3. QED  BY <1>1, <1>2, Zenon DEF QuestionPosee, PourElle, Pour

LEMMA QuestionsLot ==
    ASSUME InvTypes, InvTypes', InvEtapes, InvQuestions, SpinPrincipal \/ SpinOnce
    PROVE  InvQuestions'
<1>1. /\ UNCHANGED <<varsTopics, rep, valeur>>
      /\ Len(appels) \in Nat /\ Len(appels') = Len(appels) + 1
      /\ appels'[1].op = "lot" /\ appels'[1].attend = ""
      /\ \A i \in 1..Len(appels) : appels'[i + 1] = appels[i]
      /\ \A i \in 1..Len(appels') :
           i = 1 \/ \E j \in 1..Len(appels) : i = j + 1 /\ appels'[i] = appels[j]
  BY LotPose DEF SpinPrincipal, SpinOnce
<1>2. requetes' = requetes /\ entree' = entree /\ rep' = rep /\ valeur' = valeur
  BY <1>1 DEF varsTopics
<1>3. \A i \in 1..Len(appels) : i + 1 \in 1..Len(appels')
  <2>1. Len(appels) \in Nat /\ Len(appels') = Len(appels) + 1
    BY LotPose DEF SpinPrincipal, SpinOnce
  <2>2. QED  BY ONLY <2>1
<1>4. \A i \in 1..Len(appels) : appels[i].attend # "" => i = 1
  <2>1. CASE appels = <<>>
    <3>1. Len(appels) = 0
      BY ONLY <2>1
    <3>2. \A i : i \notin 1..Len(appels)
      BY ONLY <3>1
    <3>3. QED  BY <3>2
  <2>2. CASE appels # <<>>
    <3>1. Courant = appels[1] /\ EtapeJuste(Courant)
      BY <2>2, Tete DEF InvTypes
    <3>2. Courant.attend # ""
      BY <2>2 DEF SpinPrincipal, SpinOnce
    <3>3. appels[1].op # "lot"
      BY <3>1, <3>2 DEF EtapeJuste
    <3>4. QED  BY <3>3 DEF InvQuestions, UneAttente
  <2>3. QED  BY <2>1, <2>2
<1>5. UneAttente'
  <2> SUFFICES ASSUME NEW i \in 1..Len(appels'), appels'[i].attend # ""
               PROVE  i = 2
    BY <1>1 DEF UneAttente
  <2>1. PICK j \in 1..Len(appels) : i = j + 1 /\ appels'[i] = appels[j]
    BY <1>1
  <2>2. j = 1
    BY <1>4, <2>1
  <2>3. QED  BY ONLY <2>1, <2>2
<1>6. Servie'
  <2> SUFFICES ASSUME NEW i \in 1..Len(appels'), appels'[i].attend # "",
                      ~(\/ requetes'[appels'[i].attend] # <<>>
                        \/ \E j \in 1..Len(entree') :
                             entree'[j].type = "reponse" /\ entree'[j].canal = appels'[i].attend
                        \/ rep'[appels'[i].attend])
               PROVE  FALSE
    BY DEF Servie, EnVol, Repondue
  <2>1. PICK j \in 1..Len(appels) : i = j + 1 /\ appels'[i] = appels[j]
    BY <1>1
  <2>2. EnVol(appels[j].attend)
    BY <2>1 DEF InvQuestions, Servie
  <2>3. QED  BY <1>2, <2>1, <2>2 DEF EnVol, Repondue
<1>7. UneQuestion'
  BY <1>2 DEF InvQuestions, UneQuestion, Repondue
<1>8. QuestionPosee'
  <2> SUFFICES ASSUME EnVol("getColor")' PROVE QuestionPosee'
    BY DEF QuestionPosee
  <2>1. EnVol("getColor")
    BY <1>2 DEF EnVol, Repondue
  <2>2. PICK i \in 1..Len(appels) : appels[i].attend = "getColor" /\ PourElle(appels[i])
    BY <2>1 DEF InvQuestions, QuestionPosee
  <2>3. PICK k \in 1..Len(appels') : appels'[k] = appels[i]
    BY <1>1, <1>3
  <2>4. QED  BY <1>2, <2>2, <2>3, QuestionGardee
<1>9. QED  BY <1>5, <1>6, <1>7, <1>8 DEF InvQuestions

LEMMA QuestionsFinLot ==
    ASSUME InvTypes, InvTypes', InvQuestions, FinLot
    PROVE  InvQuestions'
<1>1. /\ appels # <<>> /\ appels[1].op = "lot"
      /\ Len(appels') = Len(appels) - 1 /\ Len(appels) \in Nat
      /\ \A i \in 1..Len(appels') : i + 1 \in 1..Len(appels) /\ appels'[i] = appels[i + 1]
      /\ UNCHANGED <<varsTopics, rep, valeur>>
  BY FinLotSuite DEF InvTypes
<1>2. requetes' = requetes /\ entree' = entree /\ rep' = rep /\ valeur' = valeur
  BY <1>1 DEF varsTopics
<1>3. appels[1].attend = ""
  BY <1>1, Tete DEF InvTypes, EtapeJuste
<1>4. UneAttente'
  <2> SUFFICES ASSUME NEW i \in 1..Len(appels'), appels'[i].attend # ""
               PROVE  i = 1
    BY DEF UneAttente
  <2>1. i + 1 \in 1..Len(appels) /\ appels[i + 1].attend # ""
    BY <1>1
  <2>2. i + 1 = 1 \/ i + 1 = 2
    BY <2>1 DEF InvQuestions, UneAttente
  <2>3. Len(appels') \in Nat
    <3>1. appels' \in Seq(EtapeType)
      BY DEF InvTypes, TypesFiles
    <3>2. QED  BY ONLY <3>1
  <2>4. QED  BY ONLY <2>2, <2>3, i \in 1..Len(appels')
<1>5. Servie'
  <2> SUFFICES ASSUME NEW i \in 1..Len(appels'), appels'[i].attend # "",
                      ~(\/ requetes'[appels'[i].attend] # <<>>
                        \/ \E j \in 1..Len(entree') :
                             entree'[j].type = "reponse" /\ entree'[j].canal = appels'[i].attend
                        \/ rep'[appels'[i].attend])
               PROVE  FALSE
    BY DEF Servie, EnVol, Repondue
  <2>1. i + 1 \in 1..Len(appels) /\ appels'[i] = appels[i + 1]
    BY <1>1
  <2>2. EnVol(appels[i + 1].attend)
    BY <2>1 DEF InvQuestions, Servie
  <2>3. QED  BY <1>2, <2>1, <2>2 DEF EnVol, Repondue
<1>6. UneQuestion'
  BY <1>2 DEF InvQuestions, UneQuestion, Repondue
<1>7. QuestionPosee'
  <2> SUFFICES ASSUME EnVol("getColor")' PROVE QuestionPosee'
    BY DEF QuestionPosee
  <2>1. EnVol("getColor")
    BY <1>2 DEF EnVol, Repondue
  <2>2. PICK i \in 1..Len(appels) : appels[i].attend = "getColor" /\ PourElle(appels[i])
    BY <2>1 DEF InvQuestions, QuestionPosee
  <2>3. i # 1
    BY <1>3, <2>2
  <2>4. i - 1 \in 1..Len(appels') /\ (i - 1) + 1 = i
    BY <1>1, <2>3
  <2>5. PICK k \in 1..Len(appels') : appels'[k] = appels[i]
    BY <1>1, <2>4
  <2>6. QED  BY <1>2, <2>2, <2>5, QuestionGardee
<1>8. QED  BY <1>4, <1>5, <1>6, <1>7 DEF InvQuestions

LEMMA QuestionsReponse ==
    ASSUME InvTypes, InvTypes', InvQuestions, CallbackReponse
    PROVE  InvQuestions'
<1> DEFINE m == Head(entree)
<1>1. /\ appels' = appels /\ lot > 0 /\ m.type = "reponse" /\ m \in ReponseType
      /\ rep' = [rep EXCEPT ![m.canal] = TRUE]
      /\ m.canal = "getColor" => valeur'.objet = m.objet /\ valeur'.rang = m.rang
      /\ m.canal # "getColor" => valeur'.objet = valeur.objet /\ valeur'.rang = valeur.rang
      /\ entree' = Tail(entree) /\ requetes' = requetes
  BY CallbackReponseSuite DEF InvTypes
<1>2. /\ m = entree[1] /\ 1 \in 1..Len(entree) /\ Len(entree) \in Nat
      /\ Len(entree') = Len(entree) - 1
      /\ \A i \in 1..Len(entree') : i + 1 \in 1..Len(entree) /\ entree'[i] = entree[i + 1]
  BY <1>1, EntreeLue DEF InvTypes
<1> HIDE DEF m
<1>3. m.canal \in Canaux /\ rep \in [Canaux -> BOOLEAN] /\ "getColor" \in Canaux
  BY <1>1 DEF ReponseType, InvTypes, TypesMemoire, Canaux
<1>4. \A i \in 1..Len(entree) : i = 1 \/ (i - 1 \in 1..Len(entree') /\ entree'[i - 1] = entree[i])
  <2> SUFFICES ASSUME NEW i \in 1..Len(entree), i # 1
               PROVE  i - 1 \in 1..Len(entree') /\ entree'[i - 1] = entree[i]
    OBVIOUS
  <2>1. i - 1 \in 1..Len(entree') /\ (i - 1) + 1 = i
    BY <1>2
  <2>2. QED  BY <1>2, <2>1
<1>5. UneAttente'
  BY <1>1 DEF InvQuestions, UneAttente
<1>6. Servie'
  <2> SUFFICES ASSUME NEW i \in 1..Len(appels), appels[i].attend # "",
                      ~(\/ requetes'[appels[i].attend] # <<>>
                        \/ \E j \in 1..Len(entree') :
                             entree'[j].type = "reponse" /\ entree'[j].canal = appels[i].attend
                        \/ rep'[appels[i].attend])
               PROVE  FALSE
    BY <1>1 DEF Servie, EnVol, Repondue
  <2>1. EnVol(appels[i].attend)
    BY DEF InvQuestions, Servie
  <2>2. appels[i].attend \in Canaux
    <3>1. appels[i] \in EtapeType
      <4>1. appels \in Seq(EtapeType)
        BY DEF InvTypes, TypesFiles
      <4>2. QED  BY ONLY <4>1, i \in 1..Len(appels)
    <3>2. appels[i].attend \in Canaux \cup {""}
      BY <3>1, SuitesDeLues
    <3>3. QED  BY <3>2
  <2>3. appels[i].attend # m.canal /\ ~rep[appels[i].attend]
    BY <1>1, <1>3, <2>2
  <2>4. PICK j \in 1..Len(entree) :
          entree[j].type = "reponse" /\ entree[j].canal = appels[i].attend
    BY <1>1, <2>1, <2>3 DEF EnVol, Repondue
  <2>5. j # 1
    BY <1>2, <2>3, <2>4
  <2>6. QED  BY <1>4, <2>4, <2>5
<1>7. \A i \in 1..Len(entree') : i + 1 # 1
  BY <1>2
<1>8. CASE m.canal = "getColor"
  <2>1. /\ ~rep["getColor"] /\ requetes["getColor"] = <<>>
        /\ \A j \in 1..Len(entree) :
             entree[j].type = "reponse" /\ entree[j].canal = "getColor" => 1 = j
    BY <1>1, <1>2, <1>8 DEF InvQuestions, UneQuestion, Repondue
  <2>2. \A i \in 1..Len(entree') :
          ~(entree'[i].type = "reponse" /\ entree'[i].canal = "getColor")
    BY <1>2, <1>7, <2>1
  <2>3. UneQuestion'
    BY <1>1, <2>1, <2>2 DEF UneQuestion, Repondue
  <2>4. EnVol("getColor")
    BY <1>1, <1>2, <1>8 DEF EnVol, Repondue
  <2>5. PICK i \in 1..Len(appels) : appels[i].attend = "getColor" /\ PourElle(appels[i])
    BY <2>4 DEF InvQuestions, QuestionPosee
  <2>6. Pour(appels[i], m)
    BY <1>1, <1>2, <1>8, <2>5 DEF PourElle
  <2>7. Pour(appels[i], valeur')
    BY <1>1, <1>8, <2>6 DEF Pour
  <2>8. QuestionPosee'
    BY <1>1, <2>1, <2>2, <2>5, <2>7 DEF QuestionPosee, PourElle, Pour
  <2>9. QED  BY <1>5, <1>6, <2>3, <2>8 DEF InvQuestions
<1>9. CASE m.canal # "getColor"
  <2>1. rep'["getColor"] <=> rep["getColor"]
    BY <1>1, <1>3, <1>9
  <2>2. Repondue("getColor")' => Repondue("getColor")
    BY <1>2 DEF Repondue
  <2>3. UneQuestion'
    <3>1. ASSUME NEW i \in 1..Len(entree'), NEW j \in 1..Len(entree'),
                 entree'[i].type = "reponse", entree'[i].canal = "getColor",
                 entree'[j].type = "reponse", entree'[j].canal = "getColor"
          PROVE  i = j
      <4>1. /\ i + 1 \in 1..Len(entree) /\ entree'[i] = entree[i + 1]
            /\ j + 1 \in 1..Len(entree) /\ entree'[j] = entree[j + 1]
        BY <1>2
      <4>2. i + 1 = j + 1
        BY <3>1, <4>1 DEF InvQuestions, UneQuestion
      <4>3. QED  BY <4>2
    <3>2. ASSUME NEW i \in 1..Len(entree'),
                 entree'[i].type = "reponse", entree'[i].canal = "getColor"
          PROVE  ~rep'["getColor"]
      BY <1>2, <2>1, <3>2 DEF InvQuestions, UneQuestion
    <3>3. requetes'["getColor"] # <<>> =>
            /\ Len(requetes'["getColor"]) = 1 /\ ~Repondue("getColor")'
            /\ ~rep'["getColor"]
      BY <1>1, <2>1, <2>2 DEF InvQuestions, UneQuestion
    <3>4. QED  BY <3>1, <3>2, <3>3 DEF UneQuestion, Repondue
  <2>4. QuestionPosee'
    <3> SUFFICES ASSUME EnVol("getColor")'
                 PROVE  (\E i \in 1..Len(appels) :
                           appels[i].attend = "getColor" /\ PourElle(appels[i]))'
      BY DEF QuestionPosee
    <3>1. EnVol("getColor")
      BY <1>1, <2>1, <2>2 DEF EnVol
    <3>2. PICK i \in 1..Len(appels) : appels[i].attend = "getColor" /\ PourElle(appels[i])
      BY <3>1 DEF InvQuestions, QuestionPosee
    <3>3. \A j \in 1..Len(entree') :
            entree'[j].type = "reponse" /\ entree'[j].canal = "getColor"
              => Pour(appels[i], entree'[j])
      BY <1>2, <3>2 DEF PourElle
    <3>4. rep'["getColor"] => Pour(appels[i], valeur')
      BY <1>1, <1>9, <2>1, <3>2 DEF PourElle, Pour
    <3>5. QED  BY <1>1, <3>2, <3>3, <3>4 DEF PourElle, Pour
  <2>5. QED  BY <1>5, <1>6, <2>3, <2>4 DEF InvQuestions
<1>10. QED  BY <1>8, <1>9

(* Nobody waits when an order begins, when update begins or goes on.       *)
LEMMA QuestionsPersonne ==
    ASSUME InvQuestions, Personne, Personne', ~EnVol("getColor") => ~EnVol("getColor")'
    PROVE  InvQuestions'
<1>1. ~EnVol("getColor")'
  BY PersonneDemande
<1>2. QED  BY <1>1, PersonneServie DEF Personne, InvQuestions, UneAttente, Servie,
                UneQuestion, QuestionPosee, EnVol, Repondue, PourElle

LEMMA QuestionsOrdre ==
    ASSUME InvTypes, InvTypes', InvTravail, InvQuestions, CallbackOrdre
    PROVE  InvQuestions'
<1> DEFINE m == Head(entree)
           s == Callback(m)
<1>1. /\ lot > 0 /\ m.type = "ordre" /\ entree' = Tail(entree)
      /\ appels' = s \o appels /\ EtapesDOrdre(Genre(m), s)
      /\ UNCHANGED <<requetes, rep>>
  BY CallbackOrdreSuite DEF InvTypes
<1>2. Oisif
  BY <1>1, TeteOrdre
<1> HIDE DEF s
<1>3. \A i \in 1..Len(entree') : i + 1 \in 1..Len(entree) /\ entree'[i] = entree[i + 1]
  BY <1>1, EntreeLue DEF InvTypes
<1>4. Personne
  <2> SUFFICES ASSUME NEW i \in 1..Len(appels) PROVE appels[i].attend = ""
    BY DEF Personne
  <2>1. appels[i].op \in {"lot", "verifier"} /\ EtapeJuste(appels[i])
    BY <1>2 DEF Oisif, Travail, InvTypes, TypesFiles
  <2>2. QED  BY <2>1 DEF EtapeJuste
<1>5. s \in Seq(EtapeType) /\ \A i \in 1..Len(s) : s[i].attend = ""
  BY <1>1 DEF EtapesDOrdre, EtapeDOrdre
<1>6. \A i \in 1..Len(appels') :
        \/ i \in 1..Len(s) /\ appels'[i] = s[i]
        \/ \E j \in 1..Len(appels) : appels'[i] = appels[j]
  <2>1. appels \in Seq(EtapeType)
    BY DEF InvTypes, TypesFiles
  <2>2. s \in Seq(EtapeType) /\ appels' = s \o appels
    BY <1>1, <1>5
  <2>3. \A i \in 1..Len(appels') :
          \/ i \in 1..Len(s) /\ appels'[i] = s[i]
          \/ \E j \in 1..Len(appels) : i = j + Len(s) /\ appels'[i] = appels[j]
    BY ONLY <2>1, <2>2, PileChargee, SMTT(20)
  <2>4. QED  BY <2>3
<1>7. Personne'
  BY <1>4, <1>5, <1>6 DEF Personne
<1>8. Repondue("getColor")' => Repondue("getColor")
  BY <1>3 DEF Repondue
<1>9. QED  BY <1>1, <1>4, <1>7, <1>8, QuestionsPersonne DEF EnVol

LEMMA QuestionsHeure ==
    ASSUME InvTypes, InvTypes', InvQuestions, UpdateHeure
    PROVE  InvQuestions'
<1>1. /\ appels # <<>> /\ Courant.op = "update" /\ Consomme
      /\ Len(appels') = Len(appels) + 1 /\ Len(appels) \in Nat
      /\ \A i \in 1..2 : appels'[i].attend = ""
      /\ UNCHANGED varsTopics
  BY UpdateHeureSuite DEF InvTypes
<1>2. \A i \in 1..Len(appels') :
        i \in 1..2 \/ \E j \in 2..Len(appels) : appels'[i] = appels[j]
  BY UpdateHeureSuite DEF InvTypes
<1>3. /\ requetes["getColor"] = <<>> /\ ~Repondue("getColor") /\ ~rep'["getColor"]
      /\ \A i \in 2..Len(appels) : appels[i].attend = ""
  BY <1>1, Consommee
<1>4. Personne'
  BY <1>1, <1>2, <1>3 DEF Personne
<1>5. ~EnVol("getColor")'
  BY <1>1, <1>3, RienEnVol DEF varsTopics
<1>6. QED  BY <1>4, <1>5, PersonneServie DEF Personne, InvQuestions, UneAttente, Servie,
                UneQuestion, QuestionPosee, EnVol, Repondue, PourElle

LEMMA QuestionsUpdate ==
    ASSUME InvTypes, InvTypes', InvQuestions, Update
    PROVE  InvQuestions'
<1>1. /\ appels = <<>> /\ Len(appels') = 1 /\ appels'[1].attend = "getTimeUpdate"
      /\ Interroge(appels'[1])
      /\ UNCHANGED <<entree, rep>>
  BY UpdateSuite DEF InvTypes
<1>2. PICK q \in RequeteType : requetes' = [requetes EXCEPT !["getTimeUpdate"] = Append(@, q)]
  BY <1>1 DEF Interroge
<1>3. requetes \in [Canaux -> Seq(RequeteType)] /\ {"getTimeUpdate", "getColor"} \subseteq Canaux
  BY DEF InvTypes, TypesFiles, Canaux
<1>4. requetes'["getColor"] = requetes["getColor"]
  BY <1>2, <1>3
<1>5. requetes'["getTimeUpdate"] # <<>>
  <2>1. requetes["getTimeUpdate"] \in Seq(RequeteType)
    BY <1>3
  <2>2. requetes'["getTimeUpdate"] = Append(requetes["getTimeUpdate"], q)
    BY <1>2, <1>3
  <2>3. QED  BY <2>1, <2>2
<1>6. ~EnVol("getColor")
  <2>1. Len(appels) = 0
    <3>1. appels = <<>>
      BY <1>1
    <3>2. QED  BY ONLY <3>1
  <2>2. QED  BY <2>1, PersonneDemande DEF Personne
<1>7. ~EnVol("getColor")'
  BY <1>1, <1>4, <1>6 DEF EnVol, Repondue
<1>8. \A i \in 1..Len(appels') : i = 1
  BY <1>1
<1>9. UneAttente' /\ Servie'
  BY <1>1, <1>5, <1>8 DEF UneAttente, Servie, EnVol
<1>10. UneQuestion' /\ QuestionPosee'
  BY <1>7 DEF UneQuestion, QuestionPosee, EnVol, Repondue
<1>11. QED  BY <1>9, <1>10 DEF InvQuestions

LEMMA QuestionsRobot ==
    ASSUME InvTypes, InvTypes', InvTravail, InvQuestions, Robot
    PROVE  InvQuestions'
<1>1. RobotNext
  BY DEF Robot
<1>2. CASE MemeSuite \/ TacheEchue
  <2>1. \E f \in EtapeType : Poursuit(f)
    BY <1>2, TacheQuiFinit DEF MemeSuite, InvTypes
  <2>2. QED  BY <2>1, QuestionsPoursuit
<1>3. CASE \/ FinMuette \/ \E code \in {2, 4, 5, 6, 7} : FinCode(code)
           \/ InitFin \/ RetourFin \/ TacheImpossible \/ TacheTerminee \/ StopTache
           \/ DebutTask
  <2>1. Termine
    BY <1>3, FinsDOrdre, StopDeTache, DebutDeTache DEF FinMuette, FinCode, InvTypes
  <2>2. QED  BY <2>1, QuestionsTermine
<1>4. CASE Update \/ UpdateHeure
  BY <1>4, QuestionsUpdate, QuestionsHeure
<1>5. CASE SpinPrincipal \/ SpinOnce \/ CallbackReponse \/ CallbackOrdre \/ FinLot
  BY <1>5, QuestionsLot, QuestionsReponse, QuestionsOrdre, QuestionsFinLot DEF InvTravail
<1>6. QED  BY <1>1, <1>2, <1>3, <1>4, <1>5, PasDuRobot
-----------------------------------------------------------------------------
(* What is published to the node is read after what it already had. *)
LEMMA EntreeAjoutee ==
    ASSUME InvTypes, NEW x, entree' = Append(entree, x)
    PROVE  /\ Len(entree) \in Nat /\ Len(entree') = Len(entree) + 1
           /\ entree'[Len(entree) + 1] = x
           /\ \A i \in 1..Len(entree) : i \in 1..Len(entree') /\ entree'[i] = entree[i]
           /\ \A i \in 1..Len(entree') : i \in 1..Len(entree) \/ i = Len(entree) + 1
<1>1. entree \in Seq(Messages)
  BY DEF InvTypes, TypesFiles
<1>2. /\ Len(entree) \in Nat /\ Len(entree') = Len(entree) + 1
      /\ entree'[Len(entree) + 1] = x
      /\ \A i \in 1..Len(entree) : entree'[i] = entree[i]
  BY <1>1
<1>3. QED  BY <1>2

LEMMA QuestionsAilleurs ==
    ASSUME InvTypes, InvQuestions, UNCHANGED <<appels, requetes, rep, valeur>>,
           entree' = entree \/ \E m : m.type = "ordre" /\ entree' = Append(entree, m)
    PROVE  InvQuestions'
<1>1. /\ \A c : Repondue(c)' <=> Repondue(c)
      /\ \A i \in 1..Len(entree') :
           entree'[i].type = "reponse" => i \in 1..Len(entree) /\ entree'[i] = entree[i]
  <2>1. CASE entree' = entree
    BY <2>1 DEF Repondue
  <2>2. CASE \E m : m.type = "ordre" /\ entree' = Append(entree, m)
    <3>1. PICK m : m.type = "ordre" /\ entree' = Append(entree, m)
      BY <2>2
    <3>2. \A i \in 1..Len(entree') :
            entree'[i].type = "reponse" => i \in 1..Len(entree) /\ entree'[i] = entree[i]
      BY <3>1, EntreeAjoutee
    <3>3. \A i \in 1..Len(entree) : i \in 1..Len(entree') /\ entree'[i] = entree[i]
      BY <3>1, EntreeAjoutee
    <3>4. QED  BY <3>2, <3>3 DEF Repondue
  <2>3. QED  BY <2>1, <2>2
<1>2. \A c : EnVol(c)' <=> EnVol(c)
  BY <1>1 DEF EnVol
<1>3. UneAttente' /\ Servie'
  BY <1>2 DEF InvQuestions, UneAttente, Servie, EnVol, Repondue
<1>4. UneQuestion'
  BY <1>1 DEF InvQuestions, UneQuestion
<1>5. \A e : PourElle(e) => PourElle(e)'
  BY <1>1 DEF PourElle, Pour
<1>6. QuestionPosee'
  BY <1>2, <1>5 DEF InvQuestions, QuestionPosee, PourElle, Pour
<1>7. QED  BY <1>3, <1>4, <1>6 DEF InvQuestions

LEMMA QuestionsScene ==
    ASSUME InvTypes, InvTypes', InvQuestions, NEW c \in Canaux, Scene(c)
    PROVE  InvQuestions'
<1> DEFINE q == requetes[c][1]
           r == Reponse(c, q)
<1>1. /\ requetes[c] # <<>> /\ requetes[c] \in Seq(RequeteType)
      /\ r.type = "reponse" /\ r.canal = c /\ r.objet = q.objet /\ r.rang = q.rang
      /\ entree' = Append(entree, r)
      /\ requetes' = [requetes EXCEPT ![c] = Tail(@)]
      /\ UNCHANGED varsRobot
  BY TypesReponse
<1> HIDE DEF q, r
<1>2. appels' = appels /\ rep' = rep /\ valeur' = valeur
  BY <1>1 DEF varsRobot
<1>3. /\ Len(entree) \in Nat /\ Len(entree') = Len(entree) + 1
      /\ entree'[Len(entree) + 1] = r
      /\ \A i \in 1..Len(entree) : i \in 1..Len(entree') /\ entree'[i] = entree[i]
      /\ \A i \in 1..Len(entree') : i \in 1..Len(entree) \/ i = Len(entree) + 1
  BY <1>1, EntreeAjoutee
<1>4. Len(entree) + 1 \in 1..Len(entree')
  BY <1>3
<1>5. requetes \in [Canaux -> Seq(RequeteType)] /\ "getColor" \in Canaux
  BY DEF InvTypes, TypesFiles, Canaux
<1>6. /\ \A d \in Canaux : d # c => requetes'[d] = requetes[d]
      /\ requetes'[c] = Tail(requetes[c])
  BY <1>1, <1>5
<1>7. UneAttente'
  BY <1>2 DEF InvQuestions, UneAttente
<1>8. Servie'
  <2> SUFFICES ASSUME NEW i \in 1..Len(appels), appels[i].attend # "",
                      ~(\/ requetes'[appels[i].attend] # <<>>
                        \/ \E j \in 1..Len(entree') :
                             entree'[j].type = "reponse" /\ entree'[j].canal = appels[i].attend
                        \/ rep'[appels[i].attend])
               PROVE  FALSE
    BY <1>2 DEF Servie, EnVol, Repondue
  <2>1. EnVol(appels[i].attend)
    BY DEF InvQuestions, Servie
  <2>2. appels[i].attend \in Canaux
    <3>1. appels \in Seq(EtapeType)
      BY DEF InvTypes, TypesFiles
    <3>2. appels[i] \in EtapeType
      BY ONLY <3>1, i \in 1..Len(appels)
    <3>3. appels[i].attend \in Canaux \cup {""}
      BY <3>2, SuitesDeLues
    <3>4. QED  BY <3>3
  <2>3. appels[i].attend # c
    BY <1>1, <1>3, <1>4
  <2>4. QED  BY <1>2, <1>3, <1>6, <2>1, <2>2, <2>3 DEF EnVol, Repondue
<1>9. CASE c = "getColor"
  <2>1. Len(requetes["getColor"]) = 1 /\ ~Repondue("getColor") /\ ~rep["getColor"]
    BY <1>1, <1>9 DEF InvQuestions, UneQuestion
  <2>2. requetes'["getColor"] = <<>>
    <3>1. /\ requetes["getColor"] \in Seq(RequeteType) /\ Len(requetes["getColor"]) = 1
          /\ requetes'["getColor"] = Tail(requetes["getColor"])
      BY <1>1, <1>6, <1>9, <2>1
    <3> DEFINE s == requetes["getColor"]
               t == requetes'["getColor"]
    <3>2. s \in Seq(RequeteType) /\ Len(s) = 1 /\ t = Tail(s)
      BY <3>1
    <3> HIDE DEF s, t
    <3>3. t \in Seq(RequeteType) /\ Len(t) = 0
      BY ONLY <3>2
    <3>4. t = <<>>
      BY <3>3, EmptySeq
    <3>5. QED  BY <3>4 DEF t
  <2>3. \A i \in 1..Len(entree') : entree'[i].type = "reponse" /\ entree'[i].canal = "getColor"
          => i = Len(entree) + 1 /\ entree'[i] = r
    BY <1>3, <2>1 DEF Repondue
  <2>4. UneQuestion'
    BY <1>2, <2>1, <2>2, <2>3 DEF UneQuestion
  <2>5. EnVol("getColor")
    BY <1>1, <1>9 DEF EnVol
  <2>6. PICK i \in 1..Len(appels) : appels[i].attend = "getColor" /\ PourElle(appels[i])
    BY <2>5 DEF InvQuestions, QuestionPosee
  <2>7. Pour(appels[i], r)
    BY <1>1, <1>9, <2>6 DEF PourElle, Pour, q
  <2>8. QuestionPosee'
    BY <1>2, <2>1, <2>2, <2>3, <2>6, <2>7 DEF QuestionPosee, PourElle, Pour
  <2>9. QED  BY <1>7, <1>8, <2>4, <2>8 DEF InvQuestions
<1>10. CASE c # "getColor"
  <2>1. requetes'["getColor"] = requetes["getColor"]
    BY <1>5, <1>6, <1>10
  <2>2. \A i \in 1..Len(entree') : entree'[i].type = "reponse" /\ entree'[i].canal = "getColor"
          => i \in 1..Len(entree) /\ entree'[i] = entree[i]
    BY <1>1, <1>3, <1>10
  <2>3. Repondue("getColor")' => Repondue("getColor")
    BY <2>2 DEF Repondue
  <2>4. UneQuestion'
    BY <1>2, <2>1, <2>2, <2>3 DEF InvQuestions, UneQuestion, Repondue
  <2>5. QuestionPosee'
    <3> SUFFICES ASSUME EnVol("getColor")'
                 PROVE  (\E i \in 1..Len(appels) :
                           appels[i].attend = "getColor" /\ PourElle(appels[i]))'
      BY DEF QuestionPosee
    <3>1. EnVol("getColor")
      BY <1>2, <2>1, <2>3 DEF EnVol
    <3>2. PICK i \in 1..Len(appels) : appels[i].attend = "getColor" /\ PourElle(appels[i])
      BY <3>1 DEF InvQuestions, QuestionPosee
    <3>3. \A j \in 1..Len(entree') :
            entree'[j].type = "reponse" /\ entree'[j].canal = "getColor"
              => Pour(appels[i], entree'[j])
      BY <2>2, <3>2 DEF PourElle
    <3>4. QED  BY <1>2, <2>1, <3>2, <3>3 DEF PourElle, Pour
  <2>6. QED  BY <1>7, <1>8, <2>4, <2>5 DEF InvQuestions
<1>11. QED  BY <1>9, <1>10

LEMMA QuestionsPas ==
    ASSUME InvTypes, InvTypes', InvTravail, InvQuestions, [Next]_vars
    PROVE  InvQuestions'
<1>1. CASE UNCHANGED vars
  BY <1>1, QuestionsAilleurs DEF vars, varsRobot, varsMonde, varsTopics
<1>2. CASE \E m \in UNION Programmes : DonneOrdre(m)
  <2>1. PICK m \in UNION Programmes : DonneOrdre(m)
    BY <1>2
  <2>2. m.type = "ordre" /\ entree' = Append(entree, m) /\ UNCHANGED <<requetes, varsRobot>>
    BY <2>1, TypesDonneOrdre
  <2>3. QED  BY <2>2, QuestionsAilleurs DEF varsRobot
<1>3. CASE \E k \in Genres : Constate(k)
  BY <1>3, QuestionsAilleurs DEF Constate, varsRobot, varsMonde, varsTopics
<1>4. CASE Retour
  BY <1>4, QuestionsAilleurs DEF Retour, RetourRobotCallback, varsRobot
<1>5. CASE Robot
  BY <1>5, QuestionsRobot
<1>6. CASE \E c \in Canaux : Scene(c)
  BY <1>6, QuestionsScene
<1>7. CASE Bras
  BY <1>7, QuestionsAilleurs DEF Bras, BrasBouge, varsRobot, varsTopics
<1>8. CASE \E p \in PositionsNavette : Navette(p)
  BY <1>8, QuestionsAilleurs DEF Navette, NavetteBouge, varsRobot, varsTopics
<1>9. QED  BY <1>1, <1>2, <1>3, <1>4, <1>5, <1>6, <1>7, <1>8 DEF Next

LEMMA QuestionsInit ==
    ASSUME Init, InvTypes
    PROVE  InvQuestions
<1> DEFINE e == Etape("init", 0, 0)
<1>1. e.attend = ""
  BY DEF Etape
<1>2. appels = <<e>>
  BY DEF Init, InitRobot
<1> HIDE DEF e
<1>3. Len(appels) = 1 /\ appels[1] = e
  BY <1>2
<1>4. Personne
  <2>1. \A i \in 1..Len(appels) : i = 1
    BY ONLY <1>3
  <2>2. \A i \in 1..Len(appels) : appels[i] = e
    BY <1>3, <2>1, Zenon
  <2>3. QED  BY <1>1, <2>2, Zenon DEF Personne
<1>5. /\ requetes = [c \in Canaux |-> <<>>] /\ entree = <<>>
      /\ \A c \in Canaux \ {"getTimeUpdate"} : ~rep[c]
  BY DEF Init, InitTopics, InitRobot
<1>6. requetes["getColor"] = <<>> /\ ~rep["getColor"]
  BY <1>5 DEF Canaux
<1>7. ~Repondue("getColor")
  BY <1>5 DEF Repondue
<1>8. QED  BY <1>4, <1>6, <1>7, PersonneServie DEF EnVol
-----------------------------------------------------------------------------
(* The types of every variable of the node, of the topics and of the       *)
(* command hold at every step (robots.cpp, RobotsInterface.cpp), whatever  *)
(* orders are given and whatever they overlap.                             *)
THEOREM TypesDuRobot == Spec => []TypeOK
<1>1. Init => InvTypes
  BY TypesInit
<1>2. InvTypes /\ [Next]_vars => InvTypes'
  BY TypesPas
<1>3. InvTypes => TypeOK
  <2> SUFFICES ASSUME InvTypes PROVE TypeOK
    OBVIOUS
  <2>1. \A i \in DOMAIN appels : appels[i] \in EtapeType
    BY DEF InvTypes, TypesFiles
  <2>2. lot \in 0..Len(entree)
    BY DEF InvTypes, TypesFiles
  <2>3. valeur.couleur \in Couleurs
    BY DEF InvTypes, TypesMemoire, ValeurType
  <2>4. QED
    BY <2>1, <2>2, <2>3 DEF InvTypes, TypesMemoire, TypesScene, TypesCommande, TypeOK
<1>4. QED  BY <1>1, <1>2, <1>3, PTL DEF Spec

Inv == InvTypes /\ InvTravail /\ InvQuestions

LEMMA InvToujours == UneALaFois => (Spec => []Inv)
<1> SUFFICES ASSUME UneALaFois PROVE Spec => []Inv
  OBVIOUS
<1>1. Init => Inv
  BY TypesInit, TravailInit, QuestionsInit DEF Inv
<1>2. Inv /\ [Next]_vars => Inv'
  BY TypesPas, TravailPas, QuestionsPas DEF Inv
<1>3. QED  BY <1>1, <1>2, PTL DEF Spec
-----------------------------------------------------------------------------
(* Only one callback waits, and it is the one at work.                     *)
LEMMA AttendSeul ==
    ASSUME InvTypes, UneAttente, NEW i \in 1..Len(appels), appels[i].attend # ""
    PROVE  /\ \A j \in 1..Len(appels) : appels[j].attend # "" => j = i
           /\ appels[1].op # "lot" => i = 1
<1>1. 1 \in 1..Len(appels)
  <2>1. appels \in Seq(EtapeType)
    BY DEF InvTypes, TypesFiles
  <2>2. Len(appels) \in Nat
    BY ONLY <2>1
  <2>3. QED  BY ONLY <2>2, i \in 1..Len(appels)
<1>2. appels[1].op = "lot" => appels[1].attend = ""
  BY <1>1 DEF InvTypes, TypesFiles, EtapeJuste
<1>3. \A j \in 1..Len(appels) :
        appels[j].attend # "" => j = 1 \/ (j = 2 /\ appels[1].op = "lot")
  BY DEF UneAttente
<1>4. \A j \in 1..Len(appels) :
        appels[j].attend # "" => IF appels[1].op = "lot" THEN j = 2 ELSE j = 1
  BY <1>2, <1>3, Zenon
<1>5. QED  BY <1>4, Zenon

LEMMA PartieFinie ==
    ASSUME NEW n \in Nat, NEW P \in SUBSET (1..n)
    PROVE  /\ Cardinality(P) \in Nat
           /\ P # {} => Cardinality(P) >= 1
<1>1. IsFiniteSet(1..n)
  BY FS_Interval
<1>2. IsFiniteSet(P)
  BY <1>1, FS_Subset
<1>3. Cardinality(P) \in Nat
  BY <1>2, FS_CardinalityType
<1>4. Cardinality(P) = 0 => P = {}
  BY <1>2, FS_EmptySet
<1> DEFINE k == Cardinality(P)
<1>5. k \in Nat /\ (P # {} => k # 0)
  BY <1>3, <1>4
<1> HIDE DEF k
<1>6. k \in Nat /\ (P # {} => k >= 1)
  BY <1>5
<1>7. QED  BY <1>6, Zenon DEF k

(* What is under way on a channel counts for at least one. *)
LEMMA EnRouteCompte ==
    ASSUME InvTypes, NEW c \in Canaux
    PROVE  EnRoute(c) \in Nat /\ (EnVol(c) => EnRoute(c) >= 1)
<1> DEFINE q == requetes[c]
           R == {i \in DOMAIN entree : entree[i].type = "reponse" /\ entree[i].canal = c}
           l == Len(q)
           k == Cardinality(R)
           b == IF rep[c] THEN 1 ELSE 0
<1>1. q \in Seq(RequeteType) /\ entree \in Seq(Messages)
  BY DEF InvTypes, TypesFiles
<1>2. EnRoute(c) = l + k + b
  BY DEF EnRoute
<1>3. EnVol(c) => q # <<>> \/ R # {} \/ rep[c]
  <2>1. DOMAIN entree = 1..Len(entree)
    BY <1>1
  <2>2. QED  BY <2>1 DEF EnVol, Repondue
<1>4. R \in SUBSET (1..Len(entree)) /\ Len(entree) \in Nat
  BY <1>1
<1> HIDE DEF R, q
<1>5. k \in Nat /\ (R # {} => k >= 1)
  BY <1>4, PartieFinie
<1>6. l \in Nat /\ (q # <<>> => l >= 1)
  <2>1. l \in Nat
    BY <1>1
  <2>2. q # <<>> => l \in Nat \ {0}
    BY <1>1, EmptySeq
  <2>3. QED  BY <2>1, <2>2
<1>7. b \in Nat /\ (rep[c] => b >= 1)
  OBVIOUS
<1> HIDE DEF l, k, b
<1>8. QED  BY <1>2, <1>3, <1>5, <1>6, <1>7

(* No wake-up is lost: when the command gives one order at a time, every   *)
(* callback that waits in a nested ros::spinOnce (robots.cpp) has its      *)
(* request, its answer or the flag of its answer still to be consumed.     *)
THEOREM AttenteToujoursServie == UneALaFois => (Spec => []AttenteServie)
<1>1. Inv => AttenteServie
  <2> SUFFICES ASSUME Inv, NEW c \in Canaux PROVE Attentes(c) <= EnRoute(c)
    BY DEF AttenteServie
  <2> USE DEF Inv
  <2> DEFINE A == {i \in DOMAIN appels : appels[i].attend = c}
  <2>1. c # ""
    BY DEF Canaux
  <2>2. EnRoute(c) \in Nat /\ (EnVol(c) => EnRoute(c) >= 1)
    BY EnRouteCompte
  <2>3. DOMAIN appels = 1..Len(appels)
    <3>1. appels \in Seq(EtapeType)
      BY DEF InvTypes, TypesFiles
    <3>2. QED  BY ONLY <3>1
  <2>4. CASE A = {}
    <3>1. Attentes(c) = 0
      BY <2>4, FS_EmptySet DEF Attentes
    <3>2. QED  BY <2>2, <3>1
  <2>5. CASE A # {}
    <3>1. PICK i \in 1..Len(appels) : appels[i].attend = c
      BY <2>3, <2>5
    <3>2. \A j \in 1..Len(appels) : appels[j].attend # "" => j = i
      BY <2>1, <3>1, AttendSeul DEF InvQuestions
    <3>3. A = {i}
      BY <2>1, <2>3, <3>1, <3>2
    <3>4. Attentes(c) = 1
      BY <3>3, FS_Singleton DEF Attentes
    <3>5. EnVol(c)
      BY <2>1, <3>1 DEF InvQuestions, Servie
    <3>6. QED  BY <2>2, <3>4, <3>5
  <2>6. QED  BY <2>4, <2>5
<1>2. UneALaFois => (Spec => []Inv)
  BY InvToujours
<1>3. QED  BY <1>1, <1>2, PTL

(* The answer a callback goes on with is the answer to the question it     *)
(* asked: the colour in `valeur` is that of its object and its rank, when  *)
(* the command gives one order at a time (robots.cpp, getColorCallback).   *)
THEOREM ReponseToujoursLaSienne == UneALaFois => (Spec => []ReponsePourLaQuestion)
<1>1. Inv => ReponsePourLaQuestion
  <2> SUFFICES ASSUME Inv, appels # <<>>, Courant.attend = "getColor", rep["getColor"]
               PROVE  Pour(Courant, valeur)
    BY DEF ReponsePourLaQuestion, Pour
  <2> USE DEF Inv
  <2>1. Courant = appels[1] /\ 1 \in 1..Len(appels)
    <3>1. appels \in Seq(EtapeType) /\ appels # <<>>
      BY DEF InvTypes, TypesFiles
    <3>2. Head(appels) = appels[1]
      BY ONLY <3>1
    <3>3. Len(appels) \in Nat \ {0}
      BY <3>1, EmptySeq
    <3>4. QED  BY <3>2, <3>3 DEF Courant
  <2>2. EnVol("getColor")
    BY DEF EnVol
  <2>3. PICK i \in 1..Len(appels) : appels[i].attend = "getColor" /\ PourElle(appels[i])
    BY <2>2 DEF InvQuestions, QuestionPosee
  <2>4. i = 1
    BY <2>1, <2>3, AttendSeul DEF InvQuestions
  <2>5. QED  BY <2>1, <2>3, <2>4 DEF PourElle
<1>2. UneALaFois => (Spec => []Inv)
  BY InvToujours
<1>3. QED  BY <1>1, <1>2, PTL
=============================================================================
